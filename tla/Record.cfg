\* The record of one task, two objects, up to two faults, restarts for ever.
SPECIFICATION Spec
CONSTANTS
    Objects = {a, b}
    None = None
    MaxEvents = 4
    MaxFaults = 2
INVARIANTS
    OneAppender
    AckedEventsSurvive
    LegalLifecycle
PROPERTIES
    AppendOnly
    SettledIsFinal
