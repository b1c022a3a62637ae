SPECIFICATION Spec
CONSTANTS
    Writers = {w1, w2}
    Objects = {a1, a2}
    MaxCalls = 4
    MaxFaults = 3
INVARIANTS
    NeverPoisoned
    ReferencesSurvive
PROPERTY KeepsPromise
CHECK_DEADLOCK FALSE
