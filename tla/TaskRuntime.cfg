SPECIFICATION Spec
CONSTANTS
    Callers = {c1, c2}
    Budget = 2
    MaxCalls = 2
    MaxFaults = 2
    MaxWork = 1
INVARIANTS
    RecordShowsMachine
    EgressIsStable
    NothingOutlivesTask
    ReportedIsRecorded
PROPERTY SubmitReturns
CHECK_DEADLOCK FALSE
