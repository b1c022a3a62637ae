SPECIFICATION Spec
CONSTANTS
    t1 = t1
    t2 = t2
    Absent = Absent
    Tasks <- MCTasks
    L4 <- MCL4
    MaxConfig = 1
    Calls <- MCCalls
    Reports <- MCReports
    Authorizing = "h"
    Canonicalizers = {"verify_report"}
    Registrable <- MCRegistrable
    Contents <- MCContents
    FirstRegistry <- MCFirstRegistry
    FirstDisk <- MCFirstDisk
    MaxCalls <- MCMaxCalls
    MaxEdits = 2
    MaxRestarts = 1
INVARIANTS RefusalsAreRecorded EvaluationsReconstruct UsedRegistriesGrow
CHECK_DEADLOCK FALSE
