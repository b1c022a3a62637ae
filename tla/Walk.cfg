SPECIFICATION FairSpec
CONSTANTS
  NumPhases = 2
  Outcomes = {"PASS", "FAIL"}
  Tokens = {"unit@1", "lint@1"}
  None = None
  Workflows <- MCWorkflows
  MaxTurnsPerPhase = 2
  MaxWalkLength = 40
  TotalMaxCalls = 4
INVARIANTS StaticTotality VisitsPaidFor RecordRederivesWalk
PROPERTY Terminates
CHECK_DEADLOCK FALSE
