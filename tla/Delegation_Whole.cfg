SPECIFICATION Spec
CONSTANTS
  MaxItemBytes = 4
  MaxContextBytes = 6
  MaxContextItems = 3
  MaxComposedBytes = 99
  MaxMatches = 1
  Frame = 1
  ToolTrust <- MCToolTrust
  ToolsHash = "tools"
  ParentEIS <- MCParentEIS
  ParentCeiling = 1
  SizeOf <- MCSizeOf
  Registry <- MCRegistry
  Files <- MCFiles
  Start <- MCStart
  Delegate = 1
  Results <- MCResults
  Briefs = {1}
  Forms = {"compact", "spaced"}
  Outputs = {1, 3}
  MaxRefs = 1
  MaxTurns = 1
  MaxFaults = 0
INVARIANTS WholeRecordsConfirm
CHECK_DEADLOCK FALSE
