SPECIFICATION Spec
CONSTANTS
  Confined = {"a", "b"}
  Identifiers = {}
  UUIDs = {}
  Prefixed <- MCPrefixed
  References = {}
  Files = {"a", "b", "git"}
  Creatable = {"a", "b"}
  Contents = {"old", "other", "new"}
  Workspaces <- MCWorkspaces
  Registry <- MCRegistry
  Grant <- MCGrant
  Phases <- MCPhases
  Calls <- MCCalls
  MaxCalls = 3
  MaxFaults = 1
INVARIANTS PatchAllOrNothing TraceExplainsArtifact QuotasBound
PROPERTY CallsAreAnswered
CHECK_DEADLOCK FALSE
