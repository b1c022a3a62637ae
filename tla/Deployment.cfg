SPECIFICATION Spec
CONSTANTS
    Confined = {"in"}
    Identifiers = {}
    UUIDs = {}
    Prefixed = {}
    References = {"t@1", "t@2"}
    Catalogs <- MCCatalogs
    Manifests <- MCManifests
    Schemas <- MCSchemas
    Recorded <- MCRecorded
    TaskIDs = {"t1"}
    Repos = {"r"}
    SHAs = {"h"}
    MaxFieldLength = 2
    MaxSchemaFields = 2
    MaxEnumValues = 1
    IntegerInputs = {0}
    PayloadCap = 3
    Registries <- MCRegistries
    Anchors <- MCAnchors
    ToolRegistries <- MCToolRegistries
    Workflows <- MCWorkflows
    WorkflowCeilings <- MCWorkflowCeilings
    Contracts <- MCContracts
    Ceilings <- MCCeilings
    Templates <- MCTemplates
    ControlVerbs = {}
    VerificationEvents = {"passed"}
    Configured = {"instructions", "policy", "delegations"}
    Compiled = "c1"
    Expected = {"A1", "A2"}
    Verifier = TRUE
    Delegator = TRUE
    Initial <- MCInitial
    Versions <- MCVersions
    Requests <- MCRequests
    HandMade <- MCHandMade
    Calls <- MCCalls
    Usages <- MCUsages
    MaxOpens = 2
    MaxEdits = 2
INVARIANTS
    IdentityIsFinal
    ExecutesTheDeployment
    GrantsOnlyNarrow
    RecordHoldsWhatExecutes
    EmittedIsAdmitted
CHECK_DEADLOCK FALSE
