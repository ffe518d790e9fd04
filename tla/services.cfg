SPECIFICATION FairSpec
CONSTANTS
    Operations = {"health", "find", "read", "list", "readToolResult", "getTask", "getSessionContext", "grepSessionArchives", "createSession", "addSessionMessage", "commitSession", "uploadTempFile", "addResource", "deleteUri"}
    Callers = {"tool", "preload"}
    Versions = {"v1", "v2", "bad"}
    Unusable = {"bad"}
    Parts = 2
    MaxEdits = 1
    MaxTroubles = 2
    MaxStops = 1
    Agents = {"A", "B"}
    Sessions = {"s1", "s2"}
    Owner <- OwnerOf
    Uuids = {"s1"}
    Telling <- SomeTelling
    Keys <- SomeKeys
    Prefixed = TRUE
    EngineNames <- EngineForms
    ToolNames <- ToolForms
    HookNames <- HookForms
    Unscoped = {}
    Taxonomies <- OneTaxonomy
    Retrieval <- Limits
    Scores = {1, 2, 3}
    Ranks = {1, 2}
    Names = {"r1"}
    Selectors <- SomeSelectors
    MaxCalls = 2
    Items <- SomeItems
    Threshold = 3
    Strong = 8
    MaxUses = 1
    MaxArchives = 2
INVARIANT RouterFitsTaxonomy
INVARIANT WordIsTrue
INVARIANT OneChangePerCall
INVARIANT SessionKeepsItsAccount
INVARIANT TaughtToTheTools
PROPERTY RequestImplementsCall
PROPERTY OuterCallsReturn
CHECK_DEADLOCK FALSE
