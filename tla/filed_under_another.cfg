CONSTANTS
    Agents = {"A", "B"}
    Sessions = {"s1", "s2"}
    Owner <- OwnerOf
    Uuids = {"s1"}
    Telling <- SomeTelling
    Keys <- OwnKeys
    Prefixed = FALSE
    EngineNames <- EngineForms
    ToolNames <- ToolForms
    HookNames <- HookForms
    Unscoped = {}
SPECIFICATION AccountsSpec
INVARIANT NothingLeaks
CHECK_DEADLOCK FALSE
