CONSTANTS
    ServerCounts = TRUE
    Base = 1
    PourAt = 3
    KeepTokens = 1
    KeepFloor = 1
    Price = "stormy"
    HoldPolls = 1
    WaitPolls = 1
    Commands = {}
    Serial = TRUE
    Faults = {"read"}
    MaxMessages = 5
SPECIFICATION Spec
INVARIANT NothingShownBetweenTurns
