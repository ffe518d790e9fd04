CONSTANTS
    ServerCounts = TRUE
    Base = 1
    PourAt = 3
    KeepTokens = 1
    KeepFloor = 1
    Price = "stormy"
    HoldPolls = 1
    WaitPolls = 1
    Commands = {"budget"}
    Serial = TRUE
    Faults = {}
    MaxMessages = 5
SPECIFICATION Spec
PROPERTY NothingIsDueAfterAnother
