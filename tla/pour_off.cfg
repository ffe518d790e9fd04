SPECIFICATION MCFairSpec
CONSTANTS
    ServerCounts = TRUE
    Base = 3
    PourAt = 4
    KeepTokens = 3
    KeepFloor = 1
    Price = "stormy"
    HoldPolls = 1
    WaitPolls = 1
    Commands = {}
    Serial = TRUE
    Faults = {"summary", "restart"}
    MaxMessages = 5
INVARIANT NothingShownBetweenTurns
INVARIANT EveryPourOffIsTold
PROPERTY PutOffPourIsMadeOnce
PROPERTY KeptTailFitsUnderX
PROPERTY OldServerIsServedAsWell
PROPERTY PutOffPourIsMade
PROPERTY CallsReturn
