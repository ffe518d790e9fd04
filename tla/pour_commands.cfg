CONSTANTS
    ServerCounts = TRUE
    Base = 1
    PourAt = 2
    KeepTokens = 2
    KeepFloor = 1
    Price = "stormy"
    HoldPolls = 1
    WaitPolls = 1
    Commands = {"budget", "manual", "reset"}
    Serial = TRUE
    Faults = {"write", "lost", "summary", "read", "poll", "restart"}
    MaxMessages = 3
SPECIFICATION MCSpec
INVARIANT TypeOK
PROPERTY NoArchiveQueuedBehindAnother
PROPERTY CompactedMeansSummaryIsOver
PROPERTY KeptTailIsWholeTurns
