SPECIFICATION MCFairSpec
CONSTANTS
    Texts = {"yes", "why"}
    MaxTurns = 3
    MaxRounds = 1
    ClaimLimit = 4
    HostWaits = TRUE
    Faults = {"unheard", "lost", "restart", "pour"}
INVARIANT EachMessageOnce
INVARIANT StoredInOrder
INVARIANT SettledTurnsAreWhole
PROPERTY SkippedIsOwn
PROPERTY RoughTurnIsSettled
CHECK_DEADLOCK FALSE
