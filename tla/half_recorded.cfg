CONSTANTS
    Texts = {"yes", "why"}
    MaxTurns = 2
    MaxRounds = 1
    ClaimLimit = 4
    HostWaits = TRUE
    Faults = {"write"}
SPECIFICATION Spec
INVARIANT SettledTurnsAreWhole
CHECK_DEADLOCK FALSE
