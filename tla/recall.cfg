SPECIFICATION FairSpec
CONSTANTS
    Commands = {c1, c2}
    Readers = {r1}
    Keys = {k1}
    Values = {v1}
    MaxEdits = 1
    MaxStops = 1
    DiskFails = TRUE
    Sessions = {s1}
    NameSets <- EntryNames
    AskedNames <- QueryNames
    Queries = {q1}
    MaxEntries = 1
    MaxRecorded = 2
    LastDay = 2
    RetentionDays = 1
    QueryMaxDays = 1
    Fails = TRUE
    MinCandidates = 2
    Multiplier = 2
    Memories <- Pool
    Plan <- MemoriesThenResources
    Static <- Configured
    ClawRecords <- OfClaws
    SessionRecords <- OfSessions
    Requests <- OfRequests
    Budget = 5
    RerankKeep = 2
    RerankCandidates = 2
    Floor = 6
    Relevances = {1, 7}
    PreferAbstract = FALSE
INVARIANT MarkMeansMemoryIsFile
INVARIANT LatestIsLatest
INVARIANT BlockFits
INVARIANT SettingsAreTheHighest
INVARIANT InjectedIsEarned
PROPERTY AcknowledgedChangeIsWritten
PROPERTY EveryoneIsAnswered
CHECK_DEADLOCK FALSE
