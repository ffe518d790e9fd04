CONSTANTS
    MaxMessages = 3
    MaxWeight = 3
    LongLists = {5, 7, 8}
    Queries <- AllQueries
    Conversations <- SmallConversations
    Archives <- SmallArchives
    Probes = 2
    Floor = 1
    KeepTokens = 2
    Ids <- TwoIds
    Strict <- TwoStrict
    Texts = {"none", "text"}
    Calls <- NoneOneOrBoth
    Errored = {TRUE, FALSE}
    MaxHeard = 4
SPECIFICATION WindowFairSpec
INVARIANT TypeOK
INVARIANT ChosenIsLongestWithinCap
INVARIANT KeptWindowFitsUnderX
INVARIANT ResultsStandWithTheirCalls
INVARIANT SaidInTurns
INVARIANT PricedIdsTellCallsApart
INVARIANT BothPathsRecordTheSame
INVARIANT NothingFallsBetween
PROPERTY SearchEndsSoon
CHECK_DEADLOCK FALSE
