SPECIFICATION Spec
CONSTANTS
    NoState = NoState
    NoVersion = NoVersion
    None = None
    ListKey = ListKey
    NotFound = NotFound
    GroupOf <- MCGroupOf
    ChurnSample = 1
    Threads = {t1, t2}
    Events = {1, 2}
    StepKinds <- MCStepKinds
    Starts <- MCStarts
    Unresolved = {}
    Source = "feed"
    Wanted <- MCWanted
    Limit = 1
    PageRows = 1
    Window = 2
    PageItems = 3
    MaxEntries = 1
    TTL = 1
    MaxClock = 1
CHECK_DEADLOCK FALSE
INVARIANTS
    TypeOK
    AnswersAreRecent
    TraceTellsTheTruth
    ListingIsHonest
PROPERTY EveryRequestIsAnswered
