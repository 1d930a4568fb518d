SPECIFICATION MCSpec
CONSTANTS
    None = None
    NoMeasure = NoMeasure
    Samples = 4
    EventIds = {"z1", "z2", "z3"}
    EventOf <- MCEventOf
    Corridors <- MCCorridors
    Requests <- MCRequests
    Snapshots <- MCSnapshots
    GroupOf <- MCGroupOf
    Reliability <- MCReliability
    Redistributable <- MCRedistributable
    ReopenWindow <- MCReopenWindow
    HalfLife <- MCHalfLife
    Now = 12
    Lookback = 6
    DefaultDistance = 6
    DefaultLimit = 2
    MaxLimit = 2
    MaxRequests = 1
    MaxMoves = 2
CHECK_DEADLOCK FALSE
INVARIANTS
    NothingLiveIsMissed
    FeedIsLicensedAndWhole
    ClustersAreConnected
    OnlyIndependentWitnessesAdd
