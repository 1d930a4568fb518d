CONSTANTS
    None = None
    EventIds = {e1, e2}
    a1 = a1
    a2 = a2
    b1 = b1
    newer = newer
    older = older
    other = other
    twin = twin
    Records <- FeedRecords
    SourceOf <- FeedSourceOf
    Candidates = {newer, older, other}
    RecordOf <- FeedRecordOf
    StampOf <- FeedStampOf
    MaxVersion = 4
    Workers = {w1, w2}
    MaxDeliveries = 3
    Crashes = TRUE
    Backend = "dynamo"
SPECIFICATION Spec
INVARIANTS TypeOK HistoryHasNoHoles HistoryIsLegal ReferencesResolve AbsorbedHasChild
PROPERTIES AppendOnly NoRegress ImplementsEventLog DoneIsStoredOrOvertaken
SYMMETRY MCSymmetry
CHECK_DEADLOCK FALSE
