CONSTANTS
    None = None
    EventIds = {e1, e2}
    a1 = a1
    a2 = a2
    b1 = b1
    newer = newer
    older = older
    other = other
    twin = twin
    Records <- FeedRecords
    SourceOf <- FeedSourceOf
    Candidates = {newer, older, other}
    RecordOf <- FeedRecordOf
    StampOf <- FeedStampOf
    MaxVersion = 5
    Workers = {w1}
    MaxDeliveries = 3
    Crashes = FALSE
    Backend = "dynamo"
SPECIFICATION Spec
INVARIANT HandledIsStored
CHECK_DEADLOCK FALSE
