CONSTANTS
    None = None
    EventIds = {e1, e2, e3}
    a1 = a1
    a2 = a2
    b1 = b1
    newer = newer
    older = older
    other = other
    twin = twin
    Records <- TwinRecords
    SourceOf <- TwinSourceOf
    Candidates = {newer, older, other, twin}
    RecordOf <- TwinRecordOf
    StampOf <- TwinStampOf
    MaxVersion = 5
    Workers = {w1}
    MaxDeliveries = 3
    Crashes = FALSE
    Backend = "memory"
SPECIFICATION Spec
INVARIANTS OneRecordPerSource OneLiveEventPerRecord LiveEventsAreTimed
SYMMETRY MCSymmetry
CHECK_DEADLOCK FALSE
