SPECIFICATION Spec
CONSTANTS
    None = None
    NoMeasure = NoMeasure
    Samples = 2
    GapReported = 2
    Corridors <- MCCorridors
    Payloads <- MCPayloads
    MaxInvocations = 3
    MaxOutages = 2
CHECK_DEADLOCK FALSE
INVARIANTS
    TypeOK
    EveryRecordIsAnswered
    IssuesFollowTheirRecord
    FailuresAreExplained
