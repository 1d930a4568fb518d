CONSTANTS
    feed = feed
    orphan = orphan
    c1 = c1
    c2 = c2
    Polls = {feed, orphan}
    Candidates = {c1, c2}
    Yields <- SmallYields
    Unregistered = {orphan}
    BatchSize = 1
    Retries = 1
    MaxRepeats = 1
    FaultySets = {{feed}, {c1}, {c2}}
    LossyPut = FALSE
    InvokeErrors = {c2}
    None = None
SPECIFICATION Spec
INVARIANTS
    TypeOK
    NothingVanishes
    NormalizedIsPublished
    BytesAreStored
CHECK_DEADLOCK FALSE
PROPERTIES
    EverythingSettles
