CONSTANTS
    feed = feed
    orphan = orphan
    c1 = c1
    c2 = c2
    Polls = {feed, orphan}
    Candidates = {c1, c2}
    Yields <- SmallYields
    Unregistered = {orphan}
    BatchSize = 1
    Retries = 1
    MaxRepeats = 1
    FaultySets = {{}}
    LossyPut = TRUE
    InvokeErrors = {}
    None = None
SPECIFICATION Spec
INVARIANT PassMeansEvents
CHECK_DEADLOCK FALSE
