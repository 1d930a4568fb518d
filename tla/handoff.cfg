CONSTANTS
    TtlSeconds <- FullProfile
    MIN_WAIT_SECONDS = 2
    WAIT_SLACK_SECONDS = 1
    MAX_TICKS_PER_EXECUTION = 3
    MaxAttempts = 1
    Windows = {"before", "open", "past"}
    MaxUpdates = 2
    MaxFailures = 0
    Never = Never
SPECIFICATION Spec
INVARIANT ChainContinues
CHECK_DEADLOCK FALSE
