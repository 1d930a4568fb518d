CONSTANTS
    TtlSeconds <- FullProfile
    MIN_WAIT_SECONDS = 2
    WAIT_SLACK_SECONDS = 1
    MAX_TICKS_PER_EXECUTION = 3
    MaxAttempts = 1
    Windows = {"before", "open", "past"}
    MaxUpdates = 1
    MaxFailures = 2
    Never = Never
SPECIFICATION Spec
INVARIANTS TypeOK ChainSurvives
PROPERTIES OnlySilenceExpires NotPublishedEarly NoIdleTick QuietEventsClose
CHECK_DEADLOCK FALSE
