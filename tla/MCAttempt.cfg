SPECIFICATION AttemptSpec
CONSTANTS
    MaxFeatures = 2
    MaxReads = 4
    RetryStrategies = {s1, s2}
INVARIANTS
    OutcomeEarned
    NoRetryAfterBytes
    PunishmentLands
PROPERTY
    CancelEnds
CHECK_DEADLOCK FALSE
