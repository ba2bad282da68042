SPECIFICATION FairSpec
CONSTANTS
    Requests = {r1, r2}
    Callers = {s1, s2}
    Limits = {0, 1}
    MaxConcurrency = 1
    StatsCap = 1
    StoreErrors = TRUE
    MaxEdits = 1
    Nil = Nil
CHECK_DEADLOCK FALSE
INVARIANT UsageBookedOnce
PROPERTY ReloadKeepsCharges
PROPERTY ShutdownEnds
