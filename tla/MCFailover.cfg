SPECIFICATION Spec
CONSTANTS
    N = 2
    Keys = {k1, k2}
    MaxRetries = 1
    Configs <- MCConfigs
    Known = {"unknown", "unsupported"}
    MaxOthers = 1
    Nil = Nil
CHECK_DEADLOCK FALSE
INVARIANT NeverTriedTwice
INVARIANT OutcomeRecorded
PROPERTY Answered
