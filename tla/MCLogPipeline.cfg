SPECIFICATION FairSpec
CONSTANTS
    Logs = {l1, l2}
    Workers = {w1, w2}
    BufferSize = 1
    BatchSize = 2
    MaxRetries = 2
    SyncCap = 1
    MaxErrors = 1
    MaxRestarts = 1
CHECK_DEADLOCK FALSE
INVARIANT LogsAccounted
PROPERTY EarlyLogsSettle
