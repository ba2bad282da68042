SPECIFICATION MCSpec
CONSTANTS
    c1 = c1
    u1 = u1
    Channels = {c1}
    Tokens = {t1, t2}
    Urls = {u1}
    Owner <- MCOwner
    Values = {7}
    Absent = Absent
    Writers = {w1, w2}
    MaxOps = 4
    MaxCrashes = 2
    Nil = Nil
    Instances = {i1, i2}
    Manual = {i1}
    TaskKinds = {"checkin", "announcements"}
    RetryLimit = 2
    BrowserLimit = 1
    MaxTasks = 3
    MaxFaults = 1
    None = None
    Gone = Gone
SYMMETRY Symmetry
CHECK_DEADLOCK FALSE
INVARIANT DriftExplained
INVARIANT RestartHeals
INVARIANT LeaseExclusive
INVARIANT DailyWorkBounded
INVARIANT TasksReturn
PROPERTY RefinesStore
