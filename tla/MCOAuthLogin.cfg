SPECIFICATION OAuthSpec
CONSTANTS
    Readers = {r1, r2}
    Writers = {w1}
    Caches = {"channels", "cooldowns", "apiKeys", "oauth", "login"}
    TTL = 1
    MaxLoad = 1
    MaxWrites = 2
    LoadErrors = TRUE
    MaxLogins = 3
    MaxTurns = 1
SYMMETRY Symmetry
INVARIANTS
    StalenessBounded
    LoginKept
    RefreshTokenOnce
    LoginsClean
PROPERTY ChannelListMonotone
CHECK_DEADLOCK FALSE
