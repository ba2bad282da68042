SPECIFICATION FairSpec
CONSTANTS
    Requests = {r1, r2, r3}
    c1 = c1
    Channels <- MCChannels
    MaxConcurrency <- MCMaxConcurrency
    RPMLimit <- MCRPMLimit
    Window = 3
    MaxSkew = 1
INVARIANT SlotAccounting
INVARIANT ConcurrencyBound
INVARIANT NoLostWakeup
INVARIANT HardRPMCap
PROPERTY EventuallySettled
