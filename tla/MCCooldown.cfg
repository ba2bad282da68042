SPECIFICATION Spec
CONSTANTS
    Requests = {r1, r2}
    Keys = {k1,k2}
    DisabledKeys = {}
    Models = {m1}
    DisabledModels = {}
    Channel = ch
    InitialDur = {1}
    ResetDurs = {2}
    MinDur = 1
    MaxDur = 2
    StoreErrors = TRUE
    NoOne = NoOne
SYMMETRY Symmetry
INVARIANT NoLostFailure
INVARIANT ExhaustionSeen
