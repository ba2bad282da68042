SPECIFICATION Spec
CONSTANTS
    Web = {w}
    Http = {h}
    Targets = {a}
    MaxObj = 2
    Capacity = 1
    Budget = 1
    MaxTurns = 3
    MaxFaults = 2
    MaxAttempts = 2
INVARIANT OneSession
INVARIANT ContextIntact
INVARIANT KeptSocketIsQuiet
INVARIANT TurnNeverStuck
CHECK_DEADLOCK FALSE
