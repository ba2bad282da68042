SPECIFICATION SelectionSpec
CONSTANTS
    Channels <- MCChannels
    Priority <- MCPriority
    KeyCount <- MCKeyCount
    Snapshots <- MCSnapshots
    Penalties <- MCPenalties
    Strategies = {"sticky"}
    MaxSkips = 4
    Nil = 0
INVARIANT NoStarvation
INVARIANT RescueIsEarliest
