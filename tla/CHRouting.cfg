SPECIFICATION Spec
CONSTANTS
    Inf = Inf
    AnyEdge = AnyEdge
    NoEntry = NoEntry
    NoShortcut = NoShortcut
    MaxStoredWeight = 100
    Graphs <- AllGraphs
    Requests <- AllRequests
CHECK_DEADLOCK FALSE
INVARIANTS
    ListsAgree
    DistancesPreserved
    ShortcutsCanBeStored
    ShortcutsUnpack
    ShortestPathFound
