SPECIFICATION Spec
CONSTANTS
    Inf = Inf
    AnyEdge = AnyEdge
    NoEntry = NoEntry
    Queries <- AllQueries
CHECK_DEADLOCK FALSE
INVARIANTS
    ShortestPathFound
    BestWeightIsOfBestPath
PROPERTIES
    VisitedEntriesAreFinal
    SearchEnds
