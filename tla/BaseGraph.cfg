SPECIFICATION Spec
CONSTANTS
    MaxNodes = 3
    MaxEdgeCount = 3
    Positions = {0}
INVARIANTS
    TypeOK
    LinkedNewestFirst
    ExplorerVisitsEachEdgeOnce
    NoEdgeLost
PROPERTIES
    ImplementsMultigraph
