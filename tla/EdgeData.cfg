\* Edge data on two edges, with restarts.
CONSTANTS
    ByteBase = 4
    SegmentSize = 32
    HeaderOffset = 20
    IntBits = 8
    ByteBits = 2
    Infinite = 777
    NoMaximum <- MCNoMaximum
    None = None
    Edges <- MCEdges
    Variants <- MCVariants
    Inputs <- MCInputs
    Towers <- MCTowers
    Geometries <- MCGeometries
    KeyValues <- MCKeyValues
    MaxWrites = 3
    LongestString = 3
SPECIFICATION Spec
INVARIANTS ValuesKept MaximumBoundsStored GeometryKept KeyValuesKept
CHECK_DEADLOCK FALSE
