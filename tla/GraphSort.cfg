SPECIFICATION Spec
CONSTANTS
    MaxNodes = 3
    MaxEdgeCount = 3
    Positions = {0, 1}
    MaxRecords = 4
    Costs = {0, 1}
    MaxTurnCosts = 2
INVARIANTS
    EdgeOrderIsPermutation
    SortedAfterSort
    TurnCostsKept
    EveryEntryListedOnce
