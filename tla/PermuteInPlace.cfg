SPECIFICATION Spec
CONSTANTS
    MCSize = 4
    Size = 4
    Records <- Links
    Store <- Relink
CHECK_DEADLOCK FALSE
INVARIANTS
    NothingOverwritten
    PermutedWhenDone
PROPERTIES
    Terminates
