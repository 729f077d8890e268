CONSTANTS
    NPROC = 2
    NBoot = 1
    NPAGE = 13
    MaxV = 4
    PerTable = 2
    Programs <- MCPrograms
SPECIFICATION Spec
INVARIANTS PageOwnedOnce RunsOnOwnTable ArgumentMapped
PROPERTY TablesReturned
CHECK_DEADLOCK FALSE
