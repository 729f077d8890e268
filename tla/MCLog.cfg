CONSTANTS
    Procs = {p1, p2, p3}
    n1 = n1
    n2 = n2
    Blocks = {n1, n2}
    LOGSIZE = 2
    MAXOPBLOCKS = 1
    Heads <- MCHeads
    MaxWrites = 2
    MaxCrashes = 2
SPECIFICATION Spec
INVARIANTS CommitsAlone RecoveryComplete
CHECK_DEADLOCK FALSE
