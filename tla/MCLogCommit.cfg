CONSTANTS
    Procs = {p1, p2, p3}
    n1 = n1
    n2 = n2
    Blocks = {n1, n2}
    LOGSIZE = 2
    MAXOPBLOCKS = 1
    Heads <- NoLog
    MaxWrites = 2
    MaxCrashes = 0
SPECIFICATION Spec
INVARIANT CommittedOnDisk
CHECK_DEADLOCK FALSE
