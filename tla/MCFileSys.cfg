CONSTANTS
    Procs = {p1, p2}
    initproc = p1
    None = None
    NINODES = 4
    NINODE = 3
    NFILE = 2
    NOFILE = 2
    MAXFILE = 4
    LIM = 2
    Lengths = {1, 3}
    Names <- MCNames
    Calls <- MCCalls
    MaxCalls = 4
SPECIFICATION Spec
INVARIANTS
    RefExact
    CacheCoherent
    TreeSound
    IputNeverFrees
    HolderRuns
CHECK_DEADLOCK FALSE
