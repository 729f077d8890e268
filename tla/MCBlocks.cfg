CONSTANTS
    Procs = {p1, p2}
    None = None
    NFILES = 3
    MkfsSize <- MCMkfsSize
    Base <- MCBase
    NDIRECT = 1
    NINDIRECT = 2
    nmeta = 2
    BPB = 12
    Writable <- MCSpared
    MaxWrites = 4
SPECIFICATION Spec
INVARIANTS NoSharedBlock FileContents
CHECK_DEADLOCK FALSE
