CONSTANTS
    CPUs = {c1, c2}
    NoCpu = NoCpu
    k1 = k1
    NPROC = 5
    NLOOP = 1
    PRIOENTRIES = 2
    HASHENTRIES = 2
    KChans = {k1}
    Hash <- MCHash
    MaxFailPid = 5
    MaxPid = 5
SPECIFICATION ProcSpec
SYMMETRY Symmetry
INVARIANTS
    IInv
    QueuesExact
    KernelStackExclusive
    NoLostWait
    ParentAlive
PROPERTY ZombieUntilReaped
CHECK_DEADLOCK FALSE
