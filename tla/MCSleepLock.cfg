CONSTANTS
    CPUs = {c1, c2}
    NoCpu = NoCpu
    sl = sl
    io = io
    NPROC = 4
    NLOOP = 0
    PRIOENTRIES = 1
    HASHENTRIES = 2
    KChans = {sl, io}
    SlChan = sl
    Hash <- MCHash
    MaxFailPid = 0
    MaxPid = 4
SPECIFICATION SlSpec
SYMMETRY Symmetry
INVARIANTS HolderKnown NoLostWakeup
PROPERTY SlImplementsMutex
