CONSTANTS
    CPUs = {c1, c2, c3}
    NoCpu = NoCpu
    Schedulers = {c1, c2}
    k1 = k1
    NPROC = 5
    NLOOP = 1
    PRIOENTRIES = 2
    HASHENTRIES = 2
    KChans = {k1}
    Hash <- MCHash
    MaxFailPid = 0
    MaxPid = 4
SPECIFICATION MCSpec
INVARIANTS Inv FrontOwns
PROPERTIES ImplementsMutex SomeoneAcquires EnqueuedAcquires RunnableRuns WaitReturns
