------------------------------- MODULE MCFair --------------------------------
(***************************************************************************)
(* Instance for TLC of the two locks of kern/spinlock.c and of the         *)
(* scheduler with its fairness: behaviours of Spinlock, of McsLock and of  *)
(* Proc, told apart by kind.  Three CPUs use the locks; two of them run    *)
(* the scheduler, the third stays in entry.S.                              *)
(***************************************************************************)
EXTENDS Spinlock, McsLock, Proc

CONSTANTS Schedulers, k1

\* The channels of the kernel share a bucket with initproc.
MCHash == [ch \in Chans \cup {NULL} |-> IF ch \in {NULL, initproc} \cup KChans THEN 0 ELSE HASHENTRIES - 1]

VARIABLE kind

allVars == <<kind, spinVars, mcsVars, procVars>>

\* The process table before main() makes the first process.
NoProcess ==
    /\ state = [p \in Slots |-> "UNUSED"] /\ ctx = [p \in Slots |-> "none"]
    /\ pid = [p \in Slots |-> 0] /\ prio = pid /\ nextpid = 1 /\ kmemheld = FALSE
    /\ parent = [p \in Slots |-> NULL] /\ chan = parent
    /\ prioque = [l \in Levels |-> <<>>] /\ hashmp = [b \in Buckets |-> <<>>]
    /\ ptablelock = NoCpu /\ cpc = [c \in CPUs |-> "idle"]
    /\ cproc = [c \in CPUs |-> NULL] /\ wch = cproc /\ child = cproc

MCInit == /\ Init /\ McsInit
          /\ \/ kind \in {"spin", "mcs"} /\ NoProcess
             \/ kind = "proc" /\ ProcInit

\* A step of one, with the others left alone.
OfSpin(A) == kind = "spin" /\ A /\ UNCHANGED <<kind, mcsVars, procVars>>
OfMcs(A)  == kind = "mcs" /\ A /\ UNCHANGED <<kind, spinVars, procVars>>
OfProc(A) == kind = "proc" /\ A /\ UNCHANGED <<kind, spinVars, mcsVars>>

MCNext ==
    \/ \E c \in CPUs :
          \/ OfSpin(CallAcquire(c)) \/ OfSpin(CallRelease(c)) \/ OfSpin(Step(c))
          \/ OfMcs(InitNode(c)) \/ OfMcs(McsStep(c))
    \/ \E c \in Schedulers : OfProc(KernelStep(c)) \/ OfProc(SystemCall(c)) \/ OfProc(Timer(c))

\* A CPU in the kernel, or in one of the locks, goes on whenever it can; which of
\* the CPUs spinning for a lock gets it is left open.  The timer of a core fires
\* again and again and is taken as soon as the core is in user mode.
MCSpec == /\ MCInit /\ [][MCNext]_allVars
          /\ \A c \in CPUs : /\ WF_allVars(OfSpin(Step(c))) /\ WF_allVars(OfSpin(CallRelease(c)))
                             /\ WF_allVars(OfMcs(McsStep(c)))
          /\ \A c \in Schedulers : WF_allVars(OfProc(KernelStep(c))) /\ SF_allVars(OfProc(Timer(c)))
=============================================================================
