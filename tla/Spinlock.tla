------------------------------ MODULE Spinlock ------------------------------
(***************************************************************************)
(* acquire(), release() and holding() of kern/spinlock.c, one step per     *)
(* access to the two fields of struct spinlock.  Every CPU takes and gives *)
(* back one lock, again and again.                                         *)
(*                                                                         *)
(* The lock is two words that change at different times: locked is set     *)
(* before cpu names the owner, and cpu is cleared before locked.  holding()*)
(* reads them one after the other, so it sees them half changed.           *)
(***************************************************************************)
EXTENDS Cpus, Integers

VARIABLES lk_locked, \* lk->locked
          cpu,       \* lk->cpu, NoCpu for NULL
          pc         \* where each CPU is

spinVars == <<lk_locked, cpu, pc>>

\* In acquire(): the two reads of holding(), the plain read of the spin loop,
\* the test-and-set, the store to lk->cpu.
InAcquire == {"a_locked", "a_cpu", "a_spin", "a_tas", "a_own"}

\* In release(): the two reads of holding(), the store to lk->cpu, the clear.
InRelease == {"r_locked", "r_cpu", "r_clear", "r_unlock"}

\* Control points of a CPU that has the lock.
Owning == {"a_own", "held"} \cup InRelease

GotoPc(c, l) == pc' = [pc EXCEPT ![c] = l]

\* initlock().
Init == lk_locked = 0 /\ cpu = NoCpu /\ pc = [c \in CPUs |-> "out"]

\* acquire() is called by a CPU that does not have the lock.
CallAcquire(c) ==
    /\ pc[c] = "out"
    /\ GotoPc(c, "a_locked")
    /\ UNCHANGED <<lk_locked, cpu>>

\* holding(): lk->locked is 0, so acquire() goes on; or it reads lk->cpu next.
AcquireReadsLocked(c) ==
    /\ pc[c] = "a_locked"
    /\ GotoPc(c, IF lk_locked = 0 THEN "a_spin" ELSE "a_cpu")
    /\ UNCHANGED <<lk_locked, cpu>>

\* holding(): lk->cpu == thiscpu is "acquire: spinlock already held".
AcquireReadsCpu(c) ==
    /\ pc[c] = "a_cpu"
    /\ GotoPc(c, IF cpu = c THEN "panic" ELSE "a_spin")
    /\ UNCHANGED <<lk_locked, cpu>>

\* while (lk->locked || ...): go round again, or try the test-and-set.
Spin(c) ==
    /\ pc[c] = "a_spin"
    /\ lk_locked = 0
    /\ GotoPc(c, "a_tas")
    /\ UNCHANGED <<lk_locked, cpu>>

\* Bug: the test and the set are two accesses, the test being that of Spin.
Bug_SetWithoutTest(c) ==
    /\ pc[c] = "a_tas"
    /\ lk_locked' = 1
    /\ GotoPc(c, "a_own")
    /\ UNCHANGED cpu

\* __atomic_test_and_set(&lk->locked).
TestAndSet(c) ==
    /\ pc[c] = "a_tas"
    /\ lk_locked' = 1
    /\ GotoPc(c, IF lk_locked = 0 THEN "a_own" ELSE "a_spin")
    /\ UNCHANGED cpu

\* lk->cpu = thiscpu; acquire() returns.
SetOwner(c) ==
    /\ pc[c] = "a_own"
    /\ cpu' = c
    /\ GotoPc(c, "held")
    /\ UNCHANGED lk_locked

\* release() is called by the CPU that has the lock.
CallRelease(c) ==
    /\ pc[c] = "held"
    /\ GotoPc(c, "r_locked")
    /\ UNCHANGED <<lk_locked, cpu>>

\* holding(): lk->locked is 0 is "release: not locked".
ReleaseReadsLocked(c) ==
    /\ pc[c] = "r_locked"
    /\ GotoPc(c, IF lk_locked = 0 THEN "panic" ELSE "r_cpu")
    /\ UNCHANGED <<lk_locked, cpu>>

\* holding(): lk->cpu # thiscpu is "release: not locked".
ReleaseReadsCpu(c) ==
    /\ pc[c] = "r_cpu"
    /\ GotoPc(c, IF cpu = c THEN "r_clear" ELSE "panic")
    /\ UNCHANGED <<lk_locked, cpu>>

\* Bug: lk->cpu is cleared after the lock has been given back.
Bug_UnlockThenClear(c) ==
    /\ pc[c] = "r_clear"
    /\ lk_locked' = 0
    /\ GotoPc(c, "r_unlock")
    /\ UNCHANGED cpu

\* lk->cpu = NULL.
ClearOwner(c) ==
    /\ pc[c] = "r_clear"
    /\ cpu' = NoCpu
    /\ GotoPc(c, "r_unlock")
    /\ UNCHANGED lk_locked

\* Bug: release() gives up without clearing the lock.
Bug_NeverUnlocked(c) ==
    /\ pc[c] = "r_unlock"
    /\ GotoPc(c, "out")
    /\ UNCHANGED <<lk_locked, cpu>>

\* __atomic_clear(&lk->locked); release() returns.
Unlock(c) ==
    /\ pc[c] = "r_unlock"
    /\ lk_locked' = 0
    /\ GotoPc(c, "out")
    /\ UNCHANGED cpu

\* What a CPU does once it has called acquire() or release().
Step(c) ==
    \/ AcquireReadsLocked(c) \/ AcquireReadsCpu(c) \/ Spin(c) \/ TestAndSet(c)
    \/ SetOwner(c)
    \/ ReleaseReadsLocked(c) \/ ReleaseReadsCpu(c) \/ ClearOwner(c) \/ Unlock(c)

Next == \E c \in CPUs : CallAcquire(c) \/ CallRelease(c) \/ Step(c)

Spec == Init /\ [][Next]_spinVars

\* Critical sections end and a CPU in acquire() or release() goes on.
FairSpec == Spec /\ \A c \in CPUs : WF_spinVars(Step(c)) /\ WF_spinVars(CallRelease(c))

-----------------------------------------------------------------------------
\* lk->locked is a flag, lk->cpu a CPU or NULL.
SpinTypeOK ==
    /\ lk_locked \in {0, 1}
    /\ cpu \in CPUs \cup {NoCpu}
    /\ pc \in [CPUs -> {"out", "held", "panic"} \cup InAcquire \cup InRelease]

\* Two CPUs are never between a successful test-and-set and their clear.
MutualExclusion == \A c, d \in CPUs : pc[c] \in Owning /\ pc[d] \in Owning => c = d

\* holding() never misjudges, although it reads two words that another CPU is
\* changing in between: neither panic of acquire() and release() is reached.
HoldingExact == \A c \in CPUs : pc[c] # "panic"

\* lk->locked says whether some CPU owns the lock; lk->cpu, which CPU it is
\* from the end of acquire() to the middle of release(), and nobody otherwise.
FieldsMatch ==
    /\ lk_locked = 1 <=> \E c \in CPUs : pc[c] \in Owning
    /\ \A c \in CPUs : cpu = c <=> pc[c] \in Owning \ {"a_own", "r_unlock"}

\* The inductive invariant: what the two words of the lock say of where the CPUs
\* are in acquire() and release(), with exclusion and no false panic.
Inv == SpinTypeOK /\ MutualExclusion /\ HoldingExact /\ FieldsMatch

\* The lock is an abstract mutex held from the test-and-set to the clear.
Holder == IF \E c \in CPUs : pc[c] \in Owning
            THEN CHOOSE c \in CPUs : pc[c] \in Owning ELSE NoCpu

Abstract == INSTANCE Mutex WITH Agents <- CPUs, Nobody <- NoCpu, holder <- Holder

\* acquire() and release() implement the abstract mutex.
ImplementsMutex == Abstract!Spec

\* When CPUs spin for the lock, one of them gets it: no deadlock, though any
\* one of them may starve.
SomeoneAcquires ==
    (\E c \in CPUs : pc[c] \in InAcquire) ~> (\E c \in CPUs : pc[c] = "held")
=============================================================================
