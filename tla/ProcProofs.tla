----------------------------- MODULE ProcProofs -----------------------------
(***************************************************************************)
(* Proofs about processes and the locks they and the CPUs use: the process *)
(* table (kern/proc.c), the sleeplock on top of it (kern/sleeplock.c), and *)
(* the spinlock and the MCS lock (kern/spinlock.c), in this order.  Each   *)
(* part begins with what its inductive invariant says.                     *)
(***************************************************************************)
EXTENDS SleepLock, Spinlock, McsLock, TLAPS

-----------------------------------------------------------------------------
(***************************************************************************)
(* Proofs about the process table.                                         *)
(*                                                                         *)
(* First part: IInv of Proc is an inductive invariant.  The order is: what *)
(* the list operations do to a queue (PushBack, PopFront, Delete), what    *)
(* the steps do to the queues as a whole (RunPush, SleepPush, RunKept,     *)
(* SleepKept), the initial state, one lemma for every action with one step *)
(* for every conjunct of IInv, and the theorems.                           *)
(*                                                                         *)
(* Second part: FInv, on top of IInv, for exit() and wait().  The lemmas   *)
(* are by kind of step: those that leave the family alone (FamilyKept and  *)
(* its uses), and one for each step that changes it.                       *)
(*                                                                         *)
(* Nothing is assumed of the constants beyond CpuAssumption,               *)
(* SizeAssumption and ChanAssumption of Proc; MaxPid bounds nextpid there  *)
(* and the proofs hold for any value of it.                                *)
(***************************************************************************)

\* list_push_back().
LEMMA PushBack ==
    ASSUME NEW S, NEW q \in Seq(S), NEW x \in S
    PROVE  /\ list_push_back(q, x) \in Seq(S)
           /\ NoDup(q) /\ ~ IsIn(x, q) => NoDup(list_push_back(q, x))
           /\ \A p \in S : IsIn(p, list_push_back(q, x)) <=> IsIn(p, q) \/ p = x
<1> DEFINE r == Append(q, x)
<1>1. r \in Seq(S) /\ Len(r) = Len(q) + 1 /\ Len(q) \in Nat
  OBVIOUS
<1>2. \A j \in 1..Len(r) : r[j] = IF j = Len(q) + 1 THEN x ELSE q[j]
  OBVIOUS
<1> HIDE DEF r
<1>3. NoDup(q) /\ ~ IsIn(x, q) => NoDup(r)
  BY <1>1, <1>2 DEF NoDup, IsIn
<1>4. ASSUME NEW p \in S PROVE IsIn(p, r) <=> IsIn(p, q) \/ p = x
  BY <1>1, <1>2 DEF IsIn
<1> QED
  BY <1>1, <1>3, <1>4 DEF list_push_back, r

\* The front of a queue is taken off.
LEMMA PopFront ==
    ASSUME NEW S, NEW q \in Seq(S), q # <<>>
    PROVE  /\ Head(q) \in S /\ IsIn(Head(q), q)
           /\ Tail(q) \in Seq(S)
           /\ NoDup(q) => /\ NoDup(Tail(q))
                          /\ \A p \in S : IsIn(p, Tail(q)) <=> IsIn(p, q) /\ p # Head(q)
<1> DEFINE r == Tail(q)
<1>1. r \in Seq(S) /\ Len(r) = Len(q) - 1 /\ Len(q) \in Nat \ {0} /\ Head(q) = q[1]
  OBVIOUS
<1>2. \A j \in 1..Len(r) : r[j] = q[j + 1]
  OBVIOUS
<1>3. Head(q) \in S
  BY <1>1
<1> HIDE DEF r
<1>4. NoDup(q) => NoDup(r)
  BY <1>1, <1>2 DEF NoDup
<1>5. ASSUME NEW p \in S, NoDup(q) PROVE IsIn(p, r) <=> IsIn(p, q) /\ p # Head(q)
  <2>1. IsIn(p, r) => IsIn(p, q) /\ p # Head(q)
    BY <1>1, <1>2, <1>5 DEF NoDup, IsIn
  <2>2. ASSUME IsIn(p, q), p # Head(q) PROVE IsIn(p, r)
    <3> PICK j \in 1..Len(q) : q[j] = p
      BY <2>2 DEF IsIn
    <3>1. j # 1 /\ j - 1 \in 1..Len(r) /\ r[j - 1] = p
      BY <1>1, <1>2, <2>2
    <3> QED
      BY <3>1 DEF IsIn
  <2> QED
    BY <2>1, <2>2
<1> QED
  BY <1>1, <1>3, <1>4, <1>5 DEF IsIn, r

\* list_delete() of the i-th element.
LEMMA Delete ==
    ASSUME NEW S, NEW q \in Seq(S), NEW i \in 1..Len(q)
    PROVE  /\ list_delete(q, i) \in Seq(S)
           /\ NoDup(q) => /\ NoDup(list_delete(q, i))
                          /\ \A p \in S : IsIn(p, list_delete(q, i)) <=> IsIn(p, q) /\ p # q[i]
<1> DEFINE r == list_delete(q, i)
<1>1. Len(q) \in Nat /\ \A j \in 1..Len(q) : q[j] \in S
  OBVIOUS
<1>2. r \in [1..(Len(q) - 1) -> S]
  BY <1>1 DEF list_delete
<1>3. r \in Seq(S) /\ Len(r) = Len(q) - 1
  BY <1>1, <1>2
<1>4. \A j \in 1..Len(r) : r[j] = IF j < i THEN q[j] ELSE q[j + 1]
  BY <1>3 DEF list_delete
<1> HIDE DEF r
<1>5. NoDup(q) => NoDup(r)
  BY <1>1, <1>3, <1>4 DEF NoDup
<1>6. ASSUME NEW p \in S, NoDup(q) PROVE IsIn(p, r) <=> IsIn(p, q) /\ p # q[i]
  <2>1. IsIn(p, r) => IsIn(p, q) /\ p # q[i]
    BY <1>1, <1>3, <1>4, <1>6 DEF NoDup, IsIn
  <2>2. ASSUME IsIn(p, q), p # q[i] PROVE IsIn(p, r)
    <3> PICK j \in 1..Len(q) : q[j] = p
      BY <2>2 DEF IsIn
    <3>1. CASE j < i
      BY <1>1, <1>3, <1>4, <3>1 DEF IsIn
    <3>2. CASE j > i
      <4>1. j - 1 \in 1..Len(r) /\ r[j - 1] = p
        BY <1>1, <1>3, <1>4, <3>2
      <4> QED
        BY <4>1 DEF IsIn
    <3> QED
      BY <2>2, <3>1, <3>2
  <2> QED
    BY <2>1, <2>2
<1> QED
  BY <1>3, <1>5, <1>6 DEF r
-----------------------------------------------------------------------------
(* Queues: the two ways in which a step concerns the run queues or the     *)
(* sleep queues, by adding or removing a process, and not at all.          *)

\* state = RUNNABLE; list_push_back(&prioque[l], p).
LEMMA RunPush ==
    ASSUME prioque \in [Levels -> Seq(Slots)], state \in [Slots -> ProcStates], RunQueueExact,
           NEW p \in Slots, NEW l \in Levels, state[p] # "RUNNABLE",
           MakeRunnable(p, l), prio'[p] = l,
           \A q \in Slots : q # p => prio'[q] = prio[q]
    PROVE  prioque' \in [Levels -> Seq(Slots)] /\ RunQueueExact'
<1>1. ~ IsIn(p, prioque[l])
  BY DEF RunQueueExact
<1>2. /\ prioque'[l] = list_push_back(prioque[l], p)
      /\ \A m \in Levels : m # l => prioque'[m] = prioque[m]
      /\ \A q \in Slots : state'[q] = IF q = p THEN "RUNNABLE" ELSE state[q]
  BY DEF MakeRunnable
<1>3. /\ prioque'[l] \in Seq(Slots) /\ NoDup(prioque'[l])
      /\ \A q \in Slots : IsIn(q, prioque'[l]) <=> IsIn(q, prioque[l]) \/ q = p
  BY <1>1, <1>2, PushBack DEF RunQueueExact
<1>4. prioque' \in [Levels -> Seq(Slots)]
  BY <1>2, <1>3 DEF MakeRunnable
<1>5. ASSUME NEW m \in Levels
      PROVE  /\ NoDup(prioque'[m])
             /\ \A q \in Slots : IsIn(q, prioque'[m]) <=>
                                     state'[q] = "RUNNABLE" /\ prio'[q] = m
  <2>1. CASE m = l
    <3>1. ASSUME NEW q \in Slots
          PROVE  IsIn(q, prioque'[l]) <=> state'[q] = "RUNNABLE" /\ prio'[q] = l
      <4>1. IsIn(q, prioque[l]) <=> state[q] = "RUNNABLE" /\ prio[q] = l
        BY DEF RunQueueExact
      <4>2. IsIn(q, prioque'[l]) <=> IsIn(q, prioque[l]) \/ q = p
        BY <1>3
      <4> QED
        BY <1>2, <4>1, <4>2
    <3> QED
      BY <1>3, <2>1, <3>1
  <2>2. CASE m # l
    BY <1>2, <2>2 DEF RunQueueExact, NoDup, IsIn
  <2> QED
    BY <2>1, <2>2
<1> QED
  BY <1>4, <1>5 DEF RunQueueExact

\* A step that touches neither a run queue nor what it stands for.
LEMMA RunKept ==
    ASSUME RunQueueExact, prioque' = prioque,
           \A q \in Slots : /\ state[q] = "RUNNABLE" <=> state'[q] = "RUNNABLE"
                            /\ state[q] = "RUNNABLE" => prio'[q] = prio[q]
    PROVE  RunQueueExact'
  BY DEF RunQueueExact, NoDup, IsIn

\* A step that touches neither a sleep queue nor what it stands for.
LEMMA SleepKept ==
    ASSUME SleepQueueExact, hashmp' = hashmp,
           \A q \in Slots : /\ state[q] = "SLEEPING" <=> state'[q] = "SLEEPING"
                            /\ state[q] = "SLEEPING" => chan'[q] = chan[q]
    PROVE  SleepQueueExact'
  BY DEF SleepQueueExact, NoDup, IsIn

\* The body of sleep(): SLEEPING, chan, list_push_back(&hashmp[entry], p).
LEMMA SleepPush ==
    ASSUME hashmp \in [Buckets -> Seq(Slots)], state \in [Slots -> ProcStates],
           chan \in [Slots -> Chans \cup {NULL}], SleepQueueExact,
           NEW c \in CPUs, NEW ch \in Chans \cup {NULL}, NEW at,
           cproc[c] \in Slots, state[cproc[c]] # "SLEEPING", GoToSleep(c, ch, at)
    PROVE  hashmp' \in [Buckets -> Seq(Slots)] /\ SleepQueueExact'
<1> DEFINE p == cproc[c]
           b == Hash[ch]
<1>0. b \in Buckets
  BY ChanAssumption
<1>1. ~ IsIn(p, hashmp[b])
  BY <1>0 DEF SleepQueueExact
<1>2. /\ hashmp'[b] = list_push_back(hashmp[b], p)
      /\ \A m \in Buckets : m # b => hashmp'[m] = hashmp[m]
      /\ \A q \in Slots : /\ state'[q] = IF q = p THEN "SLEEPING" ELSE state[q]
                          /\ chan'[q] = IF q = p THEN ch ELSE chan[q]
  BY <1>0 DEF GoToSleep
<1>3. /\ hashmp'[b] \in Seq(Slots) /\ NoDup(hashmp'[b])
      /\ \A q \in Slots : IsIn(q, hashmp'[b]) <=> IsIn(q, hashmp[b]) \/ q = p
  BY <1>0, <1>1, <1>2, PushBack, SMTT(30) DEF SleepQueueExact
<1>4. hashmp' \in [Buckets -> Seq(Slots)]
  BY <1>2, <1>3 DEF GoToSleep
<1>5. ASSUME NEW m \in Buckets
      PROVE  /\ NoDup(hashmp'[m])
             /\ \A q \in Slots : IsIn(q, hashmp'[m]) <=>
                                     state'[q] = "SLEEPING" /\ Hash[chan'[q]] = m
  <2>1. CASE m = b
    <3>1. ASSUME NEW q \in Slots
          PROVE  IsIn(q, hashmp'[b]) <=> state'[q] = "SLEEPING" /\ Hash[chan'[q]] = b
      <4>1. IsIn(q, hashmp[b]) <=> state[q] = "SLEEPING" /\ Hash[chan[q]] = b
        BY <1>0 DEF SleepQueueExact
      <4>2. IsIn(q, hashmp'[b]) <=> IsIn(q, hashmp[b]) \/ q = p
        BY <1>3
      <4> QED
        BY <1>2, <4>1, <4>2
    <3> QED
      BY <1>3, <2>1, <3>1
  <2>2. CASE m # b
    <3>1. hashmp'[m] = hashmp[m]
      BY <1>2, <2>2
    <3>2. ASSUME NEW q \in Slots
          PROVE  IsIn(q, hashmp[m]) <=> state'[q] = "SLEEPING" /\ Hash[chan'[q]] = m
      <4>1. IsIn(q, hashmp[m]) <=> state[q] = "SLEEPING" /\ Hash[chan[q]] = m
        BY DEF SleepQueueExact
      <4> QED
        BY <1>2, <2>2, <4>1
    <3>3. NoDup(hashmp[m])
      BY DEF SleepQueueExact
    <3> QED
      BY <3>1, <3>2, <3>3
  <2> QED
    BY <2>1, <2>2
<1> QED
  BY <1>4, <1>5 DEF SleepQueueExact

-----------------------------------------------------------------------------
(* The invariant, action by action.                                        *)

\* The initial state, after main() has created the first processes.
LEMMA InitIInv == ProcInit => IInv
<1> SUFFICES ASSUME ProcInit PROVE IInv
  OBVIOUS
<1> USE CpuAssumption, SizeAssumption, ChanAssumption
<1>1. Booted \subseteq Slots /\ PRIOENTRIES - 1 \in Levels /\ 0 \in Levels
  BY DEF Booted, Slots, Levels
<1>2. [i \in Booted |-> i] \in Seq(Slots) /\ Len([i \in Booted |-> i]) = NLOOP + 1
  <2>1. [i \in Booted |-> i] \in [1..(NLOOP + 1) -> Slots]
    BY <1>1 DEF Booted
  <2> QED
    BY <2>1
<1>3. prioque \in [Levels -> Seq(Slots)] /\ hashmp \in [Buckets -> Seq(Slots)]
  BY <1>2 DEF ProcInit
<1>4. TypeOK
  <2>1. /\ state \in [Slots -> ProcStates] /\ pid \in [Slots -> Nat] /\ prio \in [Slots -> Levels]
        /\ ctx \in [Slots -> Contexts] /\ nextpid \in Nat
    BY <1>1 DEF ProcInit, ProcStates, Contexts, Booted, Slots
  <2>2. /\ parent \in [Slots -> Slots \cup {NULL}] /\ chan \in [Slots -> Chans \cup {NULL}]
        /\ ptablelock \in CPUs \cup {NoCpu} /\ cproc \in [CPUs -> Slots \cup {NULL}]
        /\ cpc \in [CPUs -> Locked \cup Unlocked] /\ wch \in [CPUs -> Chans \cup {NULL}]
        /\ child \in [CPUs -> Slots \cup {NULL}]
    BY DEF ProcInit, Unlocked
  <2>3. kmemheld \in BOOLEAN
    BY DEF ProcInit
  <2> QED
    BY <1>3, <2>1, <2>2, <2>3 DEF TypeOK
<1>5. LockDiscipline /\ CpuProcess /\ ContextSaved /\ ForkChild
  BY DEF ProcInit, LockDiscipline, CpuProcess, ContextSaved, ForkChild, Locked, RunningAt
<1>6. RunQueueExact
  <2> SUFFICES ASSUME NEW l \in Levels
               PROVE  /\ NoDup(prioque[l])
                      /\ \A p \in Slots : IsIn(p, prioque[l]) <=>
                                              state[p] = "RUNNABLE" /\ prio[p] = l
    BY DEF RunQueueExact
  <2>1. CASE l = PRIOENTRIES - 1
    <3>1. prioque[l] = [i \in Booted |-> i] /\ Len(prioque[l]) = NLOOP + 1
      BY <2>1, <1>2 DEF ProcInit
    <3> QED
      BY <2>1, <3>1, <1>1 DEF ProcInit, NoDup, IsIn, Booted
  <2>2. CASE l # PRIOENTRIES - 1
    BY <2>2, <1>1 DEF ProcInit, NoDup, IsIn
  <2> QED
    BY <2>1, <2>2
<1>7. SleepQueueExact
  BY DEF ProcInit, SleepQueueExact, NoDup, IsIn
<1> QED
  BY <1>4, <1>5, <1>6, <1>7 DEF IInv

\* A process on a CPU outside ptablelock is RUNNING.
LEMMA OffLockRuns ==
    ASSUME TypeOK, CpuProcess, NEW d \in CPUs, cpc[d] \notin Locked, cproc[d] # NULL
    PROVE  state[cproc[d]] = "RUNNING"
<1>1. cpc[d] \in Unlocked /\ cpc[d] # "idle"
  BY DEF TypeOK, CpuProcess
<1> QED
  BY <1>1 DEF CpuProcess, Unlocked, RunningAt

\* The process of a CPU that is out of scheduler()'s own loop, and its state
\* where the control point says it is RUNNING.
LEMMA OnCpu ==
    ASSUME TypeOK, CpuProcess, NEW c \in CPUs, cpc[c] \notin {"idle", "pick"}
    PROVE  /\ cproc[c] \in Slots /\ prio[cproc[c]] \in Levels /\ cproc[c] \in Chans
           /\ cpc[c] \in RunningAt => state[cproc[c]] = "RUNNING"
<1>1. cproc[c] \in Slots
  BY DEF TypeOK, CpuProcess
<1> QED
  BY <1>1 DEF TypeOK, CpuProcess, Chans

\* A step that changes no state and no context, of which no CPU on its way
\* into swtch() takes part.
LEMMA ContextKept ==
    ASSUME ContextSaved, state' = state, ctx' = ctx,
           \A d \in CPUs : cpc[d] \in {"yield_sw", "sleep_sw", "wait_sw"} =>
                             cpc'[d] = cpc[d] /\ cproc'[d] = cproc[d]
    PROVE  ContextSaved'
  BY DEF ContextSaved

\* What every proof below may use: the assumptions and the names of the
\* control points.
USE CpuAssumption, SizeAssumption, ChanAssumption
    DEF IInv, Goto, tableVars, queueVars, acquire, release, InUser, CallsFrom,
        Locked, Unlocked, RunningAt

\* scheduler() takes ptablelock.
LEMMA SchedAcquireInv ==
    ASSUME IInv, NEW c \in CPUs, SchedAcquire(c)
    PROVE  IInv'
<1> USE DEF SchedAcquire
<1>1. TypeOK'
  BY DEF TypeOK, ProcStates, Contexts, NULL, Chans, Slots, Levels, CpuProcess, ForkChild
<1>2. LockDiscipline'
  BY DEF TypeOK, LockDiscipline
<1>3. CpuProcess'
  <2>1. /\ \A d \in CPUs : d # c => cproc'[d] = cproc[d] /\ cpc'[d] = cpc[d]
        /\ cproc'[c] = NULL /\ cpc'[c] \in {"idle", "pick"} /\ state' = state
    BY DEF TypeOK, CpuProcess
  <2> QED
    BY <2>1 DEF CpuProcess
<1>4. ContextSaved'
  <2>1. \A d \in CPUs : cpc[d] \in {"yield_sw", "sleep_sw", "wait_sw"} =>
                          cpc'[d] = cpc[d] /\ cproc'[d] = cproc[d]
    BY DEF TypeOK
  <2> QED
    BY <2>1, ContextKept
<1>5. ForkChild'
  BY DEF TypeOK, LockDiscipline, CpuProcess, ForkChild, NULL
<1>6. RunQueueExact'
  BY RunKept DEF TypeOK, CpuProcess, ForkChild, NULL
<1>7. SleepQueueExact'
  BY SleepKept DEF TypeOK, CpuProcess, ForkChild, NULL
<1> QED
  BY <1>1, <1>2, <1>3, <1>4, <1>5, <1>6, <1>7

\* scheduler() finds every run queue empty.
LEMMA SchedIdleInv ==
    ASSUME IInv, NEW c \in CPUs, SchedIdle(c)
    PROVE  IInv'
<1> USE DEF SchedIdle
<1>1. TypeOK'
  BY DEF TypeOK, ProcStates, Contexts, NULL, Chans, Slots, Levels, CpuProcess, ForkChild
<1>2. LockDiscipline'
  BY DEF TypeOK, LockDiscipline
<1>3. CpuProcess'
  <2>1. /\ \A d \in CPUs : d # c => cproc'[d] = cproc[d] /\ cpc'[d] = cpc[d]
        /\ cproc'[c] = NULL /\ cpc'[c] \in {"idle", "pick"} /\ state' = state
    BY DEF TypeOK, CpuProcess
  <2> QED
    BY <2>1 DEF CpuProcess
<1>4. ContextSaved'
  <2>1. \A d \in CPUs : cpc[d] \in {"yield_sw", "sleep_sw", "wait_sw"} =>
                          cpc'[d] = cpc[d] /\ cproc'[d] = cproc[d]
    BY DEF TypeOK
  <2> QED
    BY <2>1, ContextKept
<1>5. ForkChild'
  BY DEF TypeOK, LockDiscipline, CpuProcess, ForkChild, NULL
<1>6. RunQueueExact'
  BY RunKept DEF TypeOK, CpuProcess, ForkChild, NULL
<1>7. SleepQueueExact'
  BY SleepKept DEF TypeOK, CpuProcess, ForkChild, NULL
<1> QED
  BY <1>1, <1>2, <1>3, <1>4, <1>5, <1>6, <1>7

\* scheduler() goes on after a process has switched out.
LEMMA SchedReturnInv ==
    ASSUME IInv, NEW c \in CPUs, SchedReturn(c)
    PROVE  IInv'
<1> USE DEF SchedReturn
<1>1. TypeOK'
  BY DEF TypeOK, ProcStates, Contexts, NULL, Chans, Slots, Levels, CpuProcess, ForkChild
<1>2. LockDiscipline'
  BY DEF TypeOK, LockDiscipline
<1>3. CpuProcess'
  <2>1. /\ \A d \in CPUs : d # c => cproc'[d] = cproc[d] /\ cpc'[d] = cpc[d]
        /\ cproc'[c] = NULL /\ cpc'[c] \in {"idle", "pick"} /\ state' = state
    BY DEF TypeOK, CpuProcess
  <2> QED
    BY <2>1 DEF CpuProcess
<1>4. ContextSaved'
  <2>1. \A d \in CPUs : cpc[d] \in {"yield_sw", "sleep_sw", "wait_sw"} =>
                          cpc'[d] = cpc[d] /\ cproc'[d] = cproc[d]
    BY DEF TypeOK
  <2> QED
    BY <2>1, ContextKept
<1>5. ForkChild'
  BY DEF TypeOK, LockDiscipline, CpuProcess, ForkChild, NULL
<1>6. RunQueueExact'
  BY RunKept DEF TypeOK, CpuProcess, ForkChild, NULL
<1>7. SleepQueueExact'
  BY SleepKept DEF TypeOK, CpuProcess, ForkChild, NULL
<1> QED
  BY <1>1, <1>2, <1>3, <1>4, <1>5, <1>6, <1>7

\* A new process leaves the kernel.
LEMMA forkretInv ==
    ASSUME IInv, NEW c \in CPUs, forkret(c)
    PROVE  IInv'
<1> USE DEF forkret, ReturnFrom
<1>1. TypeOK'
  BY DEF TypeOK, ProcStates, Contexts, NULL, Chans, Slots, Levels, CpuProcess, ForkChild
<1>2. LockDiscipline'
  BY DEF TypeOK, LockDiscipline
<1>3. CpuProcess'
  BY DEF TypeOK, LockDiscipline, CpuProcess, ForkChild, NULL
<1>4. ContextSaved'
  BY DEF TypeOK, LockDiscipline, CpuProcess, ContextSaved, ForkChild, NULL
<1>5. ForkChild'
  BY DEF TypeOK, LockDiscipline, CpuProcess, ForkChild, NULL
<1>6. RunQueueExact'
  BY RunKept DEF TypeOK, CpuProcess, ForkChild, NULL
<1>7. SleepQueueExact'
  BY SleepKept DEF TypeOK, CpuProcess, ForkChild, NULL
<1> QED
  BY <1>1, <1>2, <1>3, <1>4, <1>5, <1>6, <1>7

\* yield() returns.
LEMMA YieldRetInv ==
    ASSUME IInv, NEW c \in CPUs, YieldRet(c)
    PROVE  IInv'
<1> USE DEF YieldRet, ReturnFrom
<1>1. TypeOK'
  BY DEF TypeOK, ProcStates, Contexts, NULL, Chans, Slots, Levels, CpuProcess, ForkChild
<1>2. LockDiscipline'
  BY DEF TypeOK, LockDiscipline
<1>3. CpuProcess'
  BY DEF TypeOK, LockDiscipline, CpuProcess, ForkChild, NULL
<1>4. ContextSaved'
  BY DEF TypeOK, LockDiscipline, CpuProcess, ContextSaved, ForkChild, NULL
<1>5. ForkChild'
  BY DEF TypeOK, LockDiscipline, CpuProcess, ForkChild, NULL
<1>6. RunQueueExact'
  BY RunKept DEF TypeOK, CpuProcess, ForkChild, NULL
<1>7. SleepQueueExact'
  BY SleepKept DEF TypeOK, CpuProcess, ForkChild, NULL
<1> QED
  BY <1>1, <1>2, <1>3, <1>4, <1>5, <1>6, <1>7

\* yield() is called.
LEMMA TimerInv ==
    ASSUME IInv, NEW c \in CPUs, Timer(c)
    PROVE  IInv'
<1> USE DEF Timer
<1>1. TypeOK'
  BY DEF TypeOK, ProcStates, Contexts, NULL, Chans, Slots, Levels, CpuProcess, ForkChild
<1>2. LockDiscipline'
  BY DEF TypeOK, LockDiscipline
<1>3. CpuProcess'
  BY DEF TypeOK, LockDiscipline, CpuProcess, ForkChild, NULL
<1>4. ContextSaved'
  BY DEF TypeOK, LockDiscipline, CpuProcess, ContextSaved, ForkChild, NULL
<1>5. ForkChild'
  BY DEF TypeOK, LockDiscipline, CpuProcess, ForkChild, NULL
<1>6. RunQueueExact'
  BY RunKept DEF TypeOK, CpuProcess, ForkChild, NULL
<1>7. SleepQueueExact'
  BY SleepKept DEF TypeOK, CpuProcess, ForkChild, NULL
<1> QED
  BY <1>1, <1>2, <1>3, <1>4, <1>5, <1>6, <1>7

\* yield() takes ptablelock.
LEMMA YieldAcquireInv ==
    ASSUME IInv, NEW c \in CPUs, YieldAcquire(c)
    PROVE  IInv'
<1> USE DEF YieldAcquire
<1>1. TypeOK'
  BY DEF TypeOK, ProcStates, Contexts, NULL, Chans, Slots, Levels, CpuProcess, ForkChild
<1>2. LockDiscipline'
  BY DEF TypeOK, LockDiscipline
<1>3. CpuProcess'
  BY DEF TypeOK, LockDiscipline, CpuProcess, ForkChild, NULL
<1>4. ContextSaved'
  BY DEF TypeOK, LockDiscipline, CpuProcess, ContextSaved, ForkChild, NULL
<1>5. ForkChild'
  BY DEF TypeOK, LockDiscipline, CpuProcess, ForkChild, NULL
<1>6. RunQueueExact'
  BY RunKept DEF TypeOK, CpuProcess, ForkChild, NULL
<1>7. SleepQueueExact'
  BY SleepKept DEF TypeOK, CpuProcess, ForkChild, NULL
<1> QED
  BY <1>1, <1>2, <1>3, <1>4, <1>5, <1>6, <1>7

\* sleep() takes ptablelock.
LEMMA SleepEnterInv ==
    ASSUME IInv, NEW c \in CPUs, NEW ch \in KChans, SleepEnter(c, ch)
    PROVE  IInv'
<1> USE DEF SleepEnter
<1>1. TypeOK'
  BY DEF TypeOK, ProcStates, Contexts, NULL, Chans, Slots, Levels, CpuProcess, ForkChild
<1>2. LockDiscipline'
  BY DEF TypeOK, LockDiscipline
<1>3. CpuProcess'
  BY DEF TypeOK, LockDiscipline, CpuProcess, ForkChild, NULL
<1>4. ContextSaved'
  BY DEF TypeOK, LockDiscipline, CpuProcess, ContextSaved, ForkChild, NULL
<1>5. ForkChild'
  BY DEF TypeOK, LockDiscipline, CpuProcess, ForkChild, NULL
<1>6. RunQueueExact'
  BY RunKept DEF TypeOK, CpuProcess, ForkChild, NULL
<1>7. SleepQueueExact'
  BY SleepKept DEF TypeOK, CpuProcess, ForkChild, NULL
<1> QED
  BY <1>1, <1>2, <1>3, <1>4, <1>5, <1>6, <1>7

\* wakeup() takes ptablelock.
LEMMA WakeupEnterInv ==
    ASSUME IInv, NEW c \in CPUs, NEW ch \in KChans, WakeupEnter(c, ch)
    PROVE  IInv'
<1> USE DEF WakeupEnter
<1>1. TypeOK'
  BY DEF TypeOK, ProcStates, Contexts, NULL, Chans, Slots, Levels, CpuProcess, ForkChild
<1>2. LockDiscipline'
  BY DEF TypeOK, LockDiscipline
<1>3. CpuProcess'
  BY DEF TypeOK, LockDiscipline, CpuProcess, ForkChild, NULL
<1>4. ContextSaved'
  BY DEF TypeOK, LockDiscipline, CpuProcess, ContextSaved, ForkChild, NULL
<1>5. ForkChild'
  BY DEF TypeOK, LockDiscipline, CpuProcess, ForkChild, NULL
<1>6. RunQueueExact'
  BY RunKept DEF TypeOK, CpuProcess, ForkChild, NULL
<1>7. SleepQueueExact'
  BY SleepKept DEF TypeOK, CpuProcess, ForkChild, NULL
<1> QED
  BY <1>1, <1>2, <1>3, <1>4, <1>5, <1>6, <1>7

\* sleep() returns.
LEMMA SleepRetInv ==
    ASSUME IInv, NEW c \in CPUs, SleepRet(c)
    PROVE  IInv'
<1> USE DEF SleepRet
<1>1. TypeOK'
  BY DEF TypeOK, ProcStates, Contexts, NULL, Chans, Slots, Levels, CpuProcess, ForkChild
<1>2. LockDiscipline'
  BY DEF TypeOK, LockDiscipline
<1>3. CpuProcess'
  BY DEF TypeOK, LockDiscipline, CpuProcess, ForkChild, NULL
<1>4. ContextSaved'
  BY DEF TypeOK, LockDiscipline, CpuProcess, ContextSaved, ForkChild, NULL
<1>5. ForkChild'
  BY DEF TypeOK, LockDiscipline, CpuProcess, ForkChild, NULL
<1>6. RunQueueExact'
  BY RunKept DEF TypeOK, CpuProcess, ForkChild, NULL
<1>7. SleepQueueExact'
  <2>1. state[cproc[c]] = "RUNNING" /\ cproc[c] \in Slots
    BY OnCpu
  <2>2. \A q \in Slots : q # cproc[c] => chan'[q] = chan[q]
    BY DEF TypeOK
  <2> QED
    BY <2>1, <2>2, SleepKept
<1> QED
  BY <1>1, <1>2, <1>3, <1>4, <1>5, <1>6, <1>7

\* sleep() returns to the loop of wait().
LEMMA WaitRetInv ==
    ASSUME IInv, NEW c \in CPUs, WaitRet(c)
    PROVE  IInv'
<1> USE DEF WaitRet
<1>1. TypeOK'
  BY DEF TypeOK, ProcStates, Contexts, NULL, Chans, Slots, Levels, CpuProcess, ForkChild
<1>2. LockDiscipline'
  BY DEF TypeOK, LockDiscipline
<1>3. CpuProcess'
  BY DEF TypeOK, LockDiscipline, CpuProcess, ForkChild, NULL
<1>4. ContextSaved'
  BY DEF TypeOK, LockDiscipline, CpuProcess, ContextSaved, ForkChild, NULL
<1>5. ForkChild'
  BY DEF TypeOK, LockDiscipline, CpuProcess, ForkChild, NULL
<1>6. RunQueueExact'
  BY RunKept DEF TypeOK, CpuProcess, ForkChild, NULL
<1>7. SleepQueueExact'
  <2>1. state[cproc[c]] = "RUNNING" /\ cproc[c] \in Slots
    BY OnCpu
  <2>2. \A q \in Slots : q # cproc[c] => chan'[q] = chan[q]
    BY DEF TypeOK
  <2> QED
    BY <2>1, <2>2, SleepKept
<1> QED
  BY <1>1, <1>2, <1>3, <1>4, <1>5, <1>6, <1>7

\* wakeup() returns.
LEMMA WakeupDoneInv ==
    ASSUME IInv, NEW c \in CPUs, WakeupDone(c)
    PROVE  IInv'
<1> USE DEF WakeupDone
<1>1. TypeOK'
  BY DEF TypeOK, ProcStates, Contexts, NULL, Chans, Slots, Levels, CpuProcess, ForkChild
<1>2. LockDiscipline'
  BY DEF TypeOK, LockDiscipline
<1>3. CpuProcess'
  BY DEF TypeOK, LockDiscipline, CpuProcess, ForkChild, NULL
<1>4. ContextSaved'
  BY DEF TypeOK, LockDiscipline, CpuProcess, ContextSaved, ForkChild, NULL
<1>5. ForkChild'
  BY DEF TypeOK, LockDiscipline, CpuProcess, ForkChild, NULL
<1>6. RunQueueExact'
  BY RunKept DEF TypeOK, CpuProcess, ForkChild, NULL
<1>7. SleepQueueExact'
  BY SleepKept DEF TypeOK, CpuProcess, ForkChild, NULL
<1> QED
  BY <1>1, <1>2, <1>3, <1>4, <1>5, <1>6, <1>7

\* fork() sets child->parent and copies.
LEMMA ForkCopyInv ==
    ASSUME IInv, NEW c \in CPUs, ForkCopy(c)
    PROVE  IInv'
<1> USE DEF ForkCopy
<1>1. TypeOK'
  BY DEF TypeOK, ProcStates, Contexts, NULL, Chans, Slots, Levels, CpuProcess, ForkChild
<1>2. LockDiscipline'
  BY DEF TypeOK, LockDiscipline
<1>3. CpuProcess'
  BY DEF TypeOK, LockDiscipline, CpuProcess, ForkChild, NULL
<1>4. ContextSaved'
  BY DEF TypeOK, LockDiscipline, CpuProcess, ContextSaved, ForkChild, NULL
<1>5. ForkChild'
  BY DEF TypeOK, LockDiscipline, CpuProcess, ForkChild, NULL
<1>6. RunQueueExact'
  BY RunKept DEF TypeOK, CpuProcess, ForkChild, NULL
<1>7. SleepQueueExact'
  BY SleepKept DEF TypeOK, CpuProcess, ForkChild, NULL
<1> QED
  BY <1>1, <1>2, <1>3, <1>4, <1>5, <1>6, <1>7

\* wait() finds no child.
LEMMA WaitNoneInv ==
    ASSUME IInv, NEW c \in CPUs, WaitNone(c)
    PROVE  IInv'
<1> USE DEF WaitNone
<1>1. TypeOK'
  BY DEF TypeOK, ProcStates, Contexts, NULL, Chans, Slots, Levels, CpuProcess, ForkChild
<1>2. LockDiscipline'
  BY DEF TypeOK, LockDiscipline
<1>3. CpuProcess'
  BY DEF TypeOK, LockDiscipline, CpuProcess, ForkChild, NULL
<1>4. ContextSaved'
  BY DEF TypeOK, LockDiscipline, CpuProcess, ContextSaved, ForkChild, NULL
<1>5. ForkChild'
  BY DEF TypeOK, LockDiscipline, CpuProcess, ForkChild, NULL
<1>6. RunQueueExact'
  BY RunKept DEF TypeOK, CpuProcess, ForkChild, NULL
<1>7. SleepQueueExact'
  BY SleepKept DEF TypeOK, CpuProcess, ForkChild, NULL
<1> QED
  BY <1>1, <1>2, <1>3, <1>4, <1>5, <1>6, <1>7

\* exit() has woken initproc.
LEMMA ExitWokeInitInv ==
    ASSUME IInv, NEW c \in CPUs, ExitWokeInit(c)
    PROVE  IInv'
<1> USE DEF ExitWokeInit
<1>1. TypeOK'
  BY DEF TypeOK, ProcStates, Contexts, NULL, Chans, Slots, Levels, CpuProcess, ForkChild
<1>2. LockDiscipline'
  BY DEF TypeOK, LockDiscipline
<1>3. CpuProcess'
  BY DEF TypeOK, LockDiscipline, CpuProcess, ForkChild, NULL
<1>4. ContextSaved'
  BY DEF TypeOK, LockDiscipline, CpuProcess, ContextSaved, ForkChild, NULL
<1>5. ForkChild'
  BY DEF TypeOK, LockDiscipline, CpuProcess, ForkChild, NULL
<1>6. RunQueueExact'
  BY RunKept DEF TypeOK, CpuProcess, ForkChild, NULL
<1>7. SleepQueueExact'
  BY SleepKept DEF TypeOK, CpuProcess, ForkChild, NULL
<1> QED
  BY <1>1, <1>2, <1>3, <1>4, <1>5, <1>6, <1>7

\* fork() finds the table full.
LEMMA ForkNoSlotInv ==
    ASSUME IInv, NEW c \in CPUs, ForkNoSlot(c)
    PROVE  IInv'
<1> USE DEF ForkNoSlot
<1>1. TypeOK'
  BY DEF TypeOK, ProcStates, Contexts, NULL, Chans, Slots, Levels, CpuProcess, ForkChild
<1>2. LockDiscipline'
  BY DEF TypeOK, LockDiscipline
<1>3. CpuProcess'
  BY DEF TypeOK, LockDiscipline, CpuProcess, ForkChild, NULL
<1>4. ContextSaved'
  BY DEF TypeOK, LockDiscipline, CpuProcess, ContextSaved, ForkChild, NULL
<1>5. ForkChild'
  BY DEF TypeOK, LockDiscipline, CpuProcess, ForkChild, NULL
<1>6. RunQueueExact'
  BY RunKept DEF TypeOK, CpuProcess, ForkChild, NULL
<1>7. SleepQueueExact'
  BY SleepKept DEF TypeOK, CpuProcess, ForkChild, NULL
<1> QED
  BY <1>1, <1>2, <1>3, <1>4, <1>5, <1>6, <1>7

\* execve() or brk() spins for kmemcslock.
LEMMA CallHangsInv ==
    ASSUME IInv, NEW c \in CPUs, CallHangs(c)
    PROVE  IInv'
<1> USE DEF CallHangs
<1>1. TypeOK'
  BY DEF TypeOK, ProcStates, Contexts, NULL, Chans, Slots, Levels, CpuProcess, ForkChild
<1>2. LockDiscipline'
  BY DEF TypeOK, LockDiscipline
<1>3. CpuProcess'
  BY DEF TypeOK, LockDiscipline, CpuProcess, ForkChild, NULL
<1>4. ContextSaved'
  BY DEF TypeOK, LockDiscipline, CpuProcess, ContextSaved, ForkChild, NULL
<1>5. ForkChild'
  BY DEF TypeOK, LockDiscipline, CpuProcess, ForkChild, NULL
<1>6. RunQueueExact'
  BY RunKept DEF TypeOK, CpuProcess, ForkChild, NULL
<1>7. SleepQueueExact'
  BY SleepKept DEF TypeOK, CpuProcess, ForkChild, NULL
<1> QED
  BY <1>1, <1>2, <1>3, <1>4, <1>5, <1>6, <1>7

\* A kalloc() fails in execve() or brk().
LEMMA CallNoMemoryInv ==
    ASSUME IInv, NEW c \in CPUs, CallNoMemory(c)
    PROVE  IInv'
<1> USE DEF CallNoMemory, KallocFails
<1>1. TypeOK'
  BY DEF TypeOK, ProcStates, Contexts, NULL, Chans, Slots, Levels, CpuProcess, ForkChild
<1>2. LockDiscipline'
  BY DEF TypeOK, LockDiscipline
<1>3. CpuProcess'
  BY DEF TypeOK, LockDiscipline, CpuProcess, ForkChild, NULL
<1>4. ContextSaved'
  BY DEF TypeOK, LockDiscipline, CpuProcess, ContextSaved, ForkChild, NULL
<1>5. ForkChild'
  BY DEF TypeOK, LockDiscipline, CpuProcess, ForkChild, NULL
<1>6. RunQueueExact'
  BY RunKept DEF TypeOK, CpuProcess, ForkChild, NULL
<1>7. SleepQueueExact'
  BY SleepKept DEF TypeOK, CpuProcess, ForkChild, NULL
<1> QED
  BY <1>1, <1>2, <1>3, <1>4, <1>5, <1>6, <1>7

\* wait() takes ptablelock.
LEMMA WaitEnterInv ==
    ASSUME IInv, NEW c \in CPUs, WaitEnter(c)
    PROVE  IInv'
<1> USE DEF WaitEnter
<1>1. TypeOK'
  BY DEF TypeOK, ProcStates, Contexts, NULL, Chans, Slots, Levels, CpuProcess, ForkChild
<1>2. LockDiscipline'
  BY DEF TypeOK, LockDiscipline
<1>3. CpuProcess'
  BY DEF TypeOK, LockDiscipline, CpuProcess, ForkChild, NULL
<1>4. ContextSaved'
  BY DEF TypeOK, LockDiscipline, CpuProcess, ContextSaved, ForkChild, NULL
<1>5. ForkChild'
  BY DEF TypeOK, LockDiscipline, CpuProcess, ForkChild, NULL
<1>6. RunQueueExact'
  BY RunKept DEF TypeOK, CpuProcess, ForkChild, NULL
<1>7. SleepQueueExact'
  BY SleepKept DEF TypeOK, CpuProcess, ForkChild, NULL
<1> QED
  BY <1>1, <1>2, <1>3, <1>4, <1>5, <1>6, <1>7

\* exit() takes ptablelock.
LEMMA ExitEnterInv ==
    ASSUME IInv, NEW c \in CPUs, ExitEnter(c)
    PROVE  IInv'
<1> USE DEF ExitEnter
<1>1. TypeOK'
  BY ZenonT(60) DEF TypeOK, ProcStates, Contexts, NULL, Chans, Slots, Levels, CpuProcess, ForkChild
<1>2. LockDiscipline'
  BY DEF TypeOK, LockDiscipline
<1>3. CpuProcess'
  BY DEF TypeOK, LockDiscipline, CpuProcess, ForkChild, NULL
<1>4. ContextSaved'
  BY DEF TypeOK, LockDiscipline, CpuProcess, ContextSaved, ForkChild, NULL
<1>5. ForkChild'
  BY DEF TypeOK, LockDiscipline, CpuProcess, ForkChild, NULL
<1>6. RunQueueExact'
  BY RunKept DEF TypeOK, CpuProcess, ForkChild, NULL
<1>7. SleepQueueExact'
  BY SleepKept DEF TypeOK, CpuProcess, ForkChild, NULL
<1> QED
  BY <1>1, <1>2, <1>3, <1>4, <1>5, <1>6, <1>7

\* exit() becomes a ZOMBIE.
LEMMA ExitZombieInv ==
    ASSUME IInv, NEW c \in CPUs, ExitZombie(c)
    PROVE  IInv'
<1> USE DEF ExitZombie
<1>1. TypeOK'
  BY DEF TypeOK, ProcStates, Contexts, NULL, Chans, Slots, Levels, CpuProcess, ForkChild
<1>2. LockDiscipline'
  BY DEF TypeOK, LockDiscipline
<1>3. CpuProcess'
  BY DEF TypeOK, LockDiscipline, CpuProcess, ForkChild, NULL
<1>4. ContextSaved'
  BY DEF TypeOK, LockDiscipline, CpuProcess, ContextSaved, ForkChild, NULL
<1>5. ForkChild'
  BY DEF TypeOK, LockDiscipline, CpuProcess, ForkChild, NULL
<1>6. RunQueueExact'
  BY RunKept DEF TypeOK, CpuProcess, ForkChild, NULL
<1>7. SleepQueueExact'
  BY SleepKept DEF TypeOK, CpuProcess, ForkChild, NULL
<1> QED
  BY <1>1, <1>2, <1>3, <1>4, <1>5, <1>6, <1>7

\* wait() frees the slot of a ZOMBIE child.
LEMMA WaitReapInv ==
    ASSUME IInv, NEW c \in CPUs, WaitReap(c)
    PROVE  IInv'
<1> PICK q \in Slots :
       /\ FirstZombie(cproc[c], q)
       /\ pid'    = [pid EXCEPT ![q] = 0]
       /\ parent' = [parent EXCEPT ![q] = NULL]
       /\ state'  = [state EXCEPT ![q] = "UNUSED"]
  BY DEF WaitReap
<1>0. /\ q \in Slots /\ state[q] = "ZOMBIE"
      /\ cpc[c] = "wait" /\ release(c) /\ Goto(c, "user")
      /\ UNCHANGED <<chan, prio, ctx, nextpid, kmemheld, queueVars, cproc, wch, child>>
  BY DEF WaitReap, FirstZombie, ZombieKids, Children
<1>1. TypeOK'
  BY <1>0 DEF TypeOK, ProcStates, Contexts, NULL, Chans, Slots, Levels, CpuProcess, ForkChild
<1>2. LockDiscipline'
  BY <1>0 DEF TypeOK, LockDiscipline
<1>3. CpuProcess'
  BY <1>0 DEF TypeOK, LockDiscipline, CpuProcess, ForkChild, NULL
<1>4. ContextSaved'
  BY <1>0 DEF TypeOK, LockDiscipline, CpuProcess, ContextSaved, ForkChild, NULL
<1>5. ForkChild'
  BY <1>0 DEF TypeOK, LockDiscipline, CpuProcess, ForkChild, NULL
<1>6. RunQueueExact'
  BY <1>0, RunKept DEF TypeOK, CpuProcess, ForkChild, NULL
<1>7. SleepQueueExact'
  BY <1>0, SleepKept DEF TypeOK, CpuProcess, ForkChild, NULL
<1> QED
  BY <1>1, <1>2, <1>3, <1>4, <1>5, <1>6, <1>7

\* proc_alloc() gets no kernel stack: fork() panics.
LEMMA ForkNoMemoryInv ==
    ASSUME IInv, NEW c \in CPUs, ForkNoMemory(c)
    PROVE  IInv'
<1> PICK s \in Slots : pid' = [pid EXCEPT ![s] = nextpid]
  BY DEF ForkNoMemory
<1>0. /\ CallsFrom(c) /\ nextpid' = nextpid + 1 /\ Goto(c, "halt") /\ kmemheld' = TRUE
      /\ UNCHANGED <<state, parent, chan, prio, ctx, queueVars, ptablelock, cproc, wch, child>>
  BY DEF ForkNoMemory, KallocFails
<1>1. TypeOK'
  <2>1. pid' \in [Slots -> Nat] /\ nextpid' \in Nat
    BY <1>0 DEF TypeOK
  <2> QED
    BY <1>0, <2>1 DEF TypeOK
<1>2. LockDiscipline'
  BY <1>0 DEF TypeOK, LockDiscipline
<1>3. CpuProcess'
  BY <1>0 DEF TypeOK, LockDiscipline, CpuProcess, ForkChild, NULL
<1>4. ContextSaved'
  BY <1>0 DEF TypeOK, LockDiscipline, CpuProcess, ContextSaved, ForkChild, NULL
<1>5. ForkChild'
  BY <1>0 DEF TypeOK, LockDiscipline, CpuProcess, ForkChild, NULL
<1>6. RunQueueExact'
  BY <1>0, RunKept DEF TypeOK, CpuProcess, ForkChild, NULL
<1>7. SleepQueueExact'
  BY <1>0, SleepKept DEF TypeOK, CpuProcess, ForkChild, NULL
<1> QED
  BY <1>1, <1>2, <1>3, <1>4, <1>5, <1>6, <1>7

\* wait() frees the memory of a ZOMBIE child after kalloc() has failed: it
\* never gets kmemcslock, and keeps ptablelock.
LEMMA WaitHangsInv ==
    ASSUME IInv, NEW c \in CPUs, WaitHangs(c)
    PROVE  IInv'
<1> PICK q \in Slots : /\ pid'    = [pid EXCEPT ![q] = 0]
                       /\ parent' = [parent EXCEPT ![q] = NULL]
  BY DEF WaitHangs
<1>0. /\ cpc[c] = "wait" /\ Goto(c, "hang")
      /\ UNCHANGED <<state, chan, prio, ctx, nextpid, kmemheld, queueVars, ptablelock, cproc, wch, child>>
  BY DEF WaitHangs
<1>1. TypeOK'
  BY <1>0 DEF TypeOK, ProcStates, Contexts, NULL, Chans, Slots, Levels, CpuProcess, ForkChild
<1>2. LockDiscipline'
  BY <1>0 DEF TypeOK, LockDiscipline
<1>3. CpuProcess'
  BY <1>0 DEF TypeOK, LockDiscipline, CpuProcess, ForkChild, NULL
<1>4. ContextSaved'
  BY <1>0 DEF TypeOK, LockDiscipline, CpuProcess, ContextSaved, ForkChild, NULL
<1>5. ForkChild'
  BY <1>0 DEF TypeOK, LockDiscipline, CpuProcess, ForkChild, NULL
<1>6. RunQueueExact'
  BY <1>0, RunKept DEF TypeOK, CpuProcess, ForkChild, NULL
<1>7. SleepQueueExact'
  BY <1>0, SleepKept DEF TypeOK, CpuProcess, ForkChild, NULL
<1> QED
  BY <1>1, <1>2, <1>3, <1>4, <1>5, <1>6, <1>7

\* proc_alloc() takes a slot and then never gets kmemcslock, ptablelock held.
LEMMA ForkHangsInv ==
    ASSUME IInv, NEW c \in CPUs, ForkHangs(c)
    PROVE  IInv'
<1> PICK s \in Slots : /\ state[s] = "UNUSED"
                       /\ state' = [state EXCEPT ![s] = "EMBRYO"]
                       /\ pid'   = [pid EXCEPT ![s] = nextpid]
  BY DEF ForkHangs, FirstUnused
<1>0. /\ CallsFrom(c) /\ acquire(c) /\ nextpid' = nextpid + 1 /\ Goto(c, "hang")
      /\ UNCHANGED <<kmemheld, parent, chan, prio, ctx, queueVars, cproc, wch, child>>
  BY DEF ForkHangs
<1>1. TypeOK'
  <2>1. pid' \in [Slots -> Nat] /\ nextpid' \in Nat
    BY <1>0 DEF TypeOK
  <2>2. state' \in [Slots -> ProcStates]
    BY DEF TypeOK, ProcStates
  <2> QED
    BY <1>0, <2>1, <2>2 DEF TypeOK
<1>2. LockDiscipline'
  BY <1>0 DEF TypeOK, LockDiscipline
<1>3. CpuProcess'
  BY <1>0 DEF TypeOK, LockDiscipline, CpuProcess, ForkChild, NULL
<1>4. ContextSaved'
  BY <1>0 DEF TypeOK, LockDiscipline, CpuProcess, ContextSaved, ForkChild, NULL
<1>5. ForkChild'
  BY <1>0 DEF TypeOK, LockDiscipline, CpuProcess, ForkChild, NULL
<1>6. RunQueueExact'
  BY <1>0, RunKept DEF TypeOK, CpuProcess, ForkChild, NULL
<1>7. SleepQueueExact'
  BY <1>0, SleepKept DEF TypeOK, CpuProcess, ForkChild, NULL
<1> QED
  BY <1>1, <1>2, <1>3, <1>4, <1>5, <1>6, <1>7

\* The copy of the address space fails, or never gets kmemcslock: the child is
\* abandoned as an EMBRYO.
LEMMA ForkCopyFailsInv ==
    ASSUME IInv, NEW c \in CPUs, ForkCopyFails(c)
    PROVE  IInv'
<1>0. /\ cpc[c] = "fork" /\ parent' = [parent EXCEPT ![child[c]] = cproc[c]]
      /\ Goto(c, "halt") /\ kmemheld' \in BOOLEAN
      /\ child' = [child EXCEPT ![c] = NULL]
      /\ UNCHANGED <<state, pid, chan, prio, ctx, nextpid, queueVars, ptablelock, cproc, wch>>
  BY DEF ForkCopyFails, KallocFails, TypeOK
<1>1. TypeOK'
  BY <1>0, ZenonT(60) DEF TypeOK, ProcStates, Contexts, NULL, Chans, Slots, Levels, CpuProcess, ForkChild
<1>2. LockDiscipline'
  BY <1>0, ZenonT(60) DEF TypeOK, LockDiscipline
<1>3. CpuProcess'
  <2>1. /\ \A d \in CPUs : d # c => cpc'[d] = cpc[d]
        /\ cpc'[c] = "halt" /\ cproc' = cproc /\ state' = state
    BY <1>0 DEF TypeOK
  <2>2. cproc[c] # NULL /\ state[cproc[c]] = "RUNNING"
    BY <1>0 DEF CpuProcess
  <2> QED
    BY <2>1, <2>2 DEF CpuProcess
<1>4. ContextSaved'
  BY <1>0 DEF TypeOK, LockDiscipline, CpuProcess, ContextSaved, ForkChild, NULL
<1>5. ForkChild'
  BY <1>0 DEF TypeOK, LockDiscipline, CpuProcess, ForkChild, NULL
<1>6. RunQueueExact'
  BY <1>0, RunKept DEF TypeOK, CpuProcess, ForkChild, NULL
<1>7. SleepQueueExact'
  BY <1>0, SleepKept DEF TypeOK, CpuProcess, ForkChild, NULL
<1> QED
  BY <1>1, <1>2, <1>3, <1>4, <1>5, <1>6, <1>7

\* proc_alloc() takes a slot for the child of fork().
LEMMA ForkAllocInv ==
    ASSUME IInv, NEW c \in CPUs, ForkAlloc(c)
    PROVE  IInv'
<1> PICK s \in Slots :
       /\ state[s] = "UNUSED"
       /\ state' = [state EXCEPT ![s] = "EMBRYO"]
       /\ pid'   = [pid EXCEPT ![s] = nextpid]
       /\ chan'  = [chan EXCEPT ![s] = NULL]
       /\ prio'  = [prio EXCEPT ![s] = PRIOENTRIES - 1]
       /\ ctx'   = [ctx EXCEPT ![s] = "forkret"]
       /\ child' = [child EXCEPT ![c] = s]
  BY DEF ForkAlloc, FirstUnused
<1>0. /\ CallsFrom(c) /\ nextpid' = nextpid + 1 /\ Goto(c, "fork")
      /\ UNCHANGED <<kmemheld, parent, queueVars, ptablelock, cproc, wch>>
      /\ s # NULL
  BY DEF ForkAlloc, Slots, NULL
<1>1. TypeOK'
  <2>1. pid' \in [Slots -> Nat] /\ nextpid' \in Nat
    BY <1>0 DEF TypeOK
  <2>2. prio' \in [Slots -> Levels]
    BY DEF TypeOK, Levels
  <2>3. /\ state' \in [Slots -> ProcStates] /\ chan' \in [Slots -> Chans \cup {NULL}]
        /\ ctx' \in [Slots -> Contexts] /\ child' \in [CPUs -> Slots \cup {NULL}]
    BY DEF TypeOK, ProcStates, Contexts
  <2> QED
    BY <1>0, <2>1, <2>2, <2>3 DEF TypeOK
<1>2. LockDiscipline'
  BY <1>0 DEF TypeOK, LockDiscipline
<1>3. CpuProcess'
  BY <1>0 DEF TypeOK, LockDiscipline, CpuProcess, ForkChild, NULL
<1>4. ContextSaved'
  BY <1>0 DEF TypeOK, LockDiscipline, CpuProcess, ContextSaved, ForkChild, NULL
<1>5. ForkChild'
  BY <1>0 DEF TypeOK, LockDiscipline, CpuProcess, ForkChild, NULL
<1>6. RunQueueExact'
  BY <1>0, RunKept DEF TypeOK, CpuProcess, ForkChild, NULL
<1>7. SleepQueueExact'
  BY <1>0, SleepKept DEF TypeOK, CpuProcess, ForkChild, NULL
<1> QED
  BY <1>1, <1>2, <1>3, <1>4, <1>5, <1>6, <1>7

\* exit() hands its children to initproc.
LEMMA ExitReparentInv ==
    ASSUME IInv, NEW c \in CPUs, ExitReparent(c)
    PROVE  IInv'
<1>0. PICK l \in {"exit2", "exit3"}, ch \in Chans \cup {NULL} :
       /\ Goto(c, l) /\ wch' = [wch EXCEPT ![c] = ch]
  <2>1. initproc \in Chans
    BY DEF initproc, Chans, Slots
  <2>2. CASE ZombieKids(cproc[c]) # {}
    BY <2>1, <2>2 DEF ExitReparent
  <2>3. CASE ZombieKids(cproc[c]) = {}
    BY <2>3 DEF ExitReparent
  <2> QED
    BY <2>2, <2>3
<1>01. /\ cpc[c] = "exit1"
       /\ parent' \in [Slots -> Slots \cup {NULL}]
       /\ UNCHANGED <<state, pid, chan, prio, ctx, nextpid, kmemheld, queueVars, ptablelock, cproc, child>>
  BY DEF ExitReparent, TypeOK, initproc, Slots
<1>1. TypeOK'
  BY <1>0, <1>01
     DEF TypeOK, ProcStates, Contexts, NULL, Chans, Slots, Levels, CpuProcess, ForkChild
<1>2. LockDiscipline'
  BY <1>0, <1>01 DEF TypeOK, LockDiscipline
<1>3. CpuProcess'
  BY <1>0, <1>01 DEF TypeOK, LockDiscipline, CpuProcess, ForkChild, NULL
<1>4. ContextSaved'
  BY <1>0, <1>01 DEF TypeOK, LockDiscipline, CpuProcess, ContextSaved, ForkChild, NULL
<1>5. ForkChild'
  BY <1>0, <1>01 DEF TypeOK, LockDiscipline, CpuProcess, ForkChild, NULL
<1>6. RunQueueExact'
  BY <1>0, <1>01, RunKept DEF TypeOK, CpuProcess, ForkChild, NULL
<1>7. SleepQueueExact'
  BY <1>0, <1>01, SleepKept DEF TypeOK, CpuProcess, ForkChild, NULL
<1> QED
  BY <1>1, <1>2, <1>3, <1>4, <1>5, <1>6, <1>7

\* yield(): the running process goes to the back of its run queue.
LEMMA YieldBodyInv ==
    ASSUME IInv, NEW c \in CPUs, YieldBody(c)
    PROVE  IInv'
<1>0. /\ cpc[c] = "yield" /\ Goto(c, "yield_sw")
      /\ MakeRunnable(cproc[c], prio[cproc[c]])
      /\ UNCHANGED <<pid, parent, chan, prio, ctx, nextpid, kmemheld, hashmp, ptablelock, cproc, wch, child>>
  BY DEF YieldBody
<1>01. cproc[c] \in Slots /\ prio[cproc[c]] \in Levels /\ state[cproc[c]] = "RUNNING"
  BY <1>0, OnCpu DEF TypeOK
<1>02. state' = [state EXCEPT ![cproc[c]] = "RUNNABLE"]
  BY <1>0 DEF MakeRunnable
<1>03. prioque' \in [Levels -> Seq(Slots)] /\ RunQueueExact'
  BY <1>0, <1>01, RunPush DEF TypeOK
<1>1. TypeOK'
  BY <1>0, <1>01, <1>02, <1>03 DEF TypeOK, ProcStates
<1>2. LockDiscipline'
  BY <1>0, <1>01, <1>02 DEF TypeOK, LockDiscipline
<1>3. CpuProcess'
  BY <1>0, <1>01, <1>02 DEF TypeOK, LockDiscipline, CpuProcess, ForkChild, NULL
<1>4. ContextSaved'
  BY <1>0, <1>01, <1>02 DEF TypeOK, LockDiscipline, CpuProcess, ContextSaved, ForkChild, NULL
<1>5. ForkChild'
  BY <1>0, <1>01, <1>02 DEF TypeOK, LockDiscipline, CpuProcess, ForkChild, NULL
<1>6. RunQueueExact'
  BY <1>03
<1>7. SleepQueueExact'
  BY <1>0, <1>01, <1>02, SleepKept DEF TypeOK, CpuProcess, ForkChild, NULL
<1> QED
  BY <1>1, <1>2, <1>3, <1>4, <1>5, <1>6, <1>7

\* sleep(): the running process goes to sleep on chan.
LEMMA SleepBodyInv ==
    ASSUME IInv, NEW c \in CPUs, SleepBody(c)
    PROVE  IInv'
<1>0. /\ cpc[c] = "sleep" /\ GoToSleep(c, wch[c], "sleep_sw")
      /\ wch' = [wch EXCEPT ![c] = NULL]
      /\ UNCHANGED <<pid, parent, prio, ctx, nextpid, kmemheld, prioque, ptablelock, cproc, child>>
  BY DEF SleepBody
<1>01. cproc[c] \in Slots /\ wch[c] \in Chans \cup {NULL} /\ state[cproc[c]] = "RUNNING"
  BY <1>0, OnCpu DEF TypeOK
<1>02. /\ state' = [state EXCEPT ![cproc[c]] = "SLEEPING"]
       /\ chan' = [chan EXCEPT ![cproc[c]] = wch[c]]
       /\ Goto(c, "sleep_sw")
  BY <1>0 DEF GoToSleep
<1>03. hashmp' \in [Buckets -> Seq(Slots)] /\ SleepQueueExact'
  BY <1>0, <1>01, SleepPush DEF TypeOK
<1>1. TypeOK'
  BY <1>0, <1>01, <1>02, <1>03 DEF TypeOK, ProcStates
<1>2. LockDiscipline'
  BY <1>0, <1>01, <1>02 DEF TypeOK, LockDiscipline
<1>3. CpuProcess'
  BY <1>0, <1>01, <1>02 DEF TypeOK, LockDiscipline, CpuProcess, ForkChild, NULL
<1>4. ContextSaved'
  BY <1>0, <1>01, <1>02 DEF TypeOK, LockDiscipline, CpuProcess, ContextSaved, ForkChild, NULL
<1>5. ForkChild'
  BY <1>0, <1>01, <1>02 DEF TypeOK, LockDiscipline, CpuProcess, ForkChild, NULL
<1>6. RunQueueExact'
  BY <1>0, <1>01, <1>02, RunKept DEF TypeOK, CpuProcess, ForkChild, NULL
<1>7. SleepQueueExact'
  BY <1>03
<1> QED
  BY <1>1, <1>2, <1>3, <1>4, <1>5, <1>6, <1>7

\* wait(): the running process goes to sleep on itself.
LEMMA WaitSleepInv ==
    ASSUME IInv, NEW c \in CPUs, WaitSleep(c)
    PROVE  IInv'
<1>0. /\ cpc[c] = "wait" /\ GoToSleep(c, cproc[c], "wait_sw")
      /\ UNCHANGED <<pid, parent, prio, ctx, nextpid, kmemheld, prioque, ptablelock, cproc, wch, child>>
  BY DEF WaitSleep
<1>01. cproc[c] \in Slots /\ cproc[c] \in Chans \cup {NULL} /\ state[cproc[c]] = "RUNNING"
  BY <1>0, OnCpu
<1>02. /\ state' = [state EXCEPT ![cproc[c]] = "SLEEPING"]
       /\ chan' = [chan EXCEPT ![cproc[c]] = cproc[c]]
       /\ Goto(c, "wait_sw")
  BY <1>0 DEF GoToSleep
<1>03. hashmp' \in [Buckets -> Seq(Slots)] /\ SleepQueueExact'
  BY <1>0, <1>01, SleepPush DEF TypeOK
<1>1. TypeOK'
  BY <1>0, <1>01, <1>02, <1>03 DEF TypeOK, ProcStates
<1>2. LockDiscipline'
  BY <1>0, <1>01, <1>02 DEF TypeOK, LockDiscipline
<1>3. CpuProcess'
  BY <1>0, <1>01, <1>02 DEF TypeOK, LockDiscipline, CpuProcess, ForkChild, NULL
<1>4. ContextSaved'
  BY <1>0, <1>01, <1>02 DEF TypeOK, LockDiscipline, CpuProcess, ContextSaved, ForkChild, NULL
<1>5. ForkChild'
  BY <1>0, <1>01, <1>02 DEF TypeOK, LockDiscipline, CpuProcess, ForkChild, NULL
<1>6. RunQueueExact'
  BY <1>0, <1>01, <1>02, RunKept DEF TypeOK, CpuProcess, ForkChild, NULL
<1>7. SleepQueueExact'
  BY <1>03
<1> QED
  BY <1>1, <1>2, <1>3, <1>4, <1>5, <1>6, <1>7

\* fork() makes the child RUNNABLE.
LEMMA ForkRunInv ==
    ASSUME IInv, NEW c \in CPUs, ForkRun(c)
    PROVE  IInv'
<1>0. /\ cpc[c] = "forkrun" /\ ptablelock = NoCpu /\ Goto(c, "user")
      /\ prio' = [prio EXCEPT ![child[c]] = prio[cproc[c]]]
      /\ MakeRunnable(child[c], prio[cproc[c]])
      /\ child' = [child EXCEPT ![c] = NULL]
      /\ UNCHANGED <<pid, parent, chan, ctx, nextpid, kmemheld, hashmp, ptablelock, cproc, wch>>
  BY DEF ForkRun
<1>01. /\ cproc[c] \in Slots /\ prio[cproc[c]] \in Levels /\ state[cproc[c]] = "RUNNING"
       /\ child[c] \in Slots /\ state[child[c]] = "EMBRYO"
  <2>1. cproc[c] \in Slots /\ state[cproc[c]] = "RUNNING"
    BY <1>0, OnCpu DEF TypeOK
  <2>2. child[c] \in Slots /\ state[child[c]] = "EMBRYO"
    BY <1>0 DEF TypeOK, ForkChild
  <2> QED
    BY <2>1, <2>2 DEF TypeOK
<1>02. state' = [state EXCEPT ![child[c]] = "RUNNABLE"]
  BY <1>0 DEF MakeRunnable
<1>03. prioque' \in [Levels -> Seq(Slots)] /\ RunQueueExact'
  <2>1. prio'[child[c]] = prio[cproc[c]] /\ \A q \in Slots : q # child[c] => prio'[q] = prio[q]
    BY <1>0, <1>01 DEF TypeOK
  <2> QED
    BY <1>0, <1>01, <2>1, RunPush DEF TypeOK
<1>1. TypeOK'
  BY <1>0, <1>01, <1>02, <1>03 DEF TypeOK, ProcStates
<1>2. LockDiscipline'
  BY <1>0, <1>01, <1>02 DEF TypeOK, LockDiscipline
<1>3. CpuProcess'
  BY <1>0, <1>01, <1>02 DEF TypeOK, LockDiscipline, CpuProcess, ForkChild, NULL
<1>4. ContextSaved'
  BY <1>0, <1>01, <1>02 DEF TypeOK, LockDiscipline, CpuProcess, ContextSaved, ForkChild, NULL
<1>5. ForkChild'
  BY <1>0, <1>01, <1>02 DEF TypeOK, LockDiscipline, CpuProcess, ForkChild, NULL
<1>6. RunQueueExact'
  BY <1>03
<1>7. SleepQueueExact'
  BY <1>0, <1>01, <1>02, SleepKept DEF TypeOK, CpuProcess, ForkChild, NULL
<1> QED
  BY <1>1, <1>2, <1>3, <1>4, <1>5, <1>6, <1>7

\* scheduler() switches to the front process of a run queue.
LEMMA SchedDispatchInv ==
    ASSUME IInv, NEW c \in CPUs, SchedDispatch(c)
    PROVE  IInv'
<1>0. PICK l \in Levels :
       /\ prioque[l] # <<>>
       /\ cproc' = [cproc EXCEPT ![c] = Head(prioque[l])]
       /\ state' = [state EXCEPT ![Head(prioque[l])] = "RUNNING"]
       /\ prioque' = [prioque EXCEPT ![l] = Tail(@)]
       /\ Goto(c, ctx[Head(prioque[l])])
       /\ ctx' = [ctx EXCEPT ![Head(prioque[l])] = "none"]
  BY DEF SchedDispatch
<1> DEFINE p == Head(prioque[l])
<1>01. /\ cpc[c] = "pick"
       /\ UNCHANGED <<pid, parent, chan, prio, nextpid, kmemheld, hashmp, ptablelock, wch, child>>
  BY DEF SchedDispatch
<1>02. prioque[l] \in Seq(Slots)
  BY DEF TypeOK
<1>03. /\ p \in Slots /\ IsIn(p, prioque[l]) /\ Tail(prioque[l]) \in Seq(Slots)
       /\ NoDup(prioque[l]) =>
            /\ NoDup(Tail(prioque[l]))
            /\ \A q \in Slots : IsIn(q, Tail(prioque[l])) <=> IsIn(q, prioque[l]) /\ q # p
  BY <1>0, <1>02, PopFront
<1>04. state[p] = "RUNNABLE"
  BY <1>03 DEF RunQueueExact
<1>05. \A d \in CPUs : cproc[d] # p
  <2>1. \A d \in CPUs : d # c => cpc[d] \notin Locked
    BY <1>01 DEF LockDiscipline, TypeOK
  <2>2. cproc[c] = NULL
    BY <1>01 DEF CpuProcess
  <2>3. p # NULL
    BY <1>03 DEF Slots, NULL
  <2> QED
    BY <1>04, <2>1, <2>2, <2>3, OffLockRuns
<1>06. ctx[p] \in {"forkret", "yield_ret", "sleep_ret", "wait_ret"}
  BY <1>03, <1>04, <1>05 DEF ContextSaved
<1>07. p # NULL
  BY <1>03 DEF Slots, NULL
<1> HIDE DEF p
<1>08. /\ cproc' = [cproc EXCEPT ![c] = p]
       /\ state' = [state EXCEPT ![p] = "RUNNING"]
       /\ ctx' = [ctx EXCEPT ![p] = "none"]
       /\ Goto(c, ctx[p])
  BY <1>0 DEF p
<1>09. \E at \in {"forkret", "yield_ret", "sleep_ret", "wait_ret"} : Goto(c, at)
  BY <1>06, <1>08
<1>10. prioque' \in [Levels -> Seq(Slots)]
  BY <1>0, <1>03 DEF TypeOK
<1>1. TypeOK'
  <2>1. /\ cproc' \in [CPUs -> Slots \cup {NULL}] /\ state' \in [Slots -> ProcStates]
        /\ ctx' \in [Slots -> Contexts]
    BY <1>03, <1>08 DEF TypeOK, ProcStates, Contexts
  <2>2. cpc' \in [CPUs -> Locked \cup Unlocked]
    BY <1>09 DEF TypeOK
  <2> QED
    BY <1>01, <1>10, <2>1, <2>2 DEF TypeOK
<1>2. LockDiscipline'
  BY <1>01, <1>03, <1>04, <1>05, <1>07, <1>08, <1>09 DEF TypeOK, LockDiscipline
<1>3. CpuProcess'
  BY <1>01, <1>03, <1>04, <1>05, <1>07, <1>08, <1>09
     DEF TypeOK, LockDiscipline, CpuProcess, ForkChild, NULL
<1>4. ContextSaved'
  <2>1. ASSUME NEW q \in Slots, q # p
        PROVE  /\ state'[q] = state[q] /\ ctx'[q] = ctx[q]
               /\ \A d \in CPUs : cproc[d] = q => d # c /\ cproc'[d] = q /\ cpc'[d] = cpc[d]
    <3>1. cproc[c] = NULL /\ q # NULL
      BY <1>01 DEF CpuProcess, Slots, NULL
    <3> QED
      BY <1>08, <2>1, <3>1 DEF TypeOK
  <2>2. state'[p] = "RUNNING"
    BY <1>03, <1>08 DEF TypeOK
  <2> QED
    BY <2>1, <2>2 DEF ContextSaved
<1>5. ForkChild'
  BY <1>01, <1>03, <1>04, <1>05, <1>07, <1>08, <1>09
     DEF TypeOK, LockDiscipline, CpuProcess, ForkChild, NULL
<1>6. RunQueueExact'
  <2> SUFFICES ASSUME NEW m \in Levels
               PROVE  /\ NoDup(prioque'[m])
                      /\ \A q \in Slots : IsIn(q, prioque'[m]) <=>
                                              state'[q] = "RUNNABLE" /\ prio'[q] = m
    BY DEF RunQueueExact
  <2>1. \A q \in Slots : state'[q] = (IF q = p THEN "RUNNING" ELSE state[q]) /\ prio'[q] = prio[q]
    BY <1>01, <1>08 DEF TypeOK
  <2>2. NoDup(prioque[m])
    BY DEF RunQueueExact
  <2>3. \A q \in Slots : IsIn(q, prioque[m]) <=> state[q] = "RUNNABLE" /\ prio[q] = m
    BY DEF RunQueueExact
  <2>4. CASE m = l
    <3>1. prioque'[m] = Tail(prioque[m])
      BY <1>0, <2>4 DEF TypeOK
    <3>2. /\ NoDup(Tail(prioque[m]))
          /\ \A q \in Slots : IsIn(q, Tail(prioque[m])) <=> IsIn(q, prioque[m]) /\ q # p
      BY <1>03, <2>2, <2>4
    <3> QED
      BY <2>1, <2>3, <3>1, <3>2
  <2>5. CASE m # l
    <3>1. prioque'[m] = prioque[m]
      BY <1>0, <2>5 DEF TypeOK
    <3>2. prio[p] = l
      BY <1>03 DEF RunQueueExact
    <3> QED
      BY <2>1, <2>2, <2>3, <2>5, <3>1, <3>2
  <2> QED
    BY <2>4, <2>5
<1>7. SleepQueueExact'
  BY <1>01, <1>03, <1>04, <1>05, <1>07, <1>08, <1>09, SleepKept
     DEF TypeOK, CpuProcess, ForkChild, NULL
<1> QED
  BY <1>1, <1>2, <1>3, <1>4, <1>5, <1>6, <1>7

\* wakeup1() takes a process off its sleep queue and makes it RUNNABLE.
LEMMA WakeOneInv ==
    ASSUME IInv, NEW c \in CPUs, WakeOne(c)
    PROVE  IInv'
<1> DEFINE b == Hash[wch[c]]
<1>0. PICK i \in 1..Len(hashmp[b]) :
       /\ chan[hashmp[b][i]] = wch[c] /\ state[hashmp[b][i]] = "SLEEPING"
       /\ MakeRunnable(hashmp[b][i], prio[hashmp[b][i]])
       /\ chan' = [chan EXCEPT ![hashmp[b][i]] = NULL]
       /\ hashmp' = [hashmp EXCEPT ![b] = list_delete(@, i)]
  BY DEF WakeOne, Matches, BucketIndices
<1> DEFINE p == hashmp[b][i]
<1>01. UNCHANGED <<pid, parent, prio, ctx, nextpid, kmemheld, ptablelock, cproc, cpc, wch, child>>
  BY DEF WakeOne
<1>02. b \in Buckets /\ hashmp[b] \in Seq(Slots)
  BY DEF TypeOK
<1>03. p \in Slots /\ prio[p] \in Levels
  BY <1>02 DEF TypeOK
<1>04. /\ list_delete(hashmp[b], i) \in Seq(Slots)
       /\ NoDup(hashmp[b]) =>
            /\ NoDup(list_delete(hashmp[b], i))
            /\ \A q \in Slots : IsIn(q, list_delete(hashmp[b], i)) <=> IsIn(q, hashmp[b]) /\ q # p
  BY <1>02, Delete
<1>05. /\ state[p] = "SLEEPING" /\ Hash[chan[p]] = b
       /\ state' = [state EXCEPT ![p] = "RUNNABLE"] /\ chan' = [chan EXCEPT ![p] = NULL]
  BY <1>0 DEF MakeRunnable
<1>06. prioque' \in [Levels -> Seq(Slots)] /\ RunQueueExact'
  BY <1>0, <1>01, <1>03, RunPush DEF TypeOK
<1>07. hashmp' \in [Buckets -> Seq(Slots)]
  BY <1>0, <1>02, <1>04 DEF TypeOK
<1>08. \A d \in CPUs : cproc[d] = p => cpc[d] \notin Locked \/ d = c
  BY DEF LockDiscipline, TypeOK, WakeOne, InWakeup1
<1>09. cpc[c] \in {"wakeup", "exit1", "exit2"}
  BY DEF WakeOne, InWakeup1
<1>10. \A d \in CPUs : cproc[d] # p
  <2>1. state[cproc[c]] = "RUNNING"
    BY <1>09 DEF CpuProcess
  <2>2. p # NULL
    BY <1>03 DEF Slots, NULL
  <2> QED
    BY <1>05, <1>08, <2>1, <2>2, OffLockRuns
<1> HIDE DEF p, b
<1>11. ctx[p] \in {"sleep_ret", "wait_ret"}
  BY <1>03, <1>05, <1>10 DEF ContextSaved
<1>1. TypeOK'
  BY <1>01, <1>03, <1>05, <1>06, <1>07 DEF TypeOK, ProcStates
<1>2. LockDiscipline'
  BY <1>01, <1>03, <1>05, <1>10, <1>11 DEF TypeOK, LockDiscipline
<1>3. CpuProcess'
  BY <1>01, <1>03, <1>05, <1>10, <1>11 DEF TypeOK, LockDiscipline, CpuProcess, ForkChild, NULL
<1>4. ContextSaved'
  BY <1>01, <1>03, <1>05, <1>10, <1>11
     DEF TypeOK, LockDiscipline, CpuProcess, ContextSaved, ForkChild, NULL
<1>5. ForkChild'
  BY <1>01, <1>03, <1>05, <1>10, <1>11 DEF TypeOK, LockDiscipline, CpuProcess, ForkChild, NULL
<1>6. RunQueueExact'
  BY <1>06
<1>7. SleepQueueExact'
  <2> SUFFICES ASSUME NEW m \in Buckets
               PROVE  /\ NoDup(hashmp'[m])
                      /\ \A q \in Slots : IsIn(q, hashmp'[m]) <=>
                                              state'[q] = "SLEEPING" /\ Hash[chan'[q]] = m
    BY DEF SleepQueueExact
  <2>1. \A q \in Slots : /\ state'[q] = IF q = p THEN "RUNNABLE" ELSE state[q]
                         /\ q # p => chan'[q] = chan[q]
    BY <1>05 DEF TypeOK
  <2>2. NoDup(hashmp[m])
    BY DEF SleepQueueExact
  <2>3. \A q \in Slots : IsIn(q, hashmp[m]) <=> state[q] = "SLEEPING" /\ Hash[chan[q]] = m
    BY DEF SleepQueueExact
  <2>4. CASE m = b
    <3>1. hashmp'[m] = list_delete(hashmp[m], i)
      BY <1>0, <1>02, <2>4 DEF TypeOK, b
    <3>2. /\ NoDup(list_delete(hashmp[m], i))
          /\ \A q \in Slots : IsIn(q, list_delete(hashmp[m], i)) <=> IsIn(q, hashmp[m]) /\ q # p
      BY <1>04, <2>2, <2>4
    <3>3. \A q \in Slots : state'[q] = "SLEEPING" /\ Hash[chan'[q]] = m
                            <=> state[q] = "SLEEPING" /\ Hash[chan[q]] = m /\ q # p
      BY <2>1
    <3> QED
      BY <2>3, <3>1, <3>2, <3>3
  <2>5. CASE m # b
    <3>1. hashmp'[m] = hashmp[m]
      BY <1>0, <2>5 DEF TypeOK, b
    <3>2. \A q \in Slots : state'[q] = "SLEEPING" /\ Hash[chan'[q]] = m
                            <=> state[q] = "SLEEPING" /\ Hash[chan[q]] = m
      BY <1>05, <2>1, <2>5
    <3> QED
      BY <2>2, <2>3, <3>1, <3>2
  <2> QED
    BY <2>4, <2>5
<1> QED
  BY <1>1, <1>2, <1>3, <1>4, <1>5, <1>6, <1>7

\* sched(): the process saves its context, the CPU goes back to scheduler().
LEMMA SwitchOutInv ==
    ASSUME IInv, NEW c \in CPUs, NEW at, NEW resume,
           <<at, resume>> \in {<<"yield_sw", "yield_ret">>, <<"sleep_sw", "sleep_ret">>,
                              <<"wait_sw", "wait_ret">>, <<"exit_sw", "exit_ret">>},
           SwitchOut(c, at, resume)
    PROVE  IInv'
<1> USE DEF SwitchOut
<1>0. /\ cpc[c] \in {"yield_sw", "sleep_sw", "wait_sw", "exit_sw"}
      /\ cpc' = [cpc EXCEPT ![c] = "post"]
      /\ UNCHANGED <<tableVars, nextpid, kmemheld, queueVars, ptablelock, cproc, wch, child>>
  OBVIOUS
<1>01. cproc[c] \in Slots
  BY <1>0, OnCpu DEF TypeOK
<1>02. /\ state[cproc[c]] = "RUNNABLE" => resume = "yield_ret"
       /\ state[cproc[c]] = "SLEEPING" => resume \in {"sleep_ret", "wait_ret"}
       /\ state[cproc[c]] \in {"RUNNABLE", "SLEEPING", "ZOMBIE"}
  BY DEF CpuProcess
<1>03. ctx' = [ctx EXCEPT ![cproc[c]] = resume] /\ resume \in Contexts
  BY DEF Contexts
<1> HIDE DEF SwitchOut
<1>1. TypeOK'
  BY <1>0, <1>01, <1>03 DEF TypeOK
<1>2. LockDiscipline'
  BY <1>0, <1>01, <1>02 DEF TypeOK, LockDiscipline
<1>3. CpuProcess'
  BY <1>0, <1>01, <1>02 DEF TypeOK, LockDiscipline, CpuProcess, ForkChild, NULL
<1>4. ContextSaved'
  <2>1. ASSUME NEW q \in Slots, q # cproc[c]
        PROVE  ctx'[q] = ctx[q] /\ \A d \in CPUs : cproc[d] = q => cproc'[d] = q /\ cpc'[d] = cpc[d]
    BY <1>0, <1>01, <1>03, <2>1 DEF TypeOK
  <2>2. ctx'[cproc[c]] = resume
    BY <1>01, <1>03 DEF TypeOK
  <2> QED
    BY <1>0, <1>01, <1>02, <2>1, <2>2 DEF ContextSaved
<1>5. ForkChild'
  <2>1. \A q \in Slots : q # cproc[c] => ctx'[q] = ctx[q]
    BY <1>01, <1>03 DEF TypeOK
  <2>2. ASSUME NEW d \in CPUs, child[d] # NULL PROVE child[d] \in Slots /\ child[d] # cproc[c]
    BY <1>02, <2>2 DEF TypeOK, ForkChild
  <2> QED
    BY <1>0, <2>1, <2>2 DEF TypeOK, ForkChild, NULL
<1>6. RunQueueExact'
  BY <1>0, <1>01, <1>02, RunKept DEF TypeOK, CpuProcess, ForkChild, NULL
<1>7. SleepQueueExact'
  BY <1>0, <1>01, <1>02, SleepKept DEF TypeOK, CpuProcess, ForkChild, NULL
<1> QED
  BY <1>1, <1>2, <1>3, <1>4, <1>5, <1>6, <1>7

\* Every step of the specification preserves the invariant.
LEMMA NextIInv == IInv /\ [ProcNext]_procVars => IInv'
<1> SUFFICES ASSUME IInv, [ProcNext]_procVars PROVE IInv'
  OBVIOUS
<1>1. CASE UNCHANGED procVars
  <2> USE <1>1 DEF procVars
  <2>1. TypeOK' /\ LockDiscipline'
    BY DEF TypeOK, LockDiscipline
  <2>2. CpuProcess' /\ ContextSaved' /\ ForkChild'
    BY DEF CpuProcess, ContextSaved, ForkChild
  <2>3. RunQueueExact' /\ SleepQueueExact'
    BY DEF RunQueueExact, SleepQueueExact, NoDup, IsIn
  <2> QED
    BY <2>1, <2>2, <2>3
<1>2. ASSUME NEW c \in CPUs, KernelStep(c) PROVE IInv'
  <2>1. CASE sched(c)
    BY <2>1, SwitchOutInv DEF sched
  <2> QED
    BY <1>2, <2>1, SchedAcquireInv, SchedIdleInv, SchedDispatchInv, SchedReturnInv, forkretInv,
       YieldRetInv, YieldAcquireInv, YieldBodyInv, SleepBodyInv, SleepRetInv, WakeOneInv,
       WakeupDoneInv, ForkCopyInv, ForkCopyFailsInv, ForkRunInv, WaitReapInv, WaitHangsInv,
       WaitNoneInv, WaitSleepInv,
       WaitRetInv, ExitReparentInv, ExitWokeInitInv, ExitZombieInv
       DEF KernelStep
<1>3. ASSUME NEW c \in CPUs, SystemCall(c) PROVE IInv'
  BY <1>3, ForkAllocInv, ForkNoMemoryInv, ForkHangsInv, ForkNoSlotInv, CallNoMemoryInv, CallHangsInv,
     WaitEnterInv, ExitEnterInv, SleepEnterInv, WakeupEnterInv
     DEF SystemCall
<1>4. ASSUME NEW c \in CPUs, Timer(c) PROVE IInv'
  BY <1>4, TimerInv
<1> QED
  BY <1>1, <1>2, <1>3, <1>4 DEF ProcNext

-----------------------------------------------------------------------------
(* The theorems, for every number of CPUs, processes, queues and channels. *)

\* The invariant holds in every reachable state of the process table.
THEOREM SpecIInv == ProcSpec => []IInv
<1> QED
  BY InitIInv, NextIInv, PTL DEF ProcSpec

\* Every field, queue and control point keeps its type: in particular the
\* queues only ever hold processes of the table.
THEOREM SpecTypeOK == ProcSpec => []TypeOK
<1>1. IInv => TypeOK
  BY DEF IInv
<1> QED
  BY <1>1, SpecIInv, PTL

\* ptablelock is held exactly by the CPU that is in a critical section of
\* proc.c, although swtch() moves it from one stack to another.
THEOREM SpecLockDiscipline == ProcSpec => []LockDiscipline
<1>1. IInv => LockDiscipline
  OBVIOUS
<1> QED
  BY <1>1, SpecIInv, PTL

\* The run queues hold the RUNNABLE processes and the hash buckets the SLEEPING
\* ones, each exactly once: no wakeup, yield, fork or dispatch loses a process.
THEOREM SpecQueuesExact == ProcSpec => []QueuesExact
<1>1. IInv => QueuesExact
  BY DEF QueuesExact
<1> QED
  BY <1>1, SpecIInv, PTL

\* No two CPUs ever run on one kernel stack, and scheduler() never switches to
\* a process whose registers have not been saved.
THEOREM SpecKernelStackExclusive == ProcSpec => []KernelStackExclusive
<1>1. ASSUME IInv PROVE KernelStackExclusive
  <2> USE <1>1, CpuAssumption, SizeAssumption
  <2>1. \A c, d \in CPUs : c # d /\ cproc[c] # NULL => cproc[c] # cproc[d]
    BY DEF CpuProcess
  <2>2. ASSUME NEW c \in CPUs, cproc[c] # NULL PROVE state[cproc[c]] \notin {"UNUSED", "EMBRYO"}
    BY <2>2, ZenonT(60) DEF CpuProcess, TypeOK
  <2>3. ASSUME NEW p \in Slots, state[p] = "RUNNABLE", ptablelock = NoCpu PROVE ctx[p] # "none"
    <3>1. \A c \in CPUs : cpc[c] # "yield_sw"
      BY <2>3 DEF LockDiscipline
    <3> QED
      BY <2>3, <3>1 DEF ContextSaved
  <2> QED
    BY <2>1, <2>2, <2>3 DEF KernelStackExclusive
<1> QED
  BY <1>1, SpecIInv, PTL
-----------------------------------------------------------------------------
(* Parents and children: what wait() and exit() rely on.                   *)

\* p is in the sleep() of wait().
AsleepInWait(p) == p \in Slots /\ state[p] = "SLEEPING" /\ chan[p] = p

\* initproc is never free and has no parent, so it is never reaped.
InitAlive == state[initproc] \notin {"UNUSED", "EMBRYO"} /\ parent[initproc] = NULL

\* No process is its own child, and a free slot is nobody's child.
Orphans == \A q \in Slots : parent[q] # q /\ (state[q] = "UNUSED" => parent[q] = NULL)

\* What CPU c knows at the control points of sleep(), fork() and exit(): in
\* exit() the children are gone once wakeup1(p->parent) is done, and from then
\* on the parent is awake.
KnowsAt(c) ==
    /\ cpc[c] = "sleep" => wch[c] \in KChans
    /\ cpc[c] = "fork"  => parent[child[c]] = NULL
    /\ cpc[c] = "exit1" => wch[c] = parent[cproc[c]]
    /\ cpc[c] = "exit2" => wch[c] = initproc
    /\ cpc[c] \in {"exit2", "exit3"} =>
         /\ \A q \in Slots : parent[q] = cproc[c] => cproc[c] = initproc
         /\ ~ AsleepInWait(parent[cproc[c]])

\* The inductive invariant of the process family, relative to IInv.
FInv == InitAlive /\ Orphans /\ ParentAlive /\ NoLostWait /\ \A c \in CPUs : KnowsAt(c)

\* The initial state: nobody has a parent.
LEMMA InitFInv == ProcInit => FInv
<1> SUFFICES ASSUME ProcInit PROVE FInv
  OBVIOUS
<1>1. initproc \in Slots /\ initproc \in Booted
  BY DEF initproc, Slots, Booted
<1>2. InitAlive /\ Orphans /\ ParentAlive
  BY <1>1 DEF ProcInit, InitAlive, Orphans, ParentAlive, NULL, Slots
<1>3. NoLostWait
  BY DEF ProcInit, NoLostWait
<1>4. \A c \in CPUs : KnowsAt(c)
  BY DEF ProcInit, KnowsAt
<1> QED
  BY <1>2, <1>3, <1>4 DEF FInv

\* wakeup1() has passed its whole bucket: nobody sleeps on its channel.
LEMMA NoneAsleep ==
    ASSUME IInv, NEW c \in CPUs, NoneLeft(c)
    PROVE  \A p \in Slots : ~ (state[p] = "SLEEPING" /\ chan[p] = wch[c])
<1> SUFFICES ASSUME NEW p \in Slots, state[p] = "SLEEPING", chan[p] = wch[c] PROVE FALSE
  OBVIOUS
<1>1. Hash[wch[c]] \in Buckets
  BY DEF TypeOK
<1>2. IsIn(p, hashmp[Hash[wch[c]]])
  BY <1>1 DEF SleepQueueExact
<1> PICK i \in BucketIndices(wch[c]) : hashmp[Hash[wch[c]]][i] = p
  BY <1>2 DEF IsIn, BucketIndices
<1> QED
  BY DEF NoneLeft, Matches

\* Only one CPU is between taking and releasing ptablelock.
LEMMA OneInside ==
    ASSUME IInv, NEW c \in CPUs, NEW d \in CPUs, cpc[c] \in Locked, cpc[d] \in Locked
    PROVE  c = d
  BY DEF LockDiscipline

\* How a step may change the state of a process without anyone being born,
\* exiting or being reaped.
LiveStep(q) ==
    \/ state'[q] = state[q]
    \/ state[q] \notin {"ZOMBIE", "UNUSED"} /\ state'[q] \in {"RUNNABLE", "RUNNING", "SLEEPING"}
    \/ state[q] = "UNUSED" /\ state'[q] = "EMBRYO"

\* A step of CPU c that leaves the parents alone, puts nobody to sleep in
\* wait(), and makes no process a ZOMBIE or free.
LEMMA FamilyKept ==
    ASSUME IInv, FInv, NEW c \in CPUs, parent' = parent,
           \A q \in Slots : LiveStep(q),
           \A q \in Slots : AsleepInWait(q)' => AsleepInWait(q),
           \A d \in CPUs : d # c => /\ cpc'[d] = cpc[d] /\ wch'[d] = wch[d]
                                    /\ cproc'[d] = cproc[d] /\ child'[d] = child[d],
           cpc[c] = "exit2" => cpc'[c] = "exit2" /\ wch'[c] = wch[c],
           KnowsAt(c)'
    PROVE  FInv'
<1>0. initproc \in Slots
  BY DEF initproc, Slots
<1>1. InitAlive'
  BY <1>0 DEF FInv, InitAlive, LiveStep
<1>2. Orphans'
  BY DEF FInv, Orphans, LiveStep
<1>3. ParentAlive'
  <2> SUFFICES ASSUME NEW p \in Slots, parent[p] # NULL
               PROVE  /\ state'[parent[p]] \notin {"UNUSED", "EMBRYO"}
                      /\ state'[parent[p]] = "ZOMBIE" => parent[p] = initproc
    BY DEF ParentAlive
  <2>1. parent[p] \in Slots /\ LiveStep(parent[p])
    BY DEF TypeOK
  <2> QED
    BY <2>1 DEF FInv, ParentAlive, LiveStep
<1>4. NoLostWait'
  <2> SUFFICES ASSUME NEW p \in Slots, AsleepInWait(p)'
               PROVE  /\ Children(p)' # {}
                      /\ ZombieKids(p)' # {} => \E d \in CPUs : cpc'[d] = "exit2" /\ wch'[d] = p
    BY DEF NoLostWait, AsleepInWait
  <2>1. AsleepInWait(p) /\ Children(p)' = Children(p) /\ Children(p) # {}
    BY DEF FInv, NoLostWait, AsleepInWait, Children
  <2>2. ZombieKids(p)' \subseteq ZombieKids(p)
    BY <2>1 DEF ZombieKids, Children, LiveStep
  <2>3. ZombieKids(p) # {} => \E d \in CPUs : cpc[d] = "exit2" /\ wch[d] = p
    BY <2>1 DEF FInv, NoLostWait, AsleepInWait
  <2> QED
    BY <2>1, <2>2, <2>3
<1>5. ASSUME NEW d \in CPUs, d # c PROVE KnowsAt(d)'
  <2>1. cproc[d] = NULL \/ cproc[d] \in Slots
    BY DEF TypeOK
  <2>2. AsleepInWait(parent[cproc[d]])' => AsleepInWait(parent[cproc[d]])
    <3>1. CASE parent[cproc[d]] \in Slots
      BY <1>5, <3>1 DEF AsleepInWait
    <3>2. CASE parent[cproc[d]] \notin Slots
      BY <1>5, <3>2 DEF AsleepInWait
    <3> QED
      BY <3>1, <3>2
  <2> QED
    BY <1>5, <2>2 DEF FInv, KnowsAt, AsleepInWait
<1> QED
  BY <1>1, <1>2, <1>3, <1>4, <1>5 DEF FInv

\* Steps that change no state, channel or parent; c is not in wakeup1() of
\* exit(), and arrives at no point where it must know something new.
LEMMA QuietFInv ==
    ASSUME IInv, FInv, NEW c \in CPUs,
           UNCHANGED <<state, parent, chan>>,
           \A d \in CPUs : d # c => /\ cpc'[d] = cpc[d] /\ wch'[d] = wch[d]
                                    /\ cproc'[d] = cproc[d] /\ child'[d] = child[d],
           cpc[c] # "exit2", KnowsAt(c)'
    PROVE  FInv'
<1>1. \A q \in Slots : LiveStep(q) /\ (AsleepInWait(q)' => AsleepInWait(q))
  BY DEF LiveStep, AsleepInWait
<1> QED
  BY <1>1, FamilyKept

\* scheduler(), swtch(), and the beginning and the end of the operations.
LEMMA PlainFInv ==
    ASSUME IInv, FInv, NEW c \in CPUs,
           \/ SchedAcquire(c) \/ SchedIdle(c) \/ SchedReturn(c) \/ sched(c) \/ forkret(c)
           \/ YieldRet(c) \/ Timer(c) \/ YieldAcquire(c) \/ WakeupDone(c)
           \/ ForkNoMemory(c) \/ ForkNoSlot(c) \/ WaitEnter(c) \/ WaitNone(c)
           \/ CallNoMemory(c) \/ CallHangs(c)
    PROVE  FInv'
<1>1. /\ UNCHANGED <<state, parent, chan>> /\ cpc[c] # "exit2"
      /\ cpc'[c] \notin {"sleep", "fork", "exit1", "exit2", "exit3"}
      /\ \A d \in CPUs : d # c => /\ cpc'[d] = cpc[d] /\ wch'[d] = wch[d]
                                  /\ cproc'[d] = cproc[d] /\ child'[d] = child[d]
  BY DEF TypeOK, SchedAcquire, SchedIdle, SchedReturn, sched, SwitchOut, forkret, YieldRet, ReturnFrom,
         Timer, YieldAcquire, WakeupDone, ForkNoMemory, ForkNoSlot, WaitEnter, WaitNone,
         CallNoMemory, CallHangs
<1>2. KnowsAt(c)'
  BY <1>1 DEF KnowsAt
<1> QED
  BY <1>1, <1>2, QuietFInv

\* sleep() and wakeup() are given an address of the kernel, exit() starts on
\* the channel of its parent.
LEMMA EnterFInv ==
    ASSUME IInv, FInv, NEW c \in CPUs,
           \/ ExitEnter(c)
           \/ \E ch \in KChans : SleepEnter(c, ch) \/ WakeupEnter(c, ch)
    PROVE  FInv'
<1>1. /\ UNCHANGED <<state, parent, chan, cproc>> /\ cpc[c] = "user"
      /\ \/ cpc'[c] = "exit1" /\ wch'[c] = parent[cproc[c]]
         \/ cpc'[c] = "sleep" /\ wch'[c] \in KChans
         \/ cpc'[c] = "wakeup"
      /\ \A d \in CPUs : d # c => /\ cpc'[d] = cpc[d] /\ wch'[d] = wch[d]
                                  /\ cproc'[d] = cproc[d] /\ child'[d] = child[d]
  BY DEF TypeOK, ExitEnter, SleepEnter, WakeupEnter
<1>2. KnowsAt(c)'
  BY <1>1 DEF KnowsAt
<1> QED
  BY <1>1, <1>2, QuietFInv

\* A process moves between running, run queue and a sleep queue.
LEMMA MoveFInv ==
    ASSUME IInv, FInv, NEW c \in CPUs,
           \/ SchedDispatch(c) \/ YieldBody(c) \/ SleepRet(c) \/ WaitRet(c) \/ ForkRun(c)
    PROVE  FInv'
<1>1. parent' = parent
  BY DEF SchedDispatch, YieldBody, SleepRet, WaitRet, ForkRun
<1>2. /\ cpc[c] # "exit2" /\ cpc'[c] \notin {"sleep", "fork", "exit1", "exit2", "exit3"}
      /\ \A d \in CPUs : d # c => /\ cpc'[d] = cpc[d] /\ wch'[d] = wch[d]
                                  /\ cproc'[d] = cproc[d] /\ child'[d] = child[d]
  <2>1. CASE SchedDispatch(c)
    <3> PICK l \in Levels : /\ prioque[l] # <<>> /\ Goto(c, ctx[Head(prioque[l])])
                            /\ cproc' = [cproc EXCEPT ![c] = Head(prioque[l])]
      BY <2>1 DEF SchedDispatch
    <3>1. Head(prioque[l]) \in Slots
      BY PopFront DEF TypeOK
    <3>2. ctx[Head(prioque[l])] \in Contexts
      BY <3>1 DEF TypeOK
    <3> QED
      BY <2>1, <3>2, SMTT(30) DEF SchedDispatch, TypeOK, Contexts
  <2> QED
    BY <2>1 DEF TypeOK, YieldBody, SleepRet, WaitRet, ForkRun
<1>3. KnowsAt(c)'
  BY <1>2 DEF KnowsAt
<1>4. ASSUME NEW q \in Slots PROVE LiveStep(q) /\ (AsleepInWait(q)' => AsleepInWait(q))
  <2>1. CASE SchedDispatch(c)
    <3> PICK l \in Levels : prioque[l] # <<>> /\ state' = [state EXCEPT ![Head(prioque[l])] = "RUNNING"]
      BY <2>1 DEF SchedDispatch
    <3>1. Head(prioque[l]) \in Slots /\ IsIn(Head(prioque[l]), prioque[l])
      BY PopFront DEF TypeOK
    <3>2. state[Head(prioque[l])] = "RUNNABLE"
      BY <3>1 DEF RunQueueExact
    <3> QED
      BY <2>1, <3>1, <3>2 DEF SchedDispatch, TypeOK, LiveStep, AsleepInWait
  <2>2. CASE YieldBody(c) \/ SleepRet(c) \/ WaitRet(c)
    <3>1. cproc[c] \in Slots /\ state[cproc[c]] = "RUNNING"
      BY <2>2, OnCpu DEF YieldBody, SleepRet, WaitRet
    <3> QED
      BY <2>2, <3>1 DEF YieldBody, SleepRet, WaitRet, MakeRunnable, TypeOK, LiveStep, AsleepInWait
  <2>3. CASE ForkRun(c)
    <3>1. child[c] \in Slots /\ state[child[c]] = "EMBRYO"
      BY <2>3 DEF ForkRun, ForkChild, TypeOK
    <3> QED
      BY <2>3, <3>1 DEF ForkRun, MakeRunnable, TypeOK, LiveStep, AsleepInWait
  <2> QED
    BY <2>1, <2>2, <2>3
<1> QED
  BY <1>1, <1>2, <1>3, <1>4, FamilyKept

\* sleep() on an address of the kernel is not the sleep() of wait().
LEMMA SleepBodyFInv ==
    ASSUME IInv, FInv, NEW c \in CPUs, SleepBody(c)
    PROVE  FInv'
<1>1. cproc[c] \in Slots /\ state[cproc[c]] = "RUNNING" /\ wch[c] \in KChans
  BY OnCpu DEF SleepBody, FInv, KnowsAt
<1>2. ASSUME NEW q \in Slots PROVE LiveStep(q) /\ (AsleepInWait(q)' => AsleepInWait(q))
  BY <1>1 DEF SleepBody, GoToSleep, TypeOK, LiveStep, AsleepInWait
<1>3. /\ parent' = parent /\ cpc[c] # "exit2" /\ cpc'[c] = "sleep_sw"
      /\ \A d \in CPUs : d # c => /\ cpc'[d] = cpc[d] /\ wch'[d] = wch[d]
                                  /\ cproc'[d] = cproc[d] /\ child'[d] = child[d]
  BY DEF SleepBody, GoToSleep, TypeOK
<1>4. KnowsAt(c)'
  BY <1>3 DEF KnowsAt
<1> QED
  BY <1>2, <1>3, <1>4, FamilyKept

\* wakeup1() wakes a process, in wakeup() or in exit().
LEMMA WakeOneFInv ==
    ASSUME IInv, FInv, NEW c \in CPUs, WakeOne(c)
    PROVE  FInv'
<1> PICK i \in BucketIndices(wch[c]) :
        /\ Matches(wch[c], i)
        /\ state' = [state EXCEPT ![hashmp[Hash[wch[c]]][i]] = "RUNNABLE"]
        /\ chan' = [chan EXCEPT ![hashmp[Hash[wch[c]]][i]] = NULL]
  BY DEF WakeOne, MakeRunnable
<1> DEFINE p == hashmp[Hash[wch[c]]][i]
<1>1. p \in Slots /\ state[p] = "SLEEPING"
  <2>1. hashmp[Hash[wch[c]]] \in Seq(Slots)
    BY DEF TypeOK
  <2> QED
    BY <2>1 DEF BucketIndices, Matches
<1>2. UNCHANGED <<parent, cpc, wch, cproc, child>>
  BY DEF WakeOne
<1>3. ASSUME NEW q \in Slots PROVE LiveStep(q) /\ (AsleepInWait(q)' => AsleepInWait(q))
  BY <1>1 DEF TypeOK, LiveStep, AsleepInWait
<1>4. KnowsAt(c)'
  <2>1. AsleepInWait(parent[cproc[c]])' => AsleepInWait(parent[cproc[c]])
    BY <1>2, <1>3 DEF AsleepInWait
  <2> QED
    BY <1>2, <2>1 DEF FInv, KnowsAt, AsleepInWait
<1> QED
  BY <1>2, <1>3, <1>4, FamilyKept

\* proc_alloc() takes a free slot, which has no parent.
LEMMA AllocFInv ==
    ASSUME IInv, FInv, NEW c \in CPUs, ForkAlloc(c) \/ ForkHangs(c)
    PROVE  FInv'
<1>0. \E s \in Slots : /\ state[s] = "UNUSED" /\ state' = [state EXCEPT ![s] = "EMBRYO"]
                       /\ cpc'[c] = "hang" \/ (cpc'[c] = "fork" /\ child'[c] = s)
                       /\ \A q \in Slots : q # s => chan'[q] = chan[q]
  <2>1. CASE ForkAlloc(c)
    <3> PICK s \in Slots : /\ FirstUnused(s) /\ state' = [state EXCEPT ![s] = "EMBRYO"]
                           /\ chan' = [chan EXCEPT ![s] = NULL]
                           /\ child' = [child EXCEPT ![c] = s]
      BY <2>1 DEF ForkAlloc
    <3>1. state[s] = "UNUSED" /\ cpc'[c] = "fork" /\ child'[c] = s
      BY <2>1 DEF ForkAlloc, FirstUnused, TypeOK
    <3>2. \A q \in Slots : q # s => chan'[q] = chan[q]
      BY DEF TypeOK
    <3> QED
      BY <3>1, <3>2
  <2>2. CASE ForkHangs(c)
    <3> PICK s \in Slots : FirstUnused(s) /\ state' = [state EXCEPT ![s] = "EMBRYO"]
      BY <2>2 DEF ForkHangs
    <3>1. state[s] = "UNUSED" /\ cpc'[c] = "hang" /\ chan' = chan
      BY <2>2 DEF ForkHangs, FirstUnused, TypeOK
    <3> QED
      BY <3>1
  <2> QED
    BY <2>1, <2>2
<1> PICK s \in Slots : /\ state[s] = "UNUSED" /\ state' = [state EXCEPT ![s] = "EMBRYO"]
                       /\ cpc'[c] = "hang" \/ (cpc'[c] = "fork" /\ child'[c] = s)
                       /\ \A q \in Slots : q # s => chan'[q] = chan[q]
  BY <1>0
<1>1. /\ parent' = parent /\ cpc[c] = "user"
      /\ \A d \in CPUs : d # c => /\ cpc'[d] = cpc[d] /\ wch'[d] = wch[d]
                                  /\ cproc'[d] = cproc[d] /\ child'[d] = child[d]
  <2>1. CASE ForkAlloc(c)
    <3> PICK t \in Slots : child' = [child EXCEPT ![c] = t]
      BY <2>1 DEF ForkAlloc
    <3> QED
      BY <2>1 DEF ForkAlloc, TypeOK
  <2>2. CASE ForkHangs(c)
    BY <2>2 DEF ForkHangs, TypeOK
  <2> QED
    BY <2>1, <2>2
<1>2. ASSUME NEW q \in Slots PROVE LiveStep(q) /\ (AsleepInWait(q)' => AsleepInWait(q))
  BY DEF TypeOK, LiveStep, AsleepInWait
<1>3. KnowsAt(c)'
  BY <1>1 DEF KnowsAt, FInv, Orphans
<1> QED
  BY <1>1, <1>2, <1>3, FamilyKept

\* fork() gives the slot it builds its parent, which is running.
LEMMA CopyFInv ==
    ASSUME IInv, FInv, NEW c \in CPUs, ForkCopy(c) \/ ForkCopyFails(c)
    PROVE  FInv'
<1> DEFINE s == child[c]
           f == cproc[c]
<1>1. /\ s \in Slots /\ state[s] = "EMBRYO" /\ f \in Slots /\ state[f] = "RUNNING" /\ parent[s] = NULL
      /\ parent' = [parent EXCEPT ![s] = f]
  <2>1. cpc[c] = "fork"
    BY DEF ForkCopy, ForkCopyFails
  <2>2. f \in Slots /\ state[f] = "RUNNING"
    BY <2>1, OnCpu
  <2>3. s \in Slots /\ state[s] = "EMBRYO" /\ parent[s] = NULL
    BY <2>1 DEF ForkChild, TypeOK, FInv, KnowsAt
  <2> QED
    BY <2>2, <2>3 DEF ForkCopy, ForkCopyFails
<1>2. UNCHANGED <<state, chan, cproc, wch>> /\ cpc[c] = "fork"
  BY DEF ForkCopy, ForkCopyFails
<1>3. cpc'[c] \in {"forkrun", "halt"} /\ \A d \in CPUs : d # c => cpc'[d] = cpc[d] /\ child'[d] = child[d]
  BY DEF ForkCopy, ForkCopyFails, TypeOK
<1>a. \A q \in Slots : parent'[q] = IF q = s THEN f ELSE parent[q]
  BY <1>1 DEF TypeOK
<1>0. initproc \in Slots /\ NULL \notin Slots
  BY DEF initproc, Slots, NULL
<1> HIDE DEF s, f
<1>4. InitAlive'
  BY <1>0, <1>1, <1>2, <1>a DEF FInv, InitAlive
<1>5. Orphans'
  BY <1>1, <1>2, <1>a DEF FInv, Orphans
<1>6. ParentAlive'
  BY <1>1, <1>2, <1>a DEF FInv, ParentAlive
<1>7. NoLostWait'
  <2> SUFFICES ASSUME NEW p \in Slots, state[p] = "SLEEPING", chan[p] = p
               PROVE  /\ Children(p)' # {}
                      /\ ZombieKids(p)' # {} => \E d \in CPUs : cpc'[d] = "exit2" /\ wch'[d] = p
    BY <1>2 DEF NoLostWait
  <2>1. Children(p)' = Children(p) /\ ZombieKids(p)' = ZombieKids(p)
    <3>1. Children(p)' = Children(p)
      BY <1>0, <1>1, <1>a DEF Children
    <3> QED
      BY <1>2, <3>1 DEF ZombieKids
  <2> QED
    BY <1>2, <1>3, <2>1 DEF FInv, NoLostWait
<1>8. ASSUME NEW d \in CPUs PROVE KnowsAt(d)'
  <2>1. CASE d = c
    BY <1>3, <2>1 DEF KnowsAt
  <2>2. CASE d # c
    <3>1. cpc'[d] = cpc[d] /\ child'[d] = child[d] /\ wch'[d] = wch[d] /\ cproc'[d] = cproc[d]
      BY <1>2, <1>3, <2>2
    <3>2. cpc[d] = "fork" => child[d] # s /\ child[d] \in Slots
      BY <1>2, <2>2 DEF ForkChild, TypeOK, s
    <3>3. cpc[d] \in {"exit1", "exit2", "exit3"} => cproc[d] \in Slots /\ cproc[d] # f /\ cproc[d] # s
      <4>1. cpc[d] \in {"exit1", "exit2", "exit3"} => cproc[d] \in Slots /\ state[cproc[d]] = "RUNNING"
        BY OnCpu
      <4> QED
        BY <1>1, <2>2, <4>1 DEF CpuProcess, TypeOK, f
    <3>4. \A q : AsleepInWait(q)' <=> AsleepInWait(q)
      BY <1>2 DEF AsleepInWait
    <3>5. KnowsAt(d)
      BY DEF FInv
    <3>6. cpc[d] \in {"exit2", "exit3"} => ~ AsleepInWait(parent[cproc[d]])'
      BY <1>2, <1>a, <3>3, <3>5 DEF KnowsAt, AsleepInWait
    <3> QED
      BY <1>a, <3>1, <3>2, <3>3, <3>5, <3>6 DEF KnowsAt
  <2> QED
    BY <2>1, <2>2
<1> QED
  BY <1>4, <1>5, <1>6, <1>7, <1>8 DEF FInv

\* wait() finds a ZOMBIE child: nobody's parent, and the child of a process
\* that is running.  cleanproc() takes its parent, and its slot unless it
\* hangs.
LEMMA ReapFInv ==
    ASSUME IInv, FInv, NEW c \in CPUs, WaitReap(c) \/ WaitHangs(c)
    PROVE  FInv'
<1> PICK z \in Slots : /\ FirstZombie(cproc[c], z)
                       /\ parent' = [parent EXCEPT ![z] = NULL]
                       /\ state' = state \/ state' = [state EXCEPT ![z] = "UNUSED"]
  BY DEF WaitReap, WaitHangs
<1>0. cpc[c] = "wait" /\ initproc \in Slots /\ NULL \notin Slots
  BY DEF WaitReap, WaitHangs, initproc, Slots, NULL
<1>1. cproc[c] \in Slots /\ state[cproc[c]] = "RUNNING"
  BY <1>0, OnCpu
<1>2. state[z] = "ZOMBIE" /\ parent[z] = cproc[c]
  BY DEF FirstZombie, ZombieKids, Children
<1>3. z # initproc /\ \A q \in Slots : parent[q] # z
  BY <1>0, <1>1, <1>2 DEF FInv, InitAlive, ParentAlive
<1>4. /\ UNCHANGED <<chan, cproc, wch, child>> /\ cpc'[c] \in {"user", "hang"}
      /\ \A d \in CPUs : d # c => cpc'[d] = cpc[d]
  BY DEF WaitReap, WaitHangs, TypeOK
<1>5. /\ \A q \in Slots : parent'[q] = IF q = z THEN NULL ELSE parent[q]
      /\ \A q \in Slots : q # z => state'[q] = state[q]
      /\ state'[z] \in {"ZOMBIE", "UNUSED"}
  BY <1>2 DEF TypeOK
<1>6. InitAlive'
  BY <1>0, <1>3, <1>5 DEF FInv, InitAlive
<1>7. Orphans'
  BY <1>0, <1>5 DEF FInv, Orphans
<1>8. ParentAlive'
  BY <1>3, <1>5 DEF FInv, ParentAlive, TypeOK
<1>9. NoLostWait'
  <2> SUFFICES ASSUME NEW p \in Slots, state'[p] = "SLEEPING", chan[p] = p
               PROVE  /\ Children(p)' # {}
                      /\ ZombieKids(p)' # {} => \E d \in CPUs : cpc'[d] = "exit2" /\ wch'[d] = p
    BY <1>4 DEF NoLostWait
  <2>1. p # z /\ state[p] = "SLEEPING" /\ p # cproc[c]
    BY <1>1, <1>5
  <2>2. Children(p)' = Children(p) /\ ZombieKids(p)' = ZombieKids(p)
    <3>1. Children(p)' = Children(p) /\ z \notin Children(p)
      BY <1>0, <1>2, <1>5, <2>1 DEF Children
    <3> QED
      BY <1>5, <3>1 DEF ZombieKids, Children
  <2> QED
    BY <1>0, <1>4, <2>1, <2>2 DEF FInv, NoLostWait
<1>10. ASSUME NEW d \in CPUs PROVE KnowsAt(d)'
  <2>1. CASE d = c
    BY <1>4, <2>1 DEF KnowsAt
  <2>2. CASE d # c
    <3>1. cpc'[d] = cpc[d] /\ cpc[d] \notin Locked
      BY <1>0, <1>4, <2>2, OneInside
    <3>2. cpc[d] = "fork" => child[d] \in Slots /\ state[child[d]] = "EMBRYO"
      BY DEF ForkChild, TypeOK
    <3> QED
      BY <1>2, <1>4, <1>5, <3>1, <3>2 DEF FInv, KnowsAt
  <2> QED
    BY <2>1, <2>2
<1> QED
  BY <1>6, <1>7, <1>8, <1>9, <1>10 DEF FInv

\* wait() goes to sleep: it has children, and none of them is a ZOMBIE.
LEMMA WaitSleepFInv ==
    ASSUME IInv, FInv, NEW c \in CPUs, WaitSleep(c)
    PROVE  FInv'
<1> DEFINE w == cproc[c]
<1>0. cpc[c] = "wait" /\ initproc \in Slots
  BY DEF WaitSleep, initproc, Slots
<1>1. w \in Slots /\ state[w] = "RUNNING"
  BY <1>0, OnCpu
<1>2. /\ UNCHANGED <<parent, cproc, wch, child>> /\ cpc'[c] = "wait_sw"
      /\ \A d \in CPUs : d # c => cpc'[d] = cpc[d]
      /\ \A q \in Slots : /\ state'[q] = IF q = w THEN "SLEEPING" ELSE state[q]
                          /\ q # w => chan'[q] = chan[q]
  BY DEF WaitSleep, GoToSleep, TypeOK
<1>3. Children(w) # {} /\ ZombieKids(w) = {}
  BY DEF WaitSleep
<1> HIDE DEF w
<1>4. InitAlive' /\ Orphans' /\ ParentAlive'
  BY <1>0, <1>1, <1>2 DEF FInv, InitAlive, Orphans, ParentAlive, TypeOK
<1>5. NoLostWait'
  <2> SUFFICES ASSUME NEW p \in Slots, state'[p] = "SLEEPING", chan'[p] = p
               PROVE  /\ Children(p)' # {}
                      /\ ZombieKids(p)' # {} => \E d \in CPUs : cpc'[d] = "exit2" /\ wch'[d] = p
    BY DEF NoLostWait
  <2>1. Children(p)' = Children(p) /\ ZombieKids(p)' = ZombieKids(p)
    BY <1>1, <1>2 DEF Children, ZombieKids
  <2> QED
    BY <1>0, <1>2, <1>3, <2>1 DEF FInv, NoLostWait
<1>6. ASSUME NEW d \in CPUs PROVE KnowsAt(d)'
  <2>1. CASE d = c
    BY <1>2, <2>1 DEF KnowsAt
  <2>2. CASE d # c
    <3>1. cpc'[d] = cpc[d] /\ cpc[d] \notin Locked
      BY <1>0, <1>2, <2>2, OneInside
    <3> QED
      BY <1>2, <3>1 DEF FInv, KnowsAt
  <2> QED
    BY <2>1, <2>2
<1> QED
  BY <1>4, <1>5, <1>6 DEF FInv

\* exit() hands its children over: if one of them is a ZOMBIE, initproc may be
\* asleep and has to be woken; the parent of the process has been.
LEMMA ExitReparentFInv ==
    ASSUME IInv, FInv, NEW c \in CPUs, ExitReparent(c)
    PROVE  FInv'
<1> DEFINE e == cproc[c]
<1>0. cpc[c] = "exit1" /\ initproc \in Slots /\ NULL \notin Slots
  BY DEF ExitReparent, initproc, Slots, NULL
<1>1. e \in Slots /\ state[e] = "RUNNING"
  BY <1>0, OnCpu
<1>2. /\ UNCHANGED <<state, chan, cproc, child>>
      /\ \A d \in CPUs : d # c => cpc'[d] = cpc[d] /\ wch'[d] = wch[d]
      /\ \/ cpc'[c] = "exit2" /\ wch'[c] = initproc
         \/ cpc'[c] = "exit3" /\ ZombieKids(e) = {}
  BY DEF ExitReparent, TypeOK
<1>3. \A q \in Slots : parent'[q] = IF parent[q] = e THEN initproc ELSE parent[q]
  BY DEF ExitReparent
<1>4. wch[c] = parent[e] /\ parent[e] # e
  BY <1>0, <1>1 DEF FInv, KnowsAt, Orphans
<1>5. ~ AsleepInWait(parent[e])
  BY <1>4, NoneAsleep DEF ExitReparent, AsleepInWait
<1> HIDE DEF e
<1>6. InitAlive' /\ Orphans'
  BY <1>0, <1>1, <1>2, <1>3 DEF FInv, InitAlive, Orphans
<1>7. ParentAlive'
  BY <1>0, <1>2, <1>3 DEF FInv, InitAlive, ParentAlive
<1>8. NoLostWait'
  <2> SUFFICES ASSUME NEW p \in Slots, state[p] = "SLEEPING", chan[p] = p
               PROVE  /\ Children(p)' # {}
                      /\ ZombieKids(p)' # {} => \E d \in CPUs : cpc'[d] = "exit2" /\ wch'[d] = p
    BY <1>2 DEF NoLostWait
  <2>1. p # e /\ Children(p) # {}
    BY <1>1 DEF FInv, NoLostWait
  <2>2. ZombieKids(p) = {}
    <3>1. \A d \in CPUs : cpc[d] # "exit2"
      BY <1>0, OneInside
    <3> QED
      BY <3>1 DEF FInv, NoLostWait
  <2>3. Children(p)' # {}
    BY <1>3, <2>1 DEF Children
  <2>4. ASSUME ZombieKids(p)' # {} PROVE cpc'[c] = "exit2" /\ wch'[c] = p
    <3> PICK z \in Slots : parent'[z] = p /\ state'[z] = "ZOMBIE"
      BY <2>4 DEF ZombieKids, Children
    <3>1. state[z] = "ZOMBIE" /\ parent[z] # p
      BY <1>2, <2>2 DEF ZombieKids, Children
    <3>2. p = initproc /\ parent[z] = e
      BY <1>3, <3>1
    <3>3. z \in ZombieKids(e)
      BY <3>1, <3>2 DEF ZombieKids, Children
    <3> QED
      BY <1>2, <3>2, <3>3
  <2> QED
    BY <2>3, <2>4
<1>9. ASSUME NEW d \in CPUs PROVE KnowsAt(d)'
  <2>1. CASE d = c
    <3>1. \A q \in Slots : parent'[q] = e => e = initproc
      BY <1>3
    <3>2. parent'[e] = parent[e]
      BY <1>1, <1>3, <1>4
    <3>3. ~ AsleepInWait(parent[e])'
      BY <1>2, <1>5, <3>2 DEF AsleepInWait, e
    <3>4. cproc'[c] = e
      BY <1>2 DEF e
    <3> QED
      BY <1>2, <2>1, <3>1, <3>3, <3>4 DEF KnowsAt, e
  <2>2. CASE d # c
    <3>1. cpc'[d] = cpc[d] /\ cpc[d] \notin Locked
      BY <1>0, <1>2, <2>2, OneInside
    <3>2. cpc[d] = "fork" => child[d] \in Slots
      BY DEF ForkChild, TypeOK
    <3> QED
      BY <1>0, <1>1, <1>2, <1>3, <3>1, <3>2 DEF FInv, KnowsAt
  <2> QED
    BY <2>1, <2>2
<1> QED
  BY <1>6, <1>7, <1>8, <1>9 DEF FInv

\* wakeup1(initproc) is done, so initproc is awake.
LEMMA ExitWokeInitFInv ==
    ASSUME IInv, FInv, NEW c \in CPUs, ExitWokeInit(c)
    PROVE  FInv'
<1>0. cpc[c] = "exit2" /\ initproc \in Slots
  BY DEF ExitWokeInit, initproc, Slots
<1>1. /\ UNCHANGED <<state, chan, parent, cproc, child>> /\ cpc'[c] = "exit3"
      /\ \A d \in CPUs : d # c => cpc'[d] = cpc[d] /\ wch'[d] = wch[d]
  BY DEF ExitWokeInit, TypeOK
<1>2. wch[c] = initproc
  BY <1>0 DEF FInv, KnowsAt
<1>3. ~ (state[initproc] = "SLEEPING" /\ chan[initproc] = initproc)
  BY <1>0, <1>2, NoneAsleep DEF ExitWokeInit
<1>4. InitAlive' /\ Orphans' /\ ParentAlive'
  BY <1>1 DEF FInv, InitAlive, Orphans, ParentAlive
<1>5. NoLostWait'
  <2> SUFFICES ASSUME NEW p \in Slots, state[p] = "SLEEPING", chan[p] = p
               PROVE  Children(p) # {} /\ ZombieKids(p) = {}
    BY <1>1 DEF NoLostWait, Children, ZombieKids
  <2>1. \A d \in CPUs : cpc[d] = "exit2" => d = c
    BY <1>0, OneInside
  <2> QED
    BY <1>2, <1>3, <2>1 DEF FInv, NoLostWait
<1>6. ASSUME NEW d \in CPUs PROVE KnowsAt(d)'
  <2>1. KnowsAt(d)
    BY DEF FInv
  <2> QED
    BY <1>0, <1>1, <2>1 DEF KnowsAt, AsleepInWait
<1> QED
  BY <1>4, <1>5, <1>6 DEF FInv

\* The process becomes a ZOMBIE: its children are gone and its parent is awake.
LEMMA ExitZombieFInv ==
    ASSUME IInv, FInv, NEW c \in CPUs, ExitZombie(c)
    PROVE  FInv'
<1> DEFINE e == cproc[c]
<1>0. cpc[c] = "exit3" /\ initproc \in Slots
  BY DEF ExitZombie, initproc, Slots
<1>1. e \in Slots /\ state[e] = "RUNNING"
  BY <1>0, OnCpu
<1>2. /\ UNCHANGED <<chan, parent, cproc, child, wch>> /\ cpc'[c] = "exit_sw"
      /\ \A d \in CPUs : d # c => cpc'[d] = cpc[d]
      /\ \A q \in Slots : state'[q] = IF q = e THEN "ZOMBIE" ELSE state[q]
  BY DEF ExitZombie, TypeOK
<1>3. (\A q \in Slots : parent[q] = e => e = initproc) /\ ~ AsleepInWait(parent[e])
  BY <1>0 DEF FInv, KnowsAt
<1> HIDE DEF e
<1>4. InitAlive' /\ Orphans'
  BY <1>0, <1>1, <1>2 DEF FInv, InitAlive, Orphans
<1>5. ParentAlive'
  BY <1>2, <1>3 DEF FInv, ParentAlive, TypeOK
<1>6. NoLostWait'
  <2> SUFFICES ASSUME NEW p \in Slots, state'[p] = "SLEEPING", chan[p] = p
               PROVE  /\ Children(p)' # {}
                      /\ ZombieKids(p)' # {} => \E d \in CPUs : cpc'[d] = "exit2" /\ wch'[d] = p
    BY <1>2 DEF NoLostWait
  <2>1. state[p] = "SLEEPING" /\ p # e /\ parent[e] # p
    BY <1>2, <1>3 DEF AsleepInWait
  <2>2. Children(p)' = Children(p) /\ ZombieKids(p)' = ZombieKids(p)
    BY <1>2, <2>1 DEF Children, ZombieKids
  <2> QED
    BY <1>0, <1>2, <2>1, <2>2 DEF FInv, NoLostWait
<1>7. ASSUME NEW d \in CPUs PROVE KnowsAt(d)'
  <2>1. CASE d = c
    BY <1>2, <2>1 DEF KnowsAt
  <2>2. CASE d # c
    <3>1. cpc'[d] = cpc[d] /\ cpc[d] \notin Locked
      BY <1>0, <1>2, <2>2, OneInside
    <3> QED
      BY <1>2, <3>1 DEF FInv, KnowsAt
  <2> QED
    BY <2>1, <2>2
<1> QED
  BY <1>4, <1>5, <1>6, <1>7 DEF FInv

\* Every step preserves the invariant of the family.
LEMMA NextFInv == IInv /\ FInv /\ [ProcNext]_procVars => FInv'
<1> SUFFICES ASSUME IInv, FInv, [ProcNext]_procVars PROVE FInv'
  OBVIOUS
<1>1. CASE UNCHANGED procVars
  BY <1>1 DEF procVars, FInv, InitAlive, Orphans, ParentAlive, NoLostWait, Children, ZombieKids,
              KnowsAt, AsleepInWait
<1>2. ASSUME NEW c \in CPUs, KernelStep(c) PROVE FInv'
  BY <1>2, PlainFInv, MoveFInv, SleepBodyFInv, WakeOneFInv, CopyFInv, ReapFInv, WaitSleepFInv,
     ExitReparentFInv, ExitWokeInitFInv, ExitZombieFInv
     DEF KernelStep
<1>3. ASSUME NEW c \in CPUs, SystemCall(c) PROVE FInv'
  BY <1>3, PlainFInv, EnterFInv, AllocFInv DEF SystemCall
<1>4. ASSUME NEW c \in CPUs, Timer(c) PROVE FInv'
  BY <1>4, PlainFInv
<1> QED
  BY <1>1, <1>2, <1>3, <1>4 DEF ProcNext

\* The invariant of the family holds in every reachable state.
THEOREM SpecFInv == ProcSpec => []FInv
  BY InitFInv, NextFInv, SpecIInv, PTL DEF ProcSpec

\* exit() and wait() of proc.c: a parent asleep in wait() has children, and
\* whenever one of them is a ZOMBIE an exit() is about to wake the parent.
THEOREM SpecNoLostWait == ProcSpec => []NoLostWait
<1>1. FInv => NoLostWait
  BY DEF FInv
<1> QED
  BY <1>1, SpecFInv, PTL

\* p->parent is never a slot that has been freed: exit() reparents before the
\* process can be reaped.
THEOREM SpecParentAlive == ProcSpec => []ParentAlive
<1>1. FInv => ParentAlive
  BY DEF FInv
<1> QED
  BY <1>1, SpecFInv, PTL

\* A step that changes the state of a ZOMBIE is the cleanproc() of its parent.
LEMMA ZombieStep ==
    ASSUME IInv, NEW c \in CPUs, KernelStep(c) \/ SystemCall(c) \/ Timer(c),
           NEW z \in Slots, state[z] = "ZOMBIE"
    PROVE  \/ state'[z] = "ZOMBIE"
           \/ state'[z] = "UNUSED" /\ cproc[c] = parent[z] /\ cpc[c] = "wait"
<1>1. CASE WaitReap(c)
  <2> PICK q \in Slots : FirstZombie(cproc[c], q) /\ state' = [state EXCEPT ![q] = "UNUSED"]
    BY <1>1 DEF WaitReap
  <2>1. parent[q] = cproc[c] /\ cpc[c] = "wait"
    BY <1>1 DEF WaitReap, FirstZombie, ZombieKids, Children
  <2> QED
    BY <2>1 DEF TypeOK
<1>2. CASE SchedDispatch(c)
  <2> PICK l \in Levels : prioque[l] # <<>> /\ state' = [state EXCEPT ![Head(prioque[l])] = "RUNNING"]
    BY <1>2 DEF SchedDispatch
  <2>1. Head(prioque[l]) \in Slots /\ IsIn(Head(prioque[l]), prioque[l])
    BY PopFront DEF TypeOK
  <2>2. state[Head(prioque[l])] = "RUNNABLE"
    BY <2>1 DEF RunQueueExact
  <2> QED
    BY <2>1, <2>2 DEF TypeOK
<1>3. CASE WakeOne(c)
  <2> PICK i \in BucketIndices(wch[c]) :
          /\ Matches(wch[c], i)
          /\ state' = [state EXCEPT ![hashmp[Hash[wch[c]]][i]] = "RUNNABLE"]
    BY <1>3 DEF WakeOne, MakeRunnable
  <2> QED
    BY DEF TypeOK, Matches
<1>4. CASE YieldBody(c) \/ SleepBody(c) \/ WaitSleep(c) \/ ExitZombie(c)
  <2>1. cproc[c] \in Slots /\ state[cproc[c]] = "RUNNING"
    BY <1>4, OnCpu DEF YieldBody, SleepBody, WaitSleep, ExitZombie
  <2> QED
    BY <1>4, <2>1 DEF YieldBody, SleepBody, WaitSleep, ExitZombie, GoToSleep, MakeRunnable, TypeOK
<1>5. CASE ForkRun(c)
  <2>1. child[c] \in Slots /\ state[child[c]] = "EMBRYO"
    BY <1>5 DEF ForkRun, ForkChild, TypeOK
  <2> QED
    BY <1>5, <2>1 DEF ForkRun, MakeRunnable, TypeOK
<1>6. CASE ForkAlloc(c) \/ ForkHangs(c)
  <2>1. \E s \in Slots : FirstUnused(s) /\ state' = [state EXCEPT ![s] = "EMBRYO"]
    BY <1>6 DEF ForkAlloc, ForkHangs
  <2> QED
    BY <2>1 DEF FirstUnused, TypeOK
<1>7. CASE \/ SchedAcquire(c) \/ SchedIdle(c) \/ SchedReturn(c) \/ sched(c) \/ forkret(c)
           \/ YieldRet(c) \/ Timer(c) \/ YieldAcquire(c) \/ WakeupDone(c)
           \/ ForkNoMemory(c) \/ ForkNoSlot(c) \/ WaitEnter(c) \/ WaitNone(c)
           \/ CallNoMemory(c) \/ CallHangs(c) \/ SleepRet(c) \/ WaitRet(c) \/ ForkCopy(c) \/ ForkCopyFails(c) \/ WaitHangs(c)
           \/ ExitEnter(c) \/ ExitReparent(c) \/ ExitWokeInit(c)
           \/ \E ch \in KChans : SleepEnter(c, ch) \/ WakeupEnter(c, ch)
  BY <1>7 DEF SchedAcquire, SchedIdle, SchedReturn, sched, SwitchOut, forkret, YieldRet, ReturnFrom,
              Timer, YieldAcquire, WakeupDone, ForkNoMemory, ForkNoSlot, WaitEnter, WaitNone, SleepRet,
              CallNoMemory, CallHangs, WaitRet, ForkCopy, ForkCopyFails, WaitHangs, ExitEnter, ExitReparent, ExitWokeInit,
              SleepEnter, WakeupEnter
<1> QED
  BY <1>1, <1>2, <1>3, <1>4, <1>5, <1>6, <1>7 DEF KernelStep, SystemCall

\* "An exited process remains in the zombie state until its parent calls
\* wait()": exit() of proc.c, at every step and for any number of processes.
THEOREM SpecZombieUntilReaped == ProcSpec => ZombieUntilReaped
<1> DEFINE Reaps ==
      \A p \in Slots :
         state[p] = "ZOMBIE" =>
            \/ state'[p] = "ZOMBIE"
            \/ /\ state'[p] = "UNUSED"
               /\ \E c \in CPUs : cproc[c] = parent[p] /\ cpc[c] = "wait"
<1>1. IInv /\ [ProcNext]_procVars => [Reaps]_procVars
  BY ZombieStep DEF ProcNext
<1>2. ZombieUntilReaped <=> [][Reaps]_procVars
  BY DEF ZombieUntilReaped
<1> HIDE DEF Reaps
<1> QED
  BY <1>1, <1>2, SpecIInv, PTL DEF ProcSpec

-----------------------------------------------------------------------------
(***************************************************************************)
(* Proofs about the sleeplock of kern/sleeplock.c, on the scheduler it is  *)
(* used with.  IInv of Proc holds here too, because every step of a CPU is *)
(* a step of Proc or leaves the process table alone (ProcPart).            *)
(*                                                                         *)
(* SlInv adds where a process that uses the lock can be (Present), who has *)
(* lk->lk (Guarded), who has the lock (OneHolder), that the process about  *)
(* to sleep still sees it locked (SleepsLocked), and that process ids      *)
(* differ (PidsDiffer), without which holdingsleep() would be true of two  *)
(* processes.  It is inductive together with IInv and NoLostWakeup.        *)
(***************************************************************************)

\* Control points of a process that uses the lock and is on a CPU.
Inside == {"user", "sleep", "sleep_sw", "sleep_ret", "wakeup"}

\* A process that uses the lock is on a CPU at one of them, or it is asleep or
\* was woken and will return into sleep(): it never exits or yields.
Stays(p) ==
    /\ \A c \in CPUs : cproc[c] = p => cpc[c] \in Inside \cup {"post"}
    /\ \/ \E c \in CPUs : cproc[c] = p /\ cpc[c] \in Inside
       \/ state[p] \in {"RUNNABLE", "SLEEPING"} /\ ctx[p] = "sleep_ret"

Present == \A p \in Slots : spc[p] # "out" => Stays(p)

\* Points at which the process has lk->lk.
Guarding == {"test", "dosleep", "wake", "woken"}

\* lk->lk is with the CPU whose process is at one of them, and that process
\* stays on its CPU.
Guarded ==
    /\ \A p \in Slots : spc[p] \in Guarding => lk \in CPUs /\ cproc[lk] = p
    /\ lk \in CPUs => /\ cproc[lk] \in Slots
                      /\ \/ spc[cproc[lk]] \in Guarding /\ cpc[lk] = "user"
                         \/ spc[cproc[lk]] = "woken" /\ cpc[lk] = "wakeup"

\* lk->locked and lk->pid name the one process that has the lock, or that left
\* the kernel with it.
OneHolder ==
    /\ \A p \in Slots : spc[p] = "held" => locked = 1 /\ lpid = pid[p] /\ kept[1] = NULL
    /\ \A p, q \in Slots : spc[p] = "held" /\ spc[q] = "held" => p = q
    /\ kept[1] # NULL => locked = 1 /\ lpid = kept[2]
    /\ locked = 1 => kept[1] # NULL \/ \E p \in Slots : spc[p] = "held"

\* Nobody clears lk->locked between its test and sleep().
SleepsLocked == \A p \in Slots : spc[p] = "dosleep" => locked = 1

\* The pids of the processes in the table differ, and were all given out; only a
\* ZOMBIE can have lost its own.  That of the process that left with the lock is
\* no later process's.
PidsDiffer ==
    /\ \A p \in Slots : state[p] # "UNUSED" => pid[p] < nextpid
    /\ \A p, q \in Slots : p # q /\ state[p] # "UNUSED" /\ state[q] # "UNUSED" => pid[p] # pid[q]
    /\ \A p \in Slots : state[p] # "UNUSED" /\ pid[p] = 0 => \E c \in CPUs : cpc[c] = "hang"
    /\ \A p \in Slots : state[p] \notin {"UNUSED", "ZOMBIE"} => pid[p] # 0
    /\ nextpid > 0 /\ kept[2] < nextpid
    /\ kept[1] # NULL => /\ kept[2] # 0
                         /\ \A p \in Slots : state[p] # "UNUSED" /\ pid[p] = kept[2] => p = kept[1]

SlTyped ==
    /\ lk \in CPUs \cup {NoCpu}
    /\ locked \in {0, 1}
    /\ lpid \in Nat
    /\ kept \in (Slots \cup {NULL}) \X Nat
    /\ spc \in [Slots -> {"out", "test", "dosleep", "asleep", "held", "wake", "woken"}]

SlInv == /\ SlTyped /\ Present /\ Guarded /\ OneHolder /\ SleepsLocked
         /\ PidsDiffer /\ NoLostWakeup

-----------------------------------------------------------------------------
(* Frame lemmas: what a step of CPU c that leaves parts alone preserves.   *)

\* What every proof below may use.
USE CpuAssumption, SizeAssumption, ChanAssumption, SlAssumption
    DEF IInv, Goto, tableVars, queueVars, acquire, release, InUser, CallsFrom,
        Locked, Unlocked, RunningAt

\* A step of CPU c leaves the other CPUs alone.
OnlyCpu(c) == \A d \in CPUs : d # c => cproc'[d] = cproc[d] /\ cpc'[d] = cpc[d] /\ wch'[d] = wch[d]

\* The process of CPU c, if any, does not use the lock.
Clear(c) == \A p \in Slots : spc[p] # "out" => cproc[c] # p

\* Someone sleeps on the lock, or is about to.
Sleepers ==
    \/ \E p \in Slots : state[p] = "SLEEPING" /\ chan[p] = SlChan
    \/ \E c \in CPUs : cpc[c] = "sleep" /\ wch[c] = SlChan

\* Someone is about to wake them, or does.
Waker(c) == At(c, "wake") \/ (cpc[c] = "wakeup" /\ wch[c] = SlChan)

LEMMA NoLostIs == NoLostWakeup <=> (locked = 0 /\ Sleepers => \E c \in CPUs : Waker(c))
  BY DEF NoLostWakeup, Sleepers, Waker

\* The lock's channel is no process and not 0.
LEMMA SlChanIs == SlChan \in KChans /\ SlChan # NULL /\ SlChan \notin Slots /\ SlChan \in Chans
  BY DEF Chans

\* A process that uses the lock is in the table and has not exited.
LEMMA UserAlive ==
    ASSUME IInv, NEW p \in Slots, Stays(p)
    PROVE  state[p] \in {"RUNNING", "RUNNABLE", "SLEEPING"}
<1>1. CASE \E c \in CPUs : cproc[c] = p /\ cpc[c] \in Inside
  <2> PICK c \in CPUs : cproc[c] = p /\ cpc[c] \in Inside
    BY <1>1
  <2> QED
    BY DEF CpuProcess, Inside
<1> QED
  BY <1>1 DEF Stays

\* A CPU at another control point runs a process that does not use the lock.
LEMMA ElsewhereClear ==
    ASSUME Present, NEW c \in CPUs, cpc[c] \notin Inside \cup {"post"}
    PROVE  Clear(c)
  BY DEF Present, Stays, Clear

LEMMA OutClear == ASSUME NEW c \in CPUs, At(c, "out") PROVE Clear(c)
  BY DEF At, Clear

\* The process of a CPU at one of the points of Inside is where it may be.
LEMMA HereStays ==
    ASSUME IInv, NEW c \in CPUs, cpc[c] \in Inside
    PROVE  cproc[c] \in Slots /\ Stays(cproc[c])
<1>1. cproc[c] \in Slots
  BY OnCpu DEF Inside
<1>2. \A d \in CPUs : cproc[d] = cproc[c] => d = c
  BY <1>1 DEF CpuProcess, NULL, Slots
<1> QED
  BY <1>1, <1>2 DEF Stays

LEMMA StaysKept ==
    ASSUME NEW c \in CPUs, OnlyCpu(c), NEW p \in Slots, Stays(p), cproc[c] # p, cproc'[c] # p,
           state'[p] = state[p] \/ state'[p] = "RUNNABLE", ctx'[p] = ctx[p]
    PROVE  Stays(p)'
<1>1. \A d \in CPUs : cproc'[d] = p => cpc'[d] \in Inside \cup {"post"}
  BY DEF OnlyCpu, Stays
<1>2. CASE \E d \in CPUs : cproc[d] = p /\ cpc[d] \in Inside
  BY <1>1, <1>2 DEF OnlyCpu, Stays
<1>3. CASE state[p] \in {"RUNNABLE", "SLEEPING"} /\ ctx[p] = "sleep_ret"
  BY <1>1, <1>3 DEF Stays
<1> QED
  BY <1>2, <1>3 DEF Stays

\* A step that touches no process that uses the lock.
LEMMA PresentKept ==
    ASSUME Present, UNCHANGED spc, NEW c \in CPUs, OnlyCpu(c), Clear(c),
           \A p \in Slots : spc[p] # "out" => /\ cproc'[c] # p /\ ctx'[p] = ctx[p]
                                              /\ state'[p] = state[p] \/ state'[p] = "RUNNABLE"
    PROVE  Present'
<1> SUFFICES ASSUME NEW p \in Slots, spc[p] # "out" PROVE Stays(p)'
  BY DEF Present
<1> QED
  BY StaysKept DEF Present, Clear

LEMMA PidsKept ==
    ASSUME PidsDiffer, UNCHANGED <<pid, nextpid, kept>>,
           \A p \in Slots : state'[p] # "UNUSED" => state[p] # "UNUSED",
           \A p \in Slots : state[p] = "ZOMBIE" => state'[p] = "ZOMBIE",
           \A d \in CPUs : cpc[d] = "hang" => cpc'[d] = "hang"
    PROVE  PidsDiffer'
  BY DEF PidsDiffer

\* A step of the process table alone.
LEMMA TableStep ==
    ASSUME SlInv, UNCHANGED slVars, NEW c \in CPUs, OnlyCpu(c),
           Present', PidsDiffer', Sleepers' => Sleepers,
           \A p \in Slots : spc[p] # "out" => pid'[p] = pid[p],
           Waker(c) => Waker(c)' \/ ~ Sleepers',
           lk = c => /\ cproc'[c] = cproc[c]
                     /\ \/ cpc'[c] = cpc[c]
                        \/ spc[cproc[c]] = "woken" /\ cpc'[c] \in {"user", "wakeup"}
    PROVE  SlInv'
<1> USE DEF slVars
<1>1. SlTyped' /\ SleepsLocked' /\ Present' /\ PidsDiffer'
  BY DEF SlInv, SlTyped, SleepsLocked
<1>2. Guarded'
  <2>1. CASE lk = c
    BY <2>1 DEF SlInv, Guarded, Guarding
  <2>2. CASE lk # c
    BY <2>2 DEF SlInv, Guarded, OnlyCpu
  <2> QED
    BY <2>1, <2>2
<1>3. OneHolder'
  BY DEF SlInv, OneHolder
<1>4. NoLostWakeup'
  <2> SUFFICES ASSUME locked = 0, Sleepers' PROVE \E d \in CPUs : Waker(d)'
    BY DEF NoLostWakeup, Sleepers, Waker
  <2> PICK d \in CPUs : Waker(d)
    BY NoLostIs DEF SlInv
  <2>1. CASE d = c
    BY <2>1
  <2>2. CASE d # c
    BY <2>2 DEF Waker, At, OnlyCpu
  <2> QED
    BY <2>1, <2>2
<1> QED
  BY <1>1, <1>2, <1>3, <1>4 DEF SlInv

-----------------------------------------------------------------------------
(* Steps of the process table: slVars is left alone.                       *)

\* The process of a CPU in user mode.
LEMMA AtSlot == ASSUME IInv, NEW c \in CPUs, cpc[c] = "user" PROVE cproc[c] \in Slots
  BY OnCpu

LEMMA ClearIs ==
    ASSUME IInv, SlInv, NEW c \in CPUs, Clear(c)
    PROVE  lk # c /\ ~ At(c, "wake")
<1>1. lk # c
  BY DEF SlInv, Guarded, Guarding, Clear
<1>2. ~ At(c, "wake")
  BY AtSlot DEF At, Clear
<1> QED
  BY <1>1, <1>2

\* A step of a CPU whose process does not use the lock.
LEMMA ClearStep ==
    ASSUME IInv, SlInv, UNCHANGED slVars, NEW c \in CPUs, OnlyCpu(c), Clear(c),
           cpc[c] # "wakeup", PidsDiffer', Sleepers' => Sleepers,
           \A p \in Slots : spc[p] # "out" => /\ cproc'[c] # p /\ ctx'[p] = ctx[p]
                                              /\ state'[p] = state[p] \/ state'[p] = "RUNNABLE"
                                              /\ pid'[p] = pid[p]
    PROVE  SlInv'
<1>1. Present'
  BY PresentKept DEF SlInv, slVars
<1>2. lk # c /\ ~ Waker(c)
  BY ClearIs DEF Waker
<1> QED
  BY <1>1, <1>2, TableStep DEF SlInv

\* Who uses the lock is alive.
LEMMA UsersAlive ==
    ASSUME IInv, SlInv
    PROVE  \A p \in Slots : spc[p] # "out" => state[p] \in {"RUNNING", "RUNNABLE", "SLEEPING"}
  BY UserAlive DEF SlInv, Present

\* Nobody goes to sleep on the lock.
LEMMA SleepersKept ==
    ASSUME NEW c \in CPUs, OnlyCpu(c), cpc'[c] # "sleep",
           \A p \in Slots : state'[p] = "SLEEPING" /\ chan'[p] = SlChan =>
                              state[p] = "SLEEPING" /\ chan[p] = SlChan
    PROVE  Sleepers' => Sleepers
  BY DEF Sleepers, OnlyCpu

\* Steps that change no state of a process, and that a process using the lock
\* takes no part in.
LEMMA QuietSl ==
    ASSUME IInv, SlInv, UNCHANGED slVars, NEW c \in CPUs, Clear(c),
           \/ SchedAcquire(c) \/ SchedIdle(c) \/ forkret(c) \/ YieldRet(c) \/ YieldAcquire(c)
           \/ WaitNone(c) \/ WaitRet(c) \/ ExitReparent(c) \/ ExitWokeInit(c)
           \/ ForkCopy(c) \/ ForkCopyFails(c) \/ Timer(c) \/ WaitEnter(c) \/ ExitEnter(c)
           \/ \E ch \in KChans \ {SlChan} : WakeupEnter(c, ch)
    PROVE  SlInv'
<1>1. /\ UNCHANGED <<state, pid, nextpid, ctx, cproc>> /\ OnlyCpu(c)
      /\ cpc[c] \notin {"wakeup", "hang"} /\ cpc'[c] # "sleep"
      /\ \A p \in Slots : chan'[p] = chan[p] \/ chan'[p] = NULL
  BY DEF TypeOK, OnlyCpu, SchedAcquire, SchedIdle, forkret, YieldRet, ReturnFrom, YieldAcquire,
         WaitNone, WaitRet, ExitReparent, ExitWokeInit, ForkCopy, ForkCopyFails, Timer, WaitEnter,
         ExitEnter, WakeupEnter
<1>2. \A d \in CPUs : cpc[d] = "hang" => cpc'[d] = "hang"
  BY <1>1 DEF OnlyCpu
<1>3. PidsDiffer'
  BY <1>1, <1>2, PidsKept DEF SlInv, slVars
<1>4. Sleepers' => Sleepers
  BY <1>1, SlChanIs, SleepersKept
<1> QED
  BY <1>1, <1>3, <1>4, ClearStep DEF Clear

\* Steps that change the state or the context of the running process, which
\* does not use the lock, or start a child.
LEMMA OwnSl ==
    ASSUME IInv, SlInv, UNCHANGED slVars, NEW c \in CPUs, Clear(c),
           \/ YieldBody(c) \/ WaitSleep(c) \/ ExitZombie(c) \/ ForkRun(c)
           \/ SwitchOut(c, "yield_sw", "yield_ret") \/ SwitchOut(c, "wait_sw", "wait_ret")
           \/ SwitchOut(c, "exit_sw", "exit_ret")
    PROVE  SlInv'
<1> DEFINE q == IF cpc[c] = "forkrun" THEN child[c] ELSE cproc[c]
<1>1. /\ UNCHANGED <<pid, nextpid, cproc>> /\ OnlyCpu(c)
      /\ cpc[c] \notin {"wakeup", "hang"} /\ cpc'[c] # "sleep"
  BY DEF TypeOK, OnlyCpu, YieldBody, WaitSleep, ExitZombie, ForkRun, SwitchOut, MakeRunnable, GoToSleep
<1>2. q \in Slots /\ state[q] # "UNUSED" /\ (spc[q] = "out" \/ state[q] = "EMBRYO")
  <2>1. CASE cpc[c] = "forkrun"
    BY <2>1 DEF TypeOK, ForkChild
  <2>2. CASE cpc[c] # "forkrun"
    <3>1. cpc[c] \in {"yield", "wait", "exit3", "yield_sw", "wait_sw", "exit_sw"}
      BY <2>2 DEF YieldBody, WaitSleep, ExitZombie, ForkRun, SwitchOut
    <3> QED
      BY <2>2, <3>1, OnCpu DEF CpuProcess, Clear
  <2> QED
    BY <2>1, <2>2
<1>3. \A p \in Slots : p # q => state'[p] = state[p] /\ ctx'[p] = ctx[p] /\ chan'[p] = chan[p]
  BY DEF TypeOK, YieldBody, WaitSleep, ExitZombie, ForkRun, SwitchOut, MakeRunnable, GoToSleep
<1>4. state'[q] = "SLEEPING" => chan'[q] # SlChan \/ (chan'[q] = chan[q] /\ state'[q] = state[q])
  BY <1>2, SlChanIs, OnCpu DEF TypeOK, YieldBody, WaitSleep, ExitZombie, ForkRun, SwitchOut, MakeRunnable, GoToSleep
<1>5. Sleepers' => Sleepers
  BY <1>1, <1>3, <1>4, SleepersKept
<1>6. \A p \in Slots : spc[p] # "out" => p # q
  BY <1>2, UsersAlive
<1>7. \A d \in CPUs : cpc[d] = "hang" => cpc'[d] = "hang"
  BY <1>1 DEF OnlyCpu
<1>8. state[q] = "ZOMBIE" => state'[q] = "ZOMBIE"
  <2>1. CASE cpc[c] \in {"yield", "wait", "exit3"}
    BY <2>1, OnCpu DEF CpuProcess
  <2>2. CASE cpc[c] = "forkrun"
    BY <2>2 DEF ForkChild
  <2>3. CASE cpc[c] \notin {"yield", "wait", "exit3", "forkrun"}
    BY <2>3 DEF YieldBody, WaitSleep, ExitZombie, ForkRun, SwitchOut
  <2> QED
    BY <2>1, <2>2, <2>3
<1>9. /\ \A p \in Slots : state'[p] # "UNUSED" => state[p] # "UNUSED"
      /\ \A p \in Slots : state[p] = "ZOMBIE" => state'[p] = "ZOMBIE"
  BY <1>2, <1>3, <1>8
<1>10. PidsDiffer'
  BY <1>1, <1>7, <1>9, PidsKept DEF SlInv, slVars
<1> QED
  BY <1>1, <1>3, <1>5, <1>6, <1>10, ClearStep DEF Clear

\* proc_alloc() gives the child a pid that no process has.
LEMMA AllocSl ==
    ASSUME IInv, SlInv, UNCHANGED slVars, NEW c \in CPUs, Clear(c), ForkAlloc(c)
    PROVE  SlInv'
<1> PICK s \in Slots :
      /\ FirstUnused(s)
      /\ state' = [state EXCEPT ![s] = "EMBRYO"] /\ pid' = [pid EXCEPT ![s] = nextpid]
      /\ chan' = [chan EXCEPT ![s] = NULL] /\ ctx' = [ctx EXCEPT ![s] = "forkret"]
  BY DEF ForkAlloc
<1>1. /\ nextpid' = nextpid + 1 /\ UNCHANGED cproc /\ OnlyCpu(c)
      /\ cpc[c] = "user" /\ cpc'[c] = "fork"
  BY DEF ForkAlloc, TypeOK, OnlyCpu
<1>2. /\ state[s] = "UNUSED" /\ state'[s] = "EMBRYO" /\ pid'[s] = nextpid
      /\ \A p \in Slots : p # s => /\ state'[p] = state[p] /\ pid'[p] = pid[p]
                                   /\ chan'[p] = chan[p] /\ ctx'[p] = ctx[p]
  BY DEF TypeOK, FirstUnused
<1>3. Sleepers' => Sleepers
  BY <1>1, <1>2, SleepersKept
<1>4. \A p \in Slots : spc[p] # "out" => p # s
  BY <1>2, UsersAlive
<1>5. nextpid \in Nat /\ pid \in [Slots -> Nat]
  BY DEF TypeOK
<1>6. PidsDiffer'
  BY <1>1, <1>2, <1>5 DEF SlInv, SlTyped, PidsDiffer, OnlyCpu, slVars
<1> QED
  BY <1>1, <1>2, <1>3, <1>4, <1>6, ClearStep DEF Clear

\* cleanproc() of a ZOMBIE, which does not use the lock; when it hangs, the
\* ZOMBIE has lost its pid.
LEMMA ReapSl ==
    ASSUME IInv, SlInv, UNCHANGED slVars, NEW c \in CPUs, Clear(c), WaitReap(c) \/ WaitHangs(c)
    PROVE  SlInv'
<1> PICK q \in Slots :
      /\ FirstZombie(cproc[c], q) /\ pid' = [pid EXCEPT ![q] = 0]
      /\ \/ state' = [state EXCEPT ![q] = "UNUSED"] /\ cpc'[c] = "user"
         \/ state' = state /\ cpc'[c] = "hang"
  BY DEF WaitReap, WaitHangs, TypeOK
<1>1. /\ UNCHANGED <<nextpid, chan, ctx, cproc>> /\ OnlyCpu(c) /\ cpc[c] = "wait"
  BY DEF WaitReap, WaitHangs, TypeOK, OnlyCpu
<1>2. /\ state[q] = "ZOMBIE" /\ state'[q] \in {"UNUSED", "ZOMBIE"} /\ pid'[q] = 0
      /\ state'[q] = "ZOMBIE" => cpc'[c] = "hang"
      /\ \A p \in Slots : p # q => state'[p] = state[p] /\ pid'[p] = pid[p]
  BY DEF TypeOK, FirstZombie, ZombieKids
<1>3. Sleepers' => Sleepers
  <2>1. cpc'[c] # "sleep"
    OBVIOUS
  <2> QED
    BY <1>1, <1>2, <2>1, SleepersKept
<1>4. \A p \in Slots : spc[p] # "out" => p # q
  BY <1>2, UsersAlive
<1>5. \A d \in CPUs : cpc[d] # "hang"
  BY <1>1, OneInside
<1>6. nextpid \in Nat /\ pid \in [Slots -> Nat]
  BY DEF TypeOK
<1>7. PidsDiffer'
  <2>1. \A p \in Slots : p # q /\ state[p] # "UNUSED" => pid[p] # 0
    BY <1>5 DEF SlInv, PidsDiffer
  <2>2. /\ \A p \in Slots : state'[p] # "UNUSED" => pid'[p] < nextpid
        /\ nextpid' > 0
    BY <1>1, <1>2, <1>6 DEF SlInv, PidsDiffer
  <2>3. \A p, r \in Slots : p # r /\ state'[p] # "UNUSED" /\ state'[r] # "UNUSED" => pid'[p] # pid'[r]
    BY <1>2, <2>1 DEF SlInv, PidsDiffer
  <2>4. \A p \in Slots : state'[p] # "UNUSED" /\ pid'[p] = 0 => \E d \in CPUs : cpc'[d] = "hang"
    BY <1>2, <2>1
  <2>5. \A p \in Slots : state'[p] \notin {"UNUSED", "ZOMBIE"} => pid'[p] # 0
    BY <1>2, <2>1
  <2>6. /\ kept'[2] < nextpid'
        /\ kept'[1] # NULL =>
             /\ kept'[2] # 0
             /\ \A p \in Slots : state'[p] # "UNUSED" /\ pid'[p] = kept'[2] => p = kept'[1]
    BY <1>1, <1>2 DEF SlInv, PidsDiffer, slVars
  <2> QED
    BY <1>1, <2>2, <2>3, <2>4, <2>5, <2>6 DEF PidsDiffer
<1> QED
  BY <1>1, <1>2, <1>3, <1>4, <1>7, ClearStep DEF Clear

\* scheduler() lets go of a process that has switched out.
LEMMA ReturnSl ==
    ASSUME IInv, SlInv, UNCHANGED slVars, NEW c \in CPUs, SchedReturn(c)
    PROVE  SlInv'
<1>1. /\ UNCHANGED <<state, pid, nextpid, chan, ctx>> /\ OnlyCpu(c)
      /\ cpc[c] = "post" /\ cpc'[c] = "idle" /\ cproc'[c] = NULL
  BY DEF SchedReturn, TypeOK, OnlyCpu
<1>2. Present'
  <2> SUFFICES ASSUME NEW p \in Slots, spc[p] # "out" PROVE Stays(p)'
    BY DEF Present, slVars
  <2>1. Stays(p)
    BY DEF SlInv, Present
  <2>2. \A d \in CPUs : cproc'[d] = p => d # c /\ cproc[d] = p
    BY <1>1 DEF OnlyCpu, NULL, Slots
  <2>3. CASE \E d \in CPUs : cproc[d] = p /\ cpc[d] \in Inside
    <3> PICK d \in CPUs : cproc[d] = p /\ cpc[d] \in Inside
      BY <2>3
    <3>1. d # c
      BY <1>1 DEF Inside
    <3> QED
      BY <1>1, <2>1, <2>2, <3>1 DEF Stays, OnlyCpu
  <2>4. CASE state[p] \in {"RUNNABLE", "SLEEPING"} /\ ctx[p] = "sleep_ret"
    BY <1>1, <2>1, <2>2, <2>4 DEF Stays, OnlyCpu
  <2> QED
    BY <2>1, <2>3, <2>4 DEF Stays
<1>3. PidsDiffer'
  BY <1>1, PidsKept DEF SlInv, OnlyCpu, slVars
<1>4. Sleepers' => Sleepers
  BY <1>1, SleepersKept
<1>5. lk # c /\ ~ Waker(c)
  BY <1>1 DEF SlInv, Guarded, Waker, At
<1> QED
  BY <1>1, <1>2, <1>3, <1>4, <1>5, TableStep DEF SlInv

\* scheduler() resumes a process; one that uses the lock comes back in sleep().
LEMMA DispatchSl ==
    ASSUME IInv, SlInv, UNCHANGED slVars, NEW c \in CPUs, SchedDispatch(c)
    PROVE  SlInv'
<1> PICK l \in Levels :
      /\ prioque[l] # <<>>
      /\ cproc' = [cproc EXCEPT ![c] = Head(prioque[l])]
      /\ state' = [state EXCEPT ![Head(prioque[l])] = "RUNNING"]
      /\ cpc' = [cpc EXCEPT ![c] = ctx[Head(prioque[l])]]
      /\ ctx' = [ctx EXCEPT ![Head(prioque[l])] = "none"]
  BY DEF SchedDispatch
<1> DEFINE q == Head(prioque[l])
<1>1. UNCHANGED <<pid, nextpid, chan, wch>> /\ cpc[c] = "pick"
  BY DEF SchedDispatch
<1>2. q \in Slots /\ state[q] = "RUNNABLE"
  <2>1. prioque[l] \in Seq(Slots)
    BY DEF TypeOK
  <2>2. q = prioque[l][1] /\ 1 \in 1..Len(prioque[l])
    BY <2>1
  <2>3. q \in Slots /\ IsIn(q, prioque[l])
    BY <2>1, <2>2 DEF IsIn
  <2> QED
    BY <2>3 DEF RunQueueExact
<1> HIDE DEF q
<1>3. /\ OnlyCpu(c) /\ cproc'[c] = q /\ cpc'[c] = ctx[q] /\ state'[q] = "RUNNING"
      /\ \A p \in Slots : p # q => state'[p] = state[p] /\ ctx'[p] = ctx[p]
  BY <1>1, <1>2 DEF TypeOK, OnlyCpu, q
<1>4. ctx[q] \in Contexts
  BY <1>2 DEF TypeOK
<1>5. Clear(c)
  BY <1>1, ElsewhereClear DEF SlInv, Inside
<1>6. Present'
  <2> SUFFICES ASSUME NEW p \in Slots, spc[p] # "out" PROVE Stays(p)'
    BY DEF Present, slVars
  <2>1. Stays(p) /\ cproc[c] # p
    BY <1>5 DEF SlInv, Present, Clear
  <2>2. CASE p # q
    BY <1>3, <2>1, <2>2, StaysKept
  <2>3. CASE p = q
    <3>1. \A d \in CPUs : cproc[d] = p => cpc[d] = "post"
      <4> SUFFICES ASSUME NEW d \in CPUs, cproc[d] = p, cpc[d] \in Inside PROVE FALSE
        BY <2>1 DEF Stays
      <4> QED
        BY <1>2, <2>3 DEF CpuProcess, Inside
    <3>2. ctx[q] = "sleep_ret"
      BY <2>1, <2>3, <3>1 DEF Stays, Inside
    <3>3. \A d \in CPUs : cproc'[d] = p => cpc'[d] \in Inside \cup {"post"}
      BY <1>3, <3>1, <3>2 DEF OnlyCpu, Inside
    <3> QED
      BY <1>3, <2>3, <3>2, <3>3 DEF Stays, Inside
  <2> QED
    BY <2>2, <2>3
<1>7. PidsDiffer'
  <2>1. /\ \A p \in Slots : state'[p] # "UNUSED" => state[p] # "UNUSED"
        /\ \A p \in Slots : state[p] = "ZOMBIE" => state'[p] = "ZOMBIE"
    BY <1>2, <1>3
  <2> QED
    BY <1>1, <1>3, <2>1, PidsKept DEF SlInv, OnlyCpu, slVars
<1>8. Sleepers' => Sleepers
  <2>1. cpc'[c] # "sleep"
    BY <1>3, <1>4 DEF Contexts
  <2>2. \A p \in Slots : state'[p] = "SLEEPING" /\ chan'[p] = SlChan => state[p] = "SLEEPING" /\ chan[p] = SlChan
    BY <1>1, <1>3
  <2> QED
    BY <1>3, <2>1, <2>2, SleepersKept
<1>9. lk # c /\ ~ Waker(c)
  BY <1>1, <1>5, ClearIs DEF Waker
<1> QED
  BY <1>1, <1>3, <1>6, <1>7, <1>8, <1>9, TableStep DEF SlInv

\* A step inside sleep(), or from user mode into it, of a process that may use
\* the lock: it stays on its CPU, or is switched out in sleep().
LEMMA InsideStays ==
    ASSUME IInv, IInv', Present, UNCHANGED spc, NEW c \in CPUs, OnlyCpu(c), cproc' = cproc,
           cpc[c] \in Inside,
           \/ cpc'[c] \in Inside
           \/ cpc'[c] = "post" /\ state'[cproc[c]] = "SLEEPING" /\ ctx'[cproc[c]] = "sleep_ret",
           \A p \in Slots : p # cproc[c] => /\ ctx'[p] = ctx[p]
                                            /\ state'[p] = state[p] \/ state'[p] = "RUNNABLE"
    PROVE  Present'
<1> SUFFICES ASSUME NEW p \in Slots, spc[p] # "out" PROVE Stays(p)'
  BY DEF Present
<1>1. Stays(p)
  BY DEF Present
<1>2. CASE p # cproc[c]
  BY <1>1, <1>2, StaysKept
<1>3. CASE p = cproc[c]
  <2>1. \A d \in CPUs : cproc'[d] = p => d = c
    BY <1>3 DEF CpuProcess, NULL, Slots
  <2> QED
    BY <1>3, <2>1 DEF Stays
<1> QED
  BY <1>2, <1>3

\* sleep(): the body, the switch to the scheduler, and the return.
LEMMA SleepBodySl ==
    ASSUME IInv, IInv', SlInv, UNCHANGED slVars, NEW c \in CPUs, SleepBody(c)
    PROVE  SlInv'
<1>1. /\ UNCHANGED <<pid, nextpid, ctx, cproc>> /\ OnlyCpu(c)
      /\ cpc[c] = "sleep" /\ cpc'[c] = "sleep_sw" /\ cproc[c] \in Slots
  BY OnCpu DEF SleepBody, GoToSleep, TypeOK, OnlyCpu
<1>2. /\ state'[cproc[c]] = "SLEEPING" /\ chan'[cproc[c]] = wch[c] /\ state[cproc[c]] = "RUNNING"
      /\ \A p \in Slots : p # cproc[c] => state'[p] = state[p] /\ chan'[p] = chan[p]
  BY <1>1, OnCpu DEF SleepBody, GoToSleep, TypeOK
<1>3. Present'
  BY <1>1, <1>2, InsideStays DEF SlInv, slVars, Inside
<1>4. PidsDiffer'
  <2>1. /\ \A p \in Slots : state'[p] # "UNUSED" => state[p] # "UNUSED"
        /\ \A p \in Slots : state[p] = "ZOMBIE" => state'[p] = "ZOMBIE"
    BY <1>1, <1>2
  <2> QED
    BY <1>1, <2>1, PidsKept DEF SlInv, OnlyCpu, slVars
<1>5. Sleepers' => Sleepers
  BY <1>1, <1>2 DEF Sleepers, OnlyCpu
<1>6. lk # c /\ ~ Waker(c)
  BY <1>1 DEF SlInv, Guarded, Waker, At
<1> QED
  BY <1>1, <1>3, <1>4, <1>5, <1>6, TableStep DEF SlInv

LEMMA SleepMoveSl ==
    ASSUME IInv, IInv', SlInv, UNCHANGED slVars, NEW c \in CPUs,
           SwitchOut(c, "sleep_sw", "sleep_ret") \/ SleepRet(c)
    PROVE  SlInv'
<1>1. /\ UNCHANGED <<pid, nextpid, state, cproc>> /\ OnlyCpu(c)
      /\ cpc[c] \in {"sleep_sw", "sleep_ret"} /\ cproc[c] \in Slots
      /\ \/ cpc[c] = "sleep_sw" /\ cpc'[c] = "post" /\ ctx'[cproc[c]] = "sleep_ret"
         \/ cpc'[c] = "user"
      /\ \A p \in Slots : /\ chan'[p] = chan[p] \/ chan'[p] = NULL
                          /\ p # cproc[c] => ctx'[p] = ctx[p]
  BY OnCpu, ZenonT(60) DEF SwitchOut, SleepRet, TypeOK, OnlyCpu
<1>2. cpc[c] = "sleep_sw" => state[cproc[c]] = "SLEEPING"
  BY DEF CpuProcess
<1>3. Present'
  BY <1>1, <1>2, InsideStays DEF SlInv, slVars, Inside
<1>4. PidsDiffer'
  BY <1>1, PidsKept DEF SlInv, OnlyCpu, slVars
<1>5. Sleepers' => Sleepers
  BY <1>1, SlChanIs, SleepersKept
<1>6. lk # c /\ ~ Waker(c)
  BY <1>1 DEF SlInv, Guarded, Waker, At
<1> QED
  BY <1>1, <1>3, <1>4, <1>5, <1>6, TableStep DEF SlInv

\* A holder goes to sleep on something else.
LEMMA SleepElsewhereSl ==
    ASSUME IInv, IInv', SlInv, UNCHANGED slVars, NEW c \in CPUs, At(c, "held"),
           NEW ch \in KChans \ {SlChan}, SleepEnter(c, ch)
    PROVE  SlInv'
<1>1. /\ UNCHANGED <<pid, nextpid, state, chan, ctx, cproc>> /\ OnlyCpu(c)
      /\ cpc[c] = "user" /\ cpc'[c] = "sleep" /\ wch'[c] = ch
  BY DEF SleepEnter, TypeOK, OnlyCpu
<1>2. Present'
  BY <1>1, InsideStays DEF SlInv, slVars, Inside
<1>3. PidsDiffer'
  BY <1>1, PidsKept DEF SlInv, OnlyCpu, slVars
<1>4. Sleepers' => Sleepers
  BY <1>1 DEF Sleepers, OnlyCpu
<1>5. lk # c /\ ~ Waker(c)
  BY <1>1 DEF SlInv, Guarded, Guarding, Waker, At
<1> QED
  BY <1>1, <1>2, <1>3, <1>4, <1>5, TableStep DEF SlInv

\* wakeup1() wakes one process.
LEMMA WakeOneSl ==
    ASSUME IInv, SlInv, UNCHANGED slVars, NEW c \in CPUs, WakeOne(c)
    PROVE  SlInv'
<1>0. Hash[wch[c]] \in Buckets /\ hashmp[Hash[wch[c]]] \in Seq(Slots)
  BY DEF TypeOK
<1> PICK i \in BucketIndices(wch[c]) :
      /\ Matches(wch[c], i)
      /\ state' = [state EXCEPT ![hashmp[Hash[wch[c]]][i]] = "RUNNABLE"]
      /\ chan' = [chan EXCEPT ![hashmp[Hash[wch[c]]][i]] = NULL]
  BY DEF WakeOne, MakeRunnable
<1> DEFINE q == hashmp[Hash[wch[c]]][i]
<1>1. UNCHANGED <<pid, nextpid, ctx, cproc, cpc, wch>> /\ cpc[c] \in InWakeup1
  BY DEF WakeOne
<1>2. q \in Slots /\ state[q] = "SLEEPING"
  BY <1>0 DEF BucketIndices, Matches
<1> HIDE DEF q
<1>3. /\ state'[q] = "RUNNABLE" /\ chan'[q] = NULL
      /\ \A p \in Slots : p # q => state'[p] = state[p] /\ chan'[p] = chan[p]
  BY <1>2 DEF TypeOK, q
<1>4. Present'
  <2> SUFFICES ASSUME NEW p \in Slots, spc[p] # "out" PROVE Stays(p)'
    BY DEF Present, slVars
  <2>1. Stays(p)
    BY DEF SlInv, Present
  <2> QED
    BY <1>1, <1>3, <2>1 DEF Stays
<1>5. PidsDiffer'
  <2>1. /\ \A p \in Slots : state'[p] # "UNUSED" => state[p] # "UNUSED"
        /\ \A p \in Slots : state[p] = "ZOMBIE" => state'[p] = "ZOMBIE"
    BY <1>2, <1>3
  <2> QED
    BY <1>1, <2>1, PidsKept DEF SlInv, slVars
<1>6. Sleepers' => Sleepers
  BY <1>1, <1>2, <1>3 DEF Sleepers
<1>7. OnlyCpu(c) /\ (Waker(c) => Waker(c)')
  BY <1>1 DEF OnlyCpu, Waker, At, slVars
<1> QED
  BY <1>1, <1>4, <1>5, <1>6, <1>7, TableStep DEF SlInv

\* wakeup() returns: nobody sleeps on its channel any more.
LEMMA WakeupDoneSl ==
    ASSUME IInv, IInv', SlInv, UNCHANGED slVars, NEW c \in CPUs, WakeupDone(c)
    PROVE  SlInv'
<1>1. /\ UNCHANGED <<pid, nextpid, state, chan, ctx, cproc>> /\ OnlyCpu(c)
      /\ cpc[c] = "wakeup" /\ cpc'[c] = "user" /\ NoneLeft(c)
  BY DEF WakeupDone, TypeOK, OnlyCpu
<1>2. Present'
  BY <1>1, InsideStays DEF SlInv, slVars, Inside
<1>3. PidsDiffer'
  BY <1>1, PidsKept DEF SlInv, OnlyCpu, slVars
<1>4. Sleepers' => Sleepers
  BY <1>1, SleepersKept
<1>5. Waker(c) => ~ Sleepers'
  <2> SUFFICES ASSUME wch[c] = SlChan PROVE ~ Sleepers
    BY <1>1, <1>4 DEF Waker, At
  <2>1. \A p \in Slots : ~ (state[p] = "SLEEPING" /\ chan[p] = SlChan)
    BY <1>1, NoneAsleep
  <2>2. \A d \in CPUs : cpc[d] # "sleep"
    BY <1>1, OneInside
  <2> QED
    BY <2>1, <2>2 DEF Sleepers
<1>6. lk = c => spc[cproc[c]] = "woken"
  BY <1>1 DEF SlInv, Guarded
<1> QED
  BY <1>1, <1>2, <1>3, <1>4, <1>5, <1>6, TableStep DEF SlInv

\* Every step of the process table that SlNext allows.
LEMMA OtherStepSl ==
    ASSUME IInv, IInv', SlInv, NEW c \in CPUs, OtherStep(c) PROVE SlInv'
<1>0. UNCHANGED slVars
  BY DEF OtherStep
<1>1. CASE KernelStep(c)
  <2>1. CASE \/ SchedAcquire(c) \/ SchedIdle(c) \/ forkret(c) \/ YieldRet(c) \/ YieldAcquire(c)
             \/ WaitNone(c) \/ WaitRet(c) \/ ExitReparent(c) \/ ExitWokeInit(c)
             \/ ForkCopy(c) \/ ForkCopyFails(c)
    <3>1. cpc[c] \notin Inside \cup {"post"}
      BY <2>1 DEF Inside, SchedAcquire, SchedIdle, forkret, YieldRet, ReturnFrom, YieldAcquire,
         WaitNone, WaitRet, ExitReparent, ExitWokeInit, ForkCopy, ForkCopyFails
    <3>2. Clear(c)
      BY <3>1, ElsewhereClear DEF SlInv
    <3> QED
      BY <1>0, <2>1, <3>2, QuietSl
  <2>2. CASE \/ YieldBody(c) \/ WaitSleep(c) \/ ExitZombie(c) \/ ForkRun(c)
             \/ SwitchOut(c, "yield_sw", "yield_ret") \/ SwitchOut(c, "wait_sw", "wait_ret")
             \/ SwitchOut(c, "exit_sw", "exit_ret")
    <3>1. cpc[c] \notin Inside \cup {"post"}
      BY <2>2 DEF Inside, YieldBody, WaitSleep, ExitZombie, ForkRun, SwitchOut
    <3>2. Clear(c)
      BY <3>1, ElsewhereClear DEF SlInv
    <3> QED
      BY <1>0, <2>2, <3>2, OwnSl
  <2>3. CASE WaitReap(c) \/ WaitHangs(c)
    <3>1. cpc[c] \notin Inside \cup {"post"}
      BY <2>3 DEF Inside, WaitReap, WaitHangs
    <3>2. Clear(c)
      BY <3>1, ElsewhereClear DEF SlInv
    <3> QED
      BY <1>0, <2>3, <3>2, ReapSl
  <2> QED
    BY <1>0, <1>1, <2>1, <2>2, <2>3, ReturnSl, DispatchSl, SleepBodySl, SleepMoveSl, WakeOneSl,
       WakeupDoneSl
       DEF KernelStep, sched
<1>2. CASE At(c, "out") /\ (Timer(c) \/ ForkAlloc(c) \/ WaitEnter(c) \/ ExitEnter(c))
  BY <1>0, <1>2, OutClear, QuietSl, AllocSl
<1>3. CASE At(c, "held") /\ \E ch \in KChans \ {SlChan} : SleepEnter(c, ch)
  BY <1>0, <1>3, SleepElsewhereSl
<1>4. CASE At(c, "out") /\ \E ch \in KChans \ {SlChan} : WakeupEnter(c, ch)
  BY <1>0, <1>4, OutClear, QuietSl
<1> QED
  BY <1>1, <1>2, <1>3, <1>4 DEF OtherStep

-----------------------------------------------------------------------------
(* The steps of acquiresleep() and releasesleep().                         *)

Uses == {"out", "test", "dosleep", "asleep", "held", "wake", "woken"}

\* A step of the process of CPU c from point "from" to point "to".
LEMMA Moves ==
    ASSUME IInv, SlInv, NEW c \in CPUs, NEW from \in Uses, NEW to \in Uses, At(c, from), Go(c, to)
    PROVE  /\ cproc[c] \in Slots /\ cpc[c] = "user" /\ spc[cproc[c]] = from /\ spc'[cproc[c]] = to
           /\ spc' \in [Slots -> Uses] /\ \A p \in Slots : p # cproc[c] => spc'[p] = spc[p]
<1>1. cproc[c] \in Slots
  BY AtSlot DEF At
<1> QED
  BY <1>1 DEF At, Go, SlInv, SlTyped, Uses

\* The process table is left alone: what the step must show of lk and locked.
LEMMA LockMove ==
    ASSUME IInv, SlInv, NEW c \in CPUs, NEW from \in Uses, NEW to \in Uses, At(c, from), Go(c, to),
           UNCHANGED procVars, lk' \in CPUs \cup {NoCpu}, locked' \in {0, 1}, lpid' \in Nat,
           kept' \in (Slots \cup {NULL}) \X Nat,
           from \in Guarding => lk = c, from \notin Guarding => lk = NoCpu \/ lk' = lk,
           lk' = (IF to \in Guarding THEN c ELSE IF from \in Guarding THEN NoCpu ELSE lk),
           to \in Guarding /\ from \notin Guarding => lk = NoCpu
    PROVE  SlTyped' /\ Present' /\ Guarded' /\ (kept' = kept => PidsDiffer')
<1>1. /\ cproc[c] \in Slots /\ cpc[c] = "user" /\ spc[cproc[c]] = from /\ spc'[cproc[c]] = to
      /\ spc' \in [Slots -> Uses] /\ \A p \in Slots : p # cproc[c] => spc'[p] = spc[p]
  BY Moves
<1>2. SlTyped'
  BY <1>1 DEF SlTyped, Uses
<1>3. Present'
  <2> SUFFICES ASSUME NEW p \in Slots, spc'[p] # "out" PROVE Stays(p)'
    BY DEF Present
  <2>1. Stays(p)
    <3>1. CASE p = cproc[c]
      BY <1>1, <3>1, HereStays DEF Inside
    <3>2. CASE p # cproc[c]
      BY <1>1, <3>2 DEF SlInv, Present
    <3> QED
      BY <3>1, <3>2
  <2> QED
    BY <2>1 DEF Stays, procVars
<1>4. Guarded'
  <2>1. \A p \in Slots : spc[p] \in Guarding => lk \in CPUs /\ cproc[lk] = p
    BY DEF SlInv, Guarded
  <2>2. \A d \in CPUs : cproc[d] = cproc[c] => d = c
    BY <1>1 DEF CpuProcess, NULL, Slots
  <2>3. UNCHANGED <<cproc, cpc>>
    BY DEF procVars
  <2>4. CASE to \in Guarding
    BY <1>1, <2>1, <2>2, <2>3, <2>4 DEF Guarded
  <2>5. CASE to \notin Guarding
    BY <1>1, <2>1, <2>2, <2>3, <2>5 DEF SlInv, Guarded, SlTyped
  <2> QED
    BY <2>4, <2>5
<1>5. kept' = kept => PidsDiffer'
  BY PidsKept DEF SlInv, procVars
<1> QED
  BY <1>2, <1>3, <1>4, <1>5

\* The process that is at a point of Guarding has lk->lk.
LEMMA HasLk ==
    ASSUME IInv, SlInv, NEW c \in CPUs, NEW l \in Guarding, At(c, l)
    PROVE  lk = c
<1>1. cproc[c] \in Slots /\ spc[cproc[c]] = l
  BY AtSlot DEF At
<1>2. lk \in CPUs /\ cproc[lk] = cproc[c]
  BY <1>1 DEF SlInv, Guarded
<1> QED
  BY <1>1, <1>2 DEF CpuProcess, NULL, Slots

\* A step that takes nobody out of the call of wakeup().
LEMMA WakersKept ==
    ASSUME IInv, SlInv, NEW c \in CPUs, UNCHANGED procVars, locked' = 0 => locked = 0,
           spc[cproc[c]] # "wake", \A p \in Slots : p # cproc[c] => spc'[p] = spc[p]
    PROVE  NoLostWakeup'
<1>0. UNCHANGED <<state, chan, cproc, cpc, wch>>
  BY DEF procVars
<1> SUFFICES ASSUME locked' = 0, Sleepers PROVE \E d \in CPUs : Waker(d)'
  BY <1>0 DEF NoLostWakeup, Sleepers, Waker
<1> PICK d \in CPUs : Waker(d)
  BY NoLostIs DEF SlInv
<1>1. CASE At(d, "wake")
  <2>1. cproc[d] \in Slots /\ cproc[d] # cproc[c]
    BY <1>1, AtSlot DEF At
  <2> QED
    BY <1>0, <1>1, <2>1 DEF At, Waker
<1>2. CASE cpc[d] = "wakeup" /\ wch[d] = SlChan
  BY <1>0, <1>2 DEF Waker
<1> QED
  BY <1>1, <1>2 DEF Waker

LEMMA AcquireLkSl == ASSUME IInv, SlInv, NEW c \in CPUs, AcquireLk(c) PROVE SlInv'
<1> PICK from \in {"out", "asleep"} : At(c, from)
  BY DEF AcquireLk
<1>1. /\ lk = NoCpu /\ lk' = c /\ Go(c, "test") /\ UNCHANGED procVars
      /\ UNCHANGED <<locked, lpid, kept>>
  BY DEF AcquireLk
<1>2. /\ cproc[c] \in Slots /\ spc[cproc[c]] = from /\ spc'[cproc[c]] = "test"
      /\ \A p \in Slots : p # cproc[c] => spc'[p] = spc[p]
  BY <1>1, Moves DEF Uses
<1>3. SlTyped' /\ Present' /\ Guarded' /\ PidsDiffer'
  BY <1>1, LockMove DEF Guarding, Uses, SlInv, SlTyped
<1>4. OneHolder' /\ SleepsLocked'
  BY <1>1, <1>2 DEF SlInv, OneHolder, SleepsLocked, procVars
<1>5. NoLostWakeup'
  BY <1>1, <1>2, WakersKept
<1> QED
  BY <1>3, <1>4, <1>5 DEF SlInv

LEMMA TestLockedSl == ASSUME IInv, SlInv, NEW c \in CPUs, TestLocked(c) PROVE SlInv'
<1>1. /\ At(c, "test") /\ locked = 1 /\ Go(c, "dosleep") /\ UNCHANGED procVars
      /\ UNCHANGED <<lk, locked, lpid, kept>>
  BY DEF TestLocked
<1>2. /\ cproc[c] \in Slots /\ spc[cproc[c]] = "test" /\ spc'[cproc[c]] = "dosleep"
      /\ \A p \in Slots : p # cproc[c] => spc'[p] = spc[p]
  BY <1>1, Moves DEF Uses
<1>3. lk = c
  BY <1>1, HasLk DEF Guarding
<1>4. SlTyped' /\ Present' /\ Guarded' /\ PidsDiffer'
  BY <1>1, <1>3, LockMove DEF Guarding, Uses, SlInv, SlTyped
<1>5. OneHolder' /\ SleepsLocked'
  BY <1>1, <1>2 DEF SlInv, OneHolder, SleepsLocked, procVars
<1>6. NoLostWakeup'
  BY <1>1, <1>2, WakersKept
<1> QED
  BY <1>4, <1>5, <1>6 DEF SlInv

\* Nobody has the lock before, and lk->pid is the pid of the process after.
LEMMA TakeLockSl == ASSUME IInv, SlInv, NEW c \in CPUs, TakeLock(c) PROVE SlInv'
<1>1. /\ At(c, "test") /\ locked = 0 /\ locked' = 1 /\ lpid' = pid[cproc[c]] /\ lk' = NoCpu
      /\ Go(c, "held") /\ UNCHANGED procVars /\ kept' = kept
  BY DEF TakeLock
<1>2. /\ cproc[c] \in Slots /\ spc[cproc[c]] = "test" /\ spc'[cproc[c]] = "held"
      /\ \A p \in Slots : p # cproc[c] => spc'[p] = spc[p]
  BY <1>1, Moves DEF Uses
<1>3. lk = c /\ pid[cproc[c]] \in Nat
  BY <1>1, <1>2, HasLk DEF Guarding, TypeOK
<1>4. SlTyped' /\ Present' /\ Guarded' /\ PidsDiffer'
  BY <1>1, <1>3, LockMove DEF Guarding, Uses, SlInv, SlTyped
<1>5. OneHolder' /\ SleepsLocked'
  BY <1>1, <1>2 DEF SlInv, OneHolder, SleepsLocked, procVars
<1>6. NoLostWakeup'
  BY <1>1 DEF NoLostWakeup
<1> QED
  BY <1>4, <1>5, <1>6 DEF SlInv

\* The lock is free and its holder is about to wake the sleepers.  Nobody is
\* between the test and sleep(), because lk->lk was free.
LEMMA ClearLockedSl == ASSUME IInv, SlInv, NEW c \in CPUs, ClearLocked(c) PROVE SlInv'
<1>1. /\ At(c, "held") /\ lk = NoCpu /\ lk' = c /\ locked' = 0 /\ lpid' = 0
      /\ Go(c, "wake") /\ UNCHANGED procVars /\ kept' = kept
  BY DEF ClearLocked
<1>2. /\ cproc[c] \in Slots /\ spc[cproc[c]] = "held" /\ spc'[cproc[c]] = "wake" /\ cpc[c] = "user"
      /\ \A p \in Slots : p # cproc[c] => spc'[p] = spc[p]
  BY <1>1, Moves DEF Uses
<1>3. SlTyped' /\ Present' /\ Guarded' /\ PidsDiffer'
  BY <1>1, LockMove DEF Guarding, Uses, SlInv, SlTyped
<1>4. OneHolder'
  BY <1>1, <1>2 DEF SlInv, OneHolder
<1>5. SleepsLocked'
  <2>1. \A p \in Slots : spc[p] # "dosleep"
    BY <1>1 DEF SlInv, Guarded, Guarding
  <2> QED
    BY <1>2, <2>1 DEF SleepsLocked
<1>6. NoLostWakeup'
  <2>1. At(c, "wake")'
    BY <1>1, <1>2 DEF At, procVars
  <2> QED
    BY <2>1 DEF NoLostWakeup
<1> QED
  BY <1>3, <1>4, <1>5, <1>6 DEF SlInv

LEMMA ReleaseLkSl == ASSUME IInv, SlInv, NEW c \in CPUs, ReleaseLk(c) PROVE SlInv'
<1>1. /\ At(c, "woken") /\ lk' = NoCpu /\ Go(c, "out") /\ UNCHANGED procVars
      /\ UNCHANGED <<locked, lpid, kept>>
  BY DEF ReleaseLk
<1>2. /\ cproc[c] \in Slots /\ spc[cproc[c]] = "woken" /\ spc'[cproc[c]] = "out"
      /\ \A p \in Slots : p # cproc[c] => spc'[p] = spc[p]
  BY <1>1, Moves DEF Uses
<1>3. lk = c
  BY <1>1, HasLk DEF Guarding
<1>4. SlTyped' /\ Present' /\ Guarded' /\ PidsDiffer'
  BY <1>1, <1>3, LockMove DEF Guarding, Uses, SlInv, SlTyped
<1>5. OneHolder' /\ SleepsLocked'
  BY <1>1, <1>2 DEF SlInv, OneHolder, SleepsLocked, procVars
<1>6. NoLostWakeup'
  BY <1>1, <1>2, WakersKept
<1> QED
  BY <1>4, <1>5, <1>6 DEF SlInv

\* The process that leaves with the lock is alive, so its pid is not 0.
LEMMA LeaveWithLockSl == ASSUME IInv, SlInv, NEW c \in CPUs, LeaveWithLock(c) PROVE SlInv'
<1> DEFINE p == cproc[c]
<1>1. /\ At(c, "held") /\ Go(c, "out") /\ UNCHANGED procVars /\ UNCHANGED <<lk, locked, lpid>>
      /\ kept' = <<p, pid[p]>>
  BY DEF LeaveWithLock
<1>2. /\ p \in Slots /\ spc[p] = "held" /\ spc'[p] = "out"
      /\ \A q \in Slots : q # p => spc'[q] = spc[q]
  BY <1>1, Moves DEF Uses
<1>3. pid[p] \in Nat /\ p # NULL
  BY <1>2 DEF TypeOK, NULL, Slots
<1>4. state[p] \in {"RUNNING", "RUNNABLE", "SLEEPING"}
  BY <1>2, UsersAlive
<1> HIDE DEF p
<1>5. kept'[1] = p /\ kept'[2] = pid[p] /\ kept' \in (Slots \cup {NULL}) \X Nat
  BY <1>1, <1>2, <1>3
<1>6. SlTyped' /\ Present' /\ Guarded'
  BY <1>1, <1>5, LockMove DEF Guarding, Uses, SlInv, SlTyped
<1>7. UNCHANGED <<state, pid, nextpid, cpc>>
  BY <1>1 DEF procVars
<1>8. PidsDiffer'
  BY <1>2, <1>3, <1>4, <1>5, <1>7 DEF SlInv, PidsDiffer
<1>9. OneHolder' /\ SleepsLocked'
  BY <1>1, <1>2, <1>3, <1>5, <1>7 DEF SlInv, OneHolder, SleepsLocked
<1>10. NoLostWakeup'
  BY <1>1, <1>2 DEF SlInv, OneHolder, NoLostWakeup
<1> QED
  BY <1>6, <1>8, <1>9, <1>10 DEF SlInv

\* A step of the process table by the process itself, which stays on its CPU.
LEMMA EntersStays ==
    ASSUME IInv, IInv', SlInv, NEW c \in CPUs, OnlyCpu(c), UNCHANGED <<state, ctx, cproc>>,
           cproc[c] \in Slots, cpc[c] = "user", cpc'[c] \in {"sleep", "wakeup"},
           \A p \in Slots : p # cproc[c] => spc'[p] = spc[p]
    PROVE  Present'
<1> SUFFICES ASSUME NEW p \in Slots, spc'[p] # "out" PROVE Stays(p)'
  BY DEF Present
<1>1. CASE p # cproc[c]
  BY <1>1, StaysKept DEF SlInv, Present
<1>2. CASE p = cproc[c]
  <2>1. \A d \in CPUs : cproc'[d] = p => d = c
    BY <1>2 DEF CpuProcess, NULL, Slots
  <2> QED
    BY <1>2, <2>1 DEF Stays, Inside
<1> QED
  BY <1>1, <1>2

\* sleep() takes ptablelock before it lets go of lk->lk: the lock is still
\* taken, so its holder's wakeup() is to come.
LEMMA SleepOnLockSl == ASSUME IInv, IInv', SlInv, NEW c \in CPUs, SleepOnLock(c) PROVE SlInv'
<1>1. /\ At(c, "dosleep") /\ lk' = NoCpu /\ Go(c, "asleep") /\ UNCHANGED <<locked, lpid, kept>>
      /\ UNCHANGED <<state, pid, nextpid, ctx, cproc>> /\ OnlyCpu(c) /\ cpc'[c] = "sleep"
  BY DEF SleepOnLock, SleepEnter, TypeOK, OnlyCpu
<1>2. /\ cproc[c] \in Slots /\ spc[cproc[c]] = "dosleep" /\ spc'[cproc[c]] = "asleep"
      /\ cpc[c] = "user" /\ spc' \in [Slots -> Uses]
      /\ \A p \in Slots : p # cproc[c] => spc'[p] = spc[p]
  BY <1>1, Moves DEF Uses
<1>3. lk = c
  BY <1>1, HasLk DEF Guarding
<1>4. SlTyped'
  BY <1>1, <1>2 DEF SlInv, SlTyped, Uses
<1>5. Present'
  BY <1>1, <1>2, EntersStays
<1>6. Guarded'
  BY <1>1, <1>2, <1>3 DEF SlInv, Guarded, Guarding
<1>7. PidsDiffer'
  BY <1>1, <1>2, PidsKept DEF SlInv, OnlyCpu
<1>8. OneHolder' /\ SleepsLocked'
  BY <1>1, <1>2 DEF SlInv, OneHolder, SleepsLocked
<1>9. NoLostWakeup'
  <2>1. locked' = 1
    BY <1>1, <1>2 DEF SlInv, SleepsLocked
  <2> QED
    BY <2>1 DEF NoLostWakeup
<1> QED
  BY <1>4, <1>5, <1>6, <1>7, <1>8, <1>9 DEF SlInv

LEMMA CallWakeupSl == ASSUME IInv, IInv', SlInv, NEW c \in CPUs, CallWakeup(c) PROVE SlInv'
<1>1. /\ At(c, "wake") /\ Go(c, "woken") /\ UNCHANGED <<lk, locked, lpid, kept>>
      /\ UNCHANGED <<state, pid, nextpid, ctx, cproc>> /\ OnlyCpu(c)
      /\ cpc'[c] = "wakeup" /\ wch'[c] = SlChan
  BY DEF CallWakeup, WakeupEnter, TypeOK, OnlyCpu
<1>2. /\ cproc[c] \in Slots /\ spc[cproc[c]] = "wake" /\ spc'[cproc[c]] = "woken"
      /\ cpc[c] = "user" /\ spc' \in [Slots -> Uses]
      /\ \A p \in Slots : p # cproc[c] => spc'[p] = spc[p]
  BY <1>1, Moves DEF Uses
<1>3. lk = c
  BY <1>1, HasLk DEF Guarding
<1>4. SlTyped'
  BY <1>1, <1>2 DEF SlInv, SlTyped, Uses
<1>5. Present'
  BY <1>1, <1>2, EntersStays
<1>6. Guarded'
  BY <1>1, <1>2, <1>3 DEF SlInv, Guarded, Guarding
<1>7. PidsDiffer'
  BY <1>1, <1>2, PidsKept DEF SlInv, OnlyCpu
<1>8. OneHolder' /\ SleepsLocked'
  BY <1>1, <1>2 DEF SlInv, OneHolder, SleepsLocked
<1>9. NoLostWakeup'
  BY <1>1 DEF NoLostWakeup
<1> QED
  BY <1>4, <1>5, <1>6, <1>7, <1>8, <1>9 DEF SlInv

-----------------------------------------------------------------------------
(* The theorems.                                                           *)

\* A step here is a step of Proc, or leaves the process table alone.
LEMMA ProcPart == SlNext => [ProcNext]_procVars
<1> SUFFICES ASSUME NEW c \in CPUs, LockStep(c) \/ OtherStep(c)
             PROVE  ProcNext \/ UNCHANGED procVars
  BY DEF SlNext
<1>1. CASE LockStep(c)
  BY <1>1 DEF LockStep, AcquireLk, TestLocked, SleepOnLock, TakeLock, ClearLocked, CallWakeup,
              ReleaseLk, LeaveWithLock, ProcNext, SystemCall
<1>2. CASE OtherStep(c)
  BY <1>2 DEF OtherStep, ProcNext, SystemCall
<1> QED
  BY <1>1, <1>2

LEMMA SlInitInv == SlInit => IInv /\ SlInv
<1> SUFFICES ASSUME SlInit PROVE IInv /\ SlInv
  OBVIOUS
<1>1. IInv /\ ProcInit
  BY InitIInv DEF SlInit
<1>2. SlTyped /\ Present /\ Guarded /\ OneHolder /\ SleepsLocked
  BY DEF SlInit, SlTyped, Present, Guarded, Guarding, OneHolder, SleepsLocked
<1>3. PidsDiffer
  <2>1. kept[1] = NULL /\ kept[2] = 0
    BY DEF SlInit
  <2>2. /\ \A p \in Slots : state[p] = (IF p \in Booted THEN "RUNNABLE" ELSE "UNUSED")
        /\ \A p \in Slots : p \in Booted => pid[p] = p
        /\ nextpid = NLOOP + 2
    BY <1>1 DEF ProcInit
  <2> QED
    BY <2>1, <2>2 DEF PidsDiffer, Booted, Slots
<1>4. NoLostWakeup
  BY <1>1 DEF ProcInit, NoLostWakeup
<1> QED
  BY <1>1, <1>2, <1>3, <1>4 DEF SlInv

LEMMA SlNextInv == IInv /\ SlInv /\ [SlNext]_vars => IInv' /\ SlInv'
<1> SUFFICES ASSUME IInv, SlInv, [SlNext]_vars PROVE IInv' /\ SlInv'
  OBVIOUS
<1>1. IInv'
  BY ProcPart, NextIInv DEF vars
<1>2. CASE UNCHANGED vars
  <2>1. SlTyped' /\ Present' /\ Guarded' /\ OneHolder' /\ SleepsLocked' /\ PidsDiffer'
    BY <1>2 DEF vars, procVars, slVars, SlInv, SlTyped, Present, Stays, Guarded, OneHolder,
                SleepsLocked, PidsDiffer
  <2>2. NoLostWakeup'
    BY <1>2 DEF vars, procVars, slVars, SlInv, NoLostWakeup, At
  <2> QED
    BY <1>1, <2>1, <2>2 DEF SlInv
<1>3. ASSUME NEW c \in CPUs, LockStep(c) PROVE SlInv'
  BY <1>1, <1>3, AcquireLkSl, TestLockedSl, SleepOnLockSl, TakeLockSl, ClearLockedSl, CallWakeupSl,
     ReleaseLkSl, LeaveWithLockSl DEF LockStep
<1>4. ASSUME NEW c \in CPUs, OtherStep(c) PROVE SlInv'
  BY <1>1, <1>4, OtherStepSl
<1> QED
  BY <1>1, <1>2, <1>3, <1>4 DEF SlNext

\* The invariant of the sleeplock holds with that of the process table.
THEOREM SpecSlInv == SlSpec => [](IInv /\ SlInv)
  BY SlInitInv, SlNextInv, PTL DEF SlSpec

\* holdingsleep() of sleeplock.c is true of exactly the process that has the
\* lock, wherever it slept and whatever CPU it runs on.
THEOREM SpecHolderKnown == SlSpec => []HolderKnown
<1>1. ASSUME IInv, SlInv PROVE HolderKnown
  <2> SUFFICES ASSUME NEW p \in Slots, state[p] \notin {"UNUSED", "EMBRYO"}
               PROVE  Has(p) <=> holdingsleep(p)
    BY DEF HolderKnown
  <2>0. p # NULL /\ kept = <<kept[1], kept[2]>>
    BY <1>1 DEF SlInv, SlTyped, NULL, Slots
  <2>1. Has(p) => holdingsleep(p)
    BY <1>1, <2>0 DEF SlInv, OneHolder, holdingsleep, Has
  <2>2. ASSUME holdingsleep(p), kept[1] # NULL PROVE Has(p)
    <3>1. kept[1] = p /\ kept[2] = pid[p]
      BY <1>1, <2>2 DEF SlInv, OneHolder, PidsDiffer, holdingsleep
    <3> QED
      BY <2>0, <3>1 DEF Has
  <2>3. ASSUME holdingsleep(p), kept[1] = NULL PROVE Has(p)
    <3> PICK q \in Slots : spc[q] = "held"
      BY <1>1, <2>3 DEF SlInv, OneHolder, holdingsleep
    <3>1. pid[q] = pid[p] /\ state[q] # "UNUSED"
      BY <1>1, <2>3, UsersAlive DEF SlInv, OneHolder, holdingsleep
    <3>2. q = p
      BY <1>1, <3>1 DEF SlInv, PidsDiffer
    <3> QED
      BY <3>2 DEF Has
  <2> QED
    BY <2>1, <2>2, <2>3
<1> QED
  BY <1>1, SpecSlInv, PTL

\* acquiresleep() and sleep() against releasesleep(): whenever the lock is free
\* and a process sleeps on it, or is about to, a wakeup() of it is to come.
THEOREM SpecNoLostWakeup == SlSpec => []NoLostWakeup
<1>1. SlInv => NoLostWakeup
  BY DEF SlInv
<1> QED
  BY <1>1, SpecSlInv, PTL

-----------------------------------------------------------------------------
(* Refinement.                                                             *)

LEMMA SlHolderIs == ASSUME OneHolder, NEW p \in Slots, spc[p] = "held" PROVE SlHolder = p
<1>1. \A q \in Slots : spc[q] = "held" => q = p
  BY DEF OneHolder
<1> QED
  BY <1>1 DEF SlHolder

LEMMA SlHolderNone == ASSUME \A p \in Slots : spc[p] # "held" PROVE SlHolder = kept[1]
  BY DEF SlHolder

\* The same two facts about the next state.
LEMMA SlHolderIsNext == ASSUME OneHolder', NEW p \in Slots, spc'[p] = "held" PROVE SlHolder' = p
<1>1. \A q \in Slots : spc'[q] = "held" => q = p
  BY DEF OneHolder
<1> QED
  BY <1>1 DEF SlHolder

LEMMA SlHolderNoneNext == ASSUME \A p \in Slots : spc'[p] # "held" PROVE SlHolder' = kept'[1]
  BY DEF SlHolder

LEMMA SlHolderKept ==
    ASSUME OneHolder, OneHolder', kept' = kept,
           \A p \in Slots : spc[p] = "held" <=> spc'[p] = "held"
    PROVE  SlHolder' = SlHolder
<1>1. CASE \E p \in Slots : spc[p] = "held"
  BY <1>1, SlHolderIs, SlHolderIsNext
<1>2. CASE ~ \E p \in Slots : spc[p] = "held"
  BY <1>2, SlHolderNone, SlHolderNoneNext
<1> QED
  BY <1>1, <1>2

\* acquiresleep() and releasesleep() implement the abstract mutex with the
\* processes as its agents, through every sleep and change of CPU.
THEOREM SpecSlImplementsMutex == SlSpec => SlImplementsMutex
<1>1. SlInit => SlAbstract!Init
  BY SlHolderNone DEF SlInit, SlAbstract!Init
<1>2. IInv /\ SlInv /\ SlInv' /\ [SlNext]_vars => [SlAbstract!Next]_SlHolder
  <2> SUFFICES ASSUME IInv, SlInv, SlInv', [SlNext]_vars
               PROVE  SlAbstract!Next \/ SlHolder' = SlHolder
    OBVIOUS
  <2>0. OneHolder /\ OneHolder'
    BY DEF SlInv
  <2>1. ASSUME NEW c \in CPUs, TakeLock(c) PROVE SlAbstract!Next
    <3>1. /\ cproc[c] \in Slots /\ spc'[cproc[c]] = "held" /\ locked = 0
      BY <2>1, Moves DEF TakeLock, Uses
    <3>2. \A p \in Slots : spc[p] # "held"
      BY <2>0, <3>1 DEF OneHolder
    <3>3. SlHolder = NULL /\ SlHolder' = cproc[c]
      BY <2>0, <3>1, <3>2, SlHolderNone, SlHolderIsNext DEF OneHolder
    <3> QED
      BY <3>1, <3>3 DEF SlAbstract!Next, SlAbstract!Acquire
  <2>2. ASSUME NEW c \in CPUs, ClearLocked(c) PROVE SlAbstract!Next
    <3>1. /\ cproc[c] \in Slots /\ spc[cproc[c]] = "held" /\ locked' = 0
      BY <2>2, Moves DEF ClearLocked, Uses
    <3>2. \A p \in Slots : spc'[p] # "held"
      BY <2>0, <3>1 DEF OneHolder
    <3>3. SlHolder = cproc[c] /\ SlHolder' = NULL
      BY <2>0, <3>1, <3>2, SlHolderIs, SlHolderNoneNext DEF OneHolder
    <3> QED
      BY <3>1, <3>3 DEF SlAbstract!Next, SlAbstract!Release
  <2>3. ASSUME NEW c \in CPUs, \/ AcquireLk(c) \/ TestLocked(c) \/ SleepOnLock(c)
                               \/ CallWakeup(c) \/ ReleaseLk(c)
        PROVE  SlHolder' = SlHolder
    <3> PICK from \in Uses \ {"held"}, to \in Uses \ {"held"} : At(c, from) /\ Go(c, to)
      BY <2>3 DEF AcquireLk, TestLocked, SleepOnLock, CallWakeup, ReleaseLk, Uses
    <3>1. (\A p \in Slots : spc[p] = "held" <=> spc'[p] = "held") /\ kept' = kept
      BY <2>3, Moves DEF AcquireLk, TestLocked, SleepOnLock, CallWakeup, ReleaseLk
    <3> QED
      BY <2>0, <3>1, SlHolderKept
  <2>4. ASSUME NEW c \in CPUs, LeaveWithLock(c) PROVE SlHolder' = SlHolder
    <3>1. /\ cproc[c] \in Slots /\ spc[cproc[c]] = "held" /\ spc'[cproc[c]] = "out"
          /\ \A p \in Slots : p # cproc[c] => spc'[p] = spc[p]
          /\ kept'[1] = cproc[c]
      BY <2>4, Moves DEF LeaveWithLock, Uses
    <3>2. \A p \in Slots : spc'[p] # "held"
      BY <2>0, <3>1 DEF OneHolder
    <3> QED
      BY <2>0, <3>1, <3>2, SlHolderIs, SlHolderNoneNext
  <2>5. CASE UNCHANGED <<spc, kept>>
    BY <2>0, <2>5, SlHolderKept
  <2> QED
    BY <2>1, <2>2, <2>3, <2>4, <2>5 DEF SlNext, LockStep, OtherStep, vars, slVars
<1> QED
  BY <1>1, <1>2, SpecSlInv, PTL DEF SlSpec, SlImplementsMutex, SlAbstract!Spec

-----------------------------------------------------------------------------
(***************************************************************************)
(* Proofs about the two locks of kern/spinlock.c, for any set of CPUs.     *)
(*                                                                         *)
(* The spinlock: Inv is inductive, and with it every step is a step of the *)
(* abstract mutex or leaves its holder as it is.                           *)
(*                                                                         *)
(* The MCS lock is passed on in the order of the exchanges (FrontOwns).    *)
(* Its queue is spread over the nodes: each CPU knows the one before it    *)
(* from its own exchange (tail) and the one behind it only once that one   *)
(* has written its link (next).  McsInv relates both to the order of the   *)
(* exchanges: between two neighbours the link is either still to be        *)
(* written or written and waited on, and only the first CPU can find its   *)
(* word cleared.                                                           *)
(***************************************************************************)

-----------------------------------------------------------------------------
(* The spinlock.                                                           *)

\* After initlock() the lock is free and its fields agree with that.
LEMMA InitInv == Init => Inv
  BY CpuAssumption
  DEF Init, Inv, SpinTypeOK, MutualExclusion, HoldingExact, FieldsMatch, Owning,
      InAcquire, InRelease

\* Every access of acquire() and release() to the lock preserves Inv.
LEMMA StepInv == Inv /\ [Next]_spinVars => Inv'
<1> SUFFICES ASSUME Inv, [Next]_spinVars PROVE Inv'
  OBVIOUS
<1> USE CpuAssumption DEF Inv, SpinTypeOK, MutualExclusion, HoldingExact, FieldsMatch,
                          Owning, InAcquire, InRelease, GotoPc
<1>1. ASSUME NEW c \in CPUs, CallAcquire(c) PROVE Inv'
  BY <1>1 DEF CallAcquire
<1>2. ASSUME NEW c \in CPUs, CallRelease(c) PROVE Inv'
  BY <1>2 DEF CallRelease
<1>3. ASSUME NEW c \in CPUs, AcquireReadsLocked(c) PROVE Inv'
  BY <1>3 DEF AcquireReadsLocked
<1>4. ASSUME NEW c \in CPUs, AcquireReadsCpu(c) PROVE Inv'
  BY <1>4 DEF AcquireReadsCpu
<1>5. ASSUME NEW c \in CPUs, Spin(c) PROVE Inv'
  BY <1>5 DEF Spin
<1>6. ASSUME NEW c \in CPUs, TestAndSet(c) PROVE Inv'
  BY <1>6 DEF TestAndSet
<1>7. ASSUME NEW c \in CPUs, SetOwner(c) PROVE Inv'
  BY <1>7 DEF SetOwner
<1>8. ASSUME NEW c \in CPUs, ReleaseReadsLocked(c) PROVE Inv'
  BY <1>8 DEF ReleaseReadsLocked
<1>9. ASSUME NEW c \in CPUs, ReleaseReadsCpu(c) PROVE Inv'
  BY <1>9 DEF ReleaseReadsCpu
<1>10. ASSUME NEW c \in CPUs, ClearOwner(c) PROVE Inv'
  BY <1>10 DEF ClearOwner
<1>11. ASSUME NEW c \in CPUs, Unlock(c) PROVE Inv'
  BY <1>11 DEF Unlock
<1>12. CASE UNCHANGED spinVars
  BY <1>12 DEF spinVars
<1> QED
  BY <1>1, <1>2, <1>3, <1>4, <1>5, <1>6, <1>7, <1>8, <1>9, <1>10, <1>11, <1>12
  DEF Next, Step

\* The two words of a spinlock always agree with who owns it.
THEOREM SpecInv == Spec => []Inv
  BY InitInv, StepInv, PTL DEF Spec

\* At most one CPU is between its test-and-set and its clear, on any number
\* of CPUs.
THEOREM SpecMutualExclusion == Spec => []MutualExclusion
<1>1. Inv => MutualExclusion
  BY DEF Inv
<1> QED
  BY <1>1, SpecInv, PTL

\* holding() never misjudges a lock that others are changing: the panics of
\* acquire() and release() are not reached.
THEOREM SpecHoldingExact == Spec => []HoldingExact
<1>1. Inv => HoldingExact
  BY DEF Inv
<1> QED
  BY <1>1, SpecInv, PTL

-----------------------------------------------------------------------------
(* Refinement.                                                             *)

\* The CPU that owns the lock is the holder.
LEMMA HolderIs == ASSUME Inv, NEW c \in CPUs, pc[c] \in Owning PROVE Holder = c
<1>1. \A d \in CPUs : pc[d] \in Owning => d = c
  BY DEF Inv, MutualExclusion
<1> QED
  BY <1>1 DEF Holder

\* Nobody owns the lock.
LEMMA HolderNone == ASSUME \A c \in CPUs : pc[c] \notin Owning PROVE Holder = NoCpu
  BY DEF Holder

\* The same two facts about the next state.
LEMMA HolderIsNext == ASSUME Inv', NEW c \in CPUs, pc'[c] \in Owning PROVE Holder' = c
<1>1. \A d \in CPUs : pc'[d] \in Owning => d = c
  BY DEF Inv, MutualExclusion
<1> QED
  BY <1>1 DEF Holder

LEMMA HolderNoneNext == ASSUME \A c \in CPUs : pc'[c] \notin Owning PROVE Holder' = NoCpu
  BY DEF Holder

\* A step that changes nobody's ownership leaves the holder as it is.
LEMMA HolderKept ==
    ASSUME Inv, Inv', \A c \in CPUs : pc[c] \in Owning <=> pc'[c] \in Owning
    PROVE  Holder' = Holder
<1>1. CASE \E c \in CPUs : pc[c] \in Owning
  <2> PICK c \in CPUs : pc[c] \in Owning
    BY <1>1
  <2> QED
    BY HolderIs, HolderIsNext
<1>2. CASE ~ \E c \in CPUs : pc[c] \in Owning
  BY <1>2, HolderNone, HolderNoneNext
<1> QED
  BY <1>1, <1>2

\* acquire() and release() of spinlock.c implement the abstract mutex.
THEOREM SpecImplementsMutex == Spec => ImplementsMutex
<1>1. Init => Abstract!Init
  BY HolderNone DEF Init, Abstract!Init, Owning, InRelease
<1>2. Inv /\ Inv' /\ [Next]_spinVars => [Abstract!Next]_Holder
  <2> SUFFICES ASSUME Inv, Inv', [Next]_spinVars
               PROVE  Abstract!Next \/ Holder' = Holder
    OBVIOUS
  <2> USE DEF GotoPc
  <2>1. ASSUME NEW c \in CPUs, TestAndSet(c), lk_locked = 0 PROVE Abstract!Next
    <3>1. \A d \in CPUs : pc[d] \notin Owning
      BY <2>1 DEF Inv, FieldsMatch
    <3>2. pc'[c] \in Owning
      BY <2>1 DEF TestAndSet, Owning, Inv, SpinTypeOK
    <3>3. Holder = NoCpu /\ Holder' = c
      BY <3>1, <3>2, HolderNone, HolderIsNext
    <3> QED
      BY <3>3 DEF Abstract!Next, Abstract!Acquire
  <2>2. ASSUME NEW c \in CPUs, Unlock(c) PROVE Abstract!Next
    <3>1. pc[c] \in Owning
      BY <2>2 DEF Unlock, Owning, InRelease
    <3>2. \A d \in CPUs : pc'[d] \notin Owning
      BY <2>2, <3>1 DEF Unlock, Inv, MutualExclusion, SpinTypeOK, Owning, InRelease
    <3>3. Holder = c /\ Holder' = NoCpu
      BY <3>1, <3>2, HolderIs, HolderNoneNext
    <3> QED
      BY <3>3 DEF Abstract!Next, Abstract!Release
  <2>3. ASSUME NEW c \in CPUs, \/ CallAcquire(c) \/ CallRelease(c)
                               \/ AcquireReadsLocked(c) \/ AcquireReadsCpu(c) \/ Spin(c)
                               \/ TestAndSet(c) /\ lk_locked # 0
                               \/ SetOwner(c) \/ ReleaseReadsLocked(c)
                               \/ ReleaseReadsCpu(c) \/ ClearOwner(c)
        PROVE  Holder' = Holder
    <3>1. \A d \in CPUs : pc[d] \in Owning <=> pc'[d] \in Owning
      BY <2>3, CpuAssumption
      DEF Inv, SpinTypeOK, HoldingExact, FieldsMatch, Owning, InAcquire, InRelease,
          CallAcquire, CallRelease, AcquireReadsLocked, AcquireReadsCpu, Spin,
          TestAndSet, SetOwner, ReleaseReadsLocked, ReleaseReadsCpu, ClearOwner
    <3> QED
      BY <3>1, HolderKept
  <2>4. CASE UNCHANGED spinVars
    BY <2>4, HolderKept DEF spinVars
  <2> QED
    BY <2>1, <2>2, <2>3, <2>4 DEF Next, Step
<1> QED
  BY <1>1, <1>2, SpecInv, PTL DEF Spec, ImplementsMutex, Abstract!Spec

-----------------------------------------------------------------------------
(* The MCS lock.                                                           *)

Points == {"out", "load", "cas"} \cup Enqueued

Typed ==
    /\ last \in CPUs \cup {NoCpu}
    /\ next \in [CPUs -> CPUs \cup {NoCpu}] /\ tail \in [CPUs -> CPUs \cup {NoCpu}]
    /\ nlocked \in [CPUs -> {0, 1}]
    /\ mpc \in [CPUs -> Points]
    /\ order \in Seq(CPUs)

\* The queue holds the CPUs between the two exchanges, each once, and the lock
\* word points to the last of them.
Queue ==
    /\ \A i, j \in 1..Len(order) : order[i] = order[j] => i = j
    /\ \A c \in CPUs : mpc[c] \in Enqueued <=> \E i \in 1..Len(order) : order[i] = c
    /\ last = IF order = <<>> THEN NoCpu ELSE order[Len(order)]

\* A CPU behind another one waits for it: it knows it, is linked from it
\* exactly when it spins, and finds its own word set when it does.
Behind(i) ==
    /\ mpc[order[i]] \in {"lock", "link", "wait"}
    /\ tail[order[i]] = order[i - 1]
    /\ mpc[order[i]] \in {"link", "wait"} => nlocked[order[i]] = 1
    /\ next[order[i - 1]] = IF mpc[order[i]] = "wait" THEN order[i] ELSE NoCpu

Waiters == \A i \in 2..Len(order) : Behind(i)

\* The first CPU of the queue has the lock or has been told so; the last one,
\* and one on its way into the queue, is not linked to another.
Ends ==
    /\ order # <<>> => /\ \/ mpc[order[1]] \in McsOwning
                          \/ mpc[order[1]] = "wait" /\ nlocked[order[1]] = 0
                       /\ next[order[Len(order)]] = NoCpu
    /\ \A c \in CPUs : mpc[c] \in {"load", "cas"} => next[c] = NoCpu

McsInv == Typed /\ Queue /\ Waiters /\ Ends
-----------------------------------------------------------------------------
(* Places in the queue.                                                    *)

\* The first and the last place.
LEMMA Places ==
    ASSUME Typed, order # <<>>
    PROVE  /\ Len(order) \in Nat \ {0} /\ 1 \in 1..Len(order) /\ Len(order) \in 1..Len(order)
           /\ Head(order) = order[1] /\ \A i \in 1..Len(order) : order[i] \in CPUs
  BY DEF Typed

\* A CPU that owns the lock is the first of the queue.
LEMMA OwnerFirst ==
    ASSUME McsInv, NEW c \in CPUs, mpc[c] \in McsOwning
    PROVE  order # <<>> /\ c = order[1]
<1>1. PICK i \in 1..Len(order) : order[i] = c
  BY DEF McsInv, Queue, Enqueued
<1>2. order # <<>> /\ Len(order) \in Nat
  BY <1>1 DEF McsInv, Typed
<1>3. CASE i = 1
  BY <1>1, <1>2, <1>3
<1>4. CASE i # 1
  <2>1. i \in 2..Len(order)
    BY <1>2, <1>4
  <2>2. Behind(i)
    BY <2>1 DEF McsInv, Waiters
  <2> QED
    BY <1>1, <2>2 DEF Behind, McsOwning
<1> QED
  BY <1>3, <1>4

\* A CPU that waits, its word not cleared, is behind another one.
LEMMA WaiterBehind ==
    ASSUME McsInv, NEW c \in CPUs, mpc[c] \in {"lock", "link"}
    PROVE  \E i \in 2..Len(order) : order[i] = c /\ Behind(i)
<1>1. PICK i \in 1..Len(order) : order[i] = c
  BY DEF McsInv, Queue, Enqueued
<1>2. order # <<>> /\ Len(order) \in Nat
  BY <1>1 DEF McsInv, Typed
<1>3. i # 1
  BY <1>1, <1>2 DEF McsInv, Ends, McsOwning
<1>4. i \in 2..Len(order)
  BY <1>2, <1>3
<1> QED
  BY <1>1, <1>4 DEF McsInv, Waiters

\* How a CPU's move shows in pc.
LEMMA Moved ==
    ASSUME Typed, NEW c \in CPUs, NEW l \in Points, McsGoto(c, l)
    PROVE  /\ mpc' \in [CPUs -> Points] /\ mpc'[c] = l
           /\ \A d \in CPUs \ {c} : mpc'[d] = mpc[d]
  BY DEF McsGoto, Typed

\* A step that leaves the queue and its nodes alone.
LEMMA QueueKept ==
    ASSUME McsInv, UNCHANGED <<last, order>>, \A d \in CPUs : mpc'[d] \in Enqueued <=> mpc[d] \in Enqueued
    PROVE  Queue'
  BY DEF McsInv, Queue

LEMMA WaitersKept ==
    ASSUME McsInv, UNCHANGED order,
           \A d \in CPUs : mpc[d] \in Enqueued =>
              /\ next'[d] = next[d] /\ nlocked'[d] = nlocked[d] /\ tail'[d] = tail[d]
              /\ mpc[d] \in {"lock", "link", "wait"} => mpc'[d] = mpc[d]
    PROVE  Waiters'
<1> SUFFICES ASSUME NEW i \in 2..Len(order) PROVE Behind(i)'
  BY DEF Waiters
<1>1. Behind(i)
  BY DEF McsInv, Waiters
<1>2. Len(order) \in Nat /\ i \in 1..Len(order) /\ i - 1 \in 1..Len(order)
  BY DEF McsInv, Typed
<1>3. order[i] \in CPUs /\ order[i - 1] \in CPUs
  BY <1>2 DEF McsInv, Typed
<1>4. mpc[order[i]] \in Enqueued /\ mpc[order[i - 1]] \in Enqueued
  BY <1>2, <1>3 DEF McsInv, Queue
<1>5. mpc'[order[i]] = mpc[order[i]]
  BY <1>1, <1>3, <1>4 DEF Behind
<1> QED
  BY <1>1, <1>3, <1>4, <1>5 DEF Behind

LEMMA InitMcsInv == ASSUME McsInit PROVE McsInv
<1>1. Typed
  BY DEF McsInit, Typed, Points
<1>2. Len(order) = 0 /\ order = <<>>
  BY DEF McsInit
<1>3. Queue
  BY <1>2 DEF McsInit, Queue, Enqueued, McsOwning
<1>4. Waiters /\ Ends
  BY <1>2 DEF McsInit, Waiters, Ends
<1> QED
  BY <1>1, <1>3, <1>4 DEF McsInv
-----------------------------------------------------------------------------
(* mcsacquire()                                                            *)

LEMMA InitNodeStep == ASSUME McsInv, NEW c \in CPUs, InitNode(c) PROVE McsInv'
<1>1. /\ mpc[c] = "out" /\ McsGoto(c, "load") /\ UNCHANGED <<last, tail, order>>
      /\ nlocked' = [nlocked EXCEPT ![c] = 0] /\ next' = [next EXCEPT ![c] = NoCpu]
  BY DEF InitNode
<1>2. mpc' \in [CPUs -> Points] /\ mpc'[c] = "load" /\ \A d \in CPUs \ {c} : mpc'[d] = mpc[d]
  BY <1>1, Moved DEF McsInv, Points
<1>3. /\ next'[c] = NoCpu
      /\ \A d \in CPUs \ {c} : next'[d] = next[d] /\ nlocked'[d] = nlocked[d]
  BY <1>1 DEF McsInv, Typed
<1>4. Typed'
  BY <1>1, <1>2 DEF McsInv, Typed
<1>5. Queue'
  BY <1>1, <1>2, QueueKept DEF Enqueued, McsOwning
<1>6. Waiters'
  BY <1>1, <1>2, <1>3, WaitersKept DEF Enqueued, McsOwning
<1>7. Ends'
  <2>1. order # <<>> => order[1] \in CPUs \ {c} /\ order[Len(order)] \in CPUs \ {c}
    BY <1>1, Places DEF McsInv, Queue, Enqueued, McsOwning
  <2> QED
    BY <1>1, <1>2, <1>3, <2>1 DEF McsInv, Ends
<1> QED
  BY <1>4, <1>5, <1>6, <1>7 DEF McsInv

LEMMA LoadTailStep == ASSUME McsInv, NEW c \in CPUs, LoadTail(c) PROVE McsInv'
<1>1. /\ mpc[c] = "load" /\ McsGoto(c, "cas") /\ UNCHANGED <<last, next, nlocked, order>>
      /\ tail' = [tail EXCEPT ![c] = last]
  BY DEF LoadTail
<1>2. mpc' \in [CPUs -> Points] /\ mpc'[c] = "cas" /\ \A d \in CPUs \ {c} : mpc'[d] = mpc[d]
  BY <1>1, Moved DEF McsInv, Points
<1>3. \A d \in CPUs \ {c} : tail'[d] = tail[d]
  BY <1>1 DEF McsInv, Typed
<1>4. Typed'
  BY <1>1, <1>2 DEF McsInv, Typed
<1>5. Queue'
  BY <1>1, <1>2, QueueKept DEF Enqueued, McsOwning
<1>6. Waiters'
  BY <1>1, <1>2, <1>3, WaitersKept DEF Enqueued, McsOwning
<1>7. Ends'
  <2>1. order # <<>> => order[1] \in CPUs \ {c}
    BY <1>1, Places DEF McsInv, Queue, Enqueued, McsOwning
  <2> QED
    BY <1>1, <1>2, <2>1 DEF McsInv, Ends
<1> QED
  BY <1>4, <1>5, <1>6, <1>7 DEF McsInv

\* The exchange fails: the queue is as it was.
LEMMA RetryStep == ASSUME McsInv, NEW c \in CPUs, Enqueue(c), last # tail[c] PROVE McsInv'
<1>1. mpc[c] = "cas" /\ McsGoto(c, "load") /\ UNCHANGED <<last, next, nlocked, tail, order>>
  BY DEF Enqueue
<1>2. mpc' \in [CPUs -> Points] /\ mpc'[c] = "load" /\ \A d \in CPUs \ {c} : mpc'[d] = mpc[d]
  BY <1>1, Moved DEF McsInv, Points
<1>4. Typed'
  BY <1>1, <1>2 DEF McsInv, Typed
<1>5. Queue'
  BY <1>1, <1>2, QueueKept DEF Enqueued, McsOwning
<1>6. Waiters'
  BY <1>1, <1>2, WaitersKept DEF Enqueued, McsOwning
<1>7. Ends'
  <2>1. order # <<>> => order[1] \in CPUs \ {c}
    BY <1>1, Places DEF McsInv, Queue, Enqueued, McsOwning
  <2> QED
    BY <1>1, <1>2, <2>1 DEF McsInv, Ends
<1> QED
  BY <1>4, <1>5, <1>6, <1>7 DEF McsInv

\* The exchange succeeds: the CPU is the last of the queue, behind the CPU it
\* has read, or alone with the lock.
LEMMA EnqueueStep == ASSUME McsInv, NEW c \in CPUs, Enqueue(c), last = tail[c] PROVE McsInv'
<1> DEFINE N == Len(order)
           l == IF tail[c] = NoCpu THEN "held" ELSE "lock"
<1>1. /\ mpc[c] = "cas" /\ last' = c /\ order' = Append(order, c) /\ McsGoto(c, l)
      /\ UNCHANGED <<next, nlocked, tail>>
  BY DEF Enqueue
<1>2. mpc' \in [CPUs -> Points] /\ mpc'[c] = l /\ \A d \in CPUs \ {c} : mpc'[d] = mpc[d]
  BY <1>1, Moved DEF McsInv, Points, Enqueued, McsOwning
<1>3. /\ order \in Seq(CPUs) /\ N \in Nat
      /\ order' \in Seq(CPUs) /\ Len(order') = N + 1 /\ order'[N + 1] = c
      /\ \A i \in 1..N : order'[i] = order[i] /\ order[i] \in CPUs
  BY <1>1 DEF McsInv, Typed
<1>4. \A i \in 1..N : order[i] # c /\ mpc[order[i]] \in Enqueued
  BY <1>1, <1>3 DEF McsInv, Queue, Enqueued, McsOwning
<1>5. order = <<>> <=> N = 0
  BY <1>3
<1>6. tail[c] = NoCpu <=> order = <<>>
  BY <1>3, <1>5, CpuAssumption DEF McsInv, Queue
<1> HIDE DEF N
<1>7. Typed'
  BY <1>1, <1>2, <1>3 DEF McsInv, Typed
<1>8. Queue'
  <2>1. ASSUME NEW i \in 1..(N + 1), NEW j \in 1..(N + 1), order'[i] = order'[j] PROVE i = j
    <3>1. i \in 1..N \/ i = N + 1
      BY <1>3
    <3>2. j \in 1..N \/ j = N + 1
      BY <1>3
    <3> QED
      BY <1>3, <1>4, <2>1, <3>1, <3>2 DEF McsInv, Queue, N
  <2>2. ASSUME NEW d \in CPUs PROVE mpc'[d] \in Enqueued <=> \E i \in 1..(N + 1) : order'[i] = d
    <3>1. CASE d = c
      <4>1. N + 1 \in 1..(N + 1)
        BY <1>3
      <4> QED
        BY <1>2, <1>3, <3>1, <4>1 DEF Enqueued, McsOwning
    <3>2. CASE d # c
      <4>1. 1..(N + 1) = 1..N \cup {N + 1}
        BY <1>3
      <4>2. mpc[d] \in Enqueued <=> \E i \in 1..N : order[i] = d
        BY DEF McsInv, Queue, N
      <4>3. (\E i \in 1..(N + 1) : order'[i] = d) <=> \E i \in 1..N : order[i] = d
        <5>1. ASSUME NEW i \in 1..(N + 1), order'[i] = d PROVE \E j \in 1..N : order[j] = d
          <6>1. i \in 1..N
            BY <1>3, <3>2, <4>1, <5>1
          <6> QED
            BY <1>3, <5>1, <6>1
        <5>2. ASSUME NEW i \in 1..N, order[i] = d PROVE \E j \in 1..(N + 1) : order'[j] = d
          BY <1>3, <4>1, <5>2
        <5> QED
          BY <5>1, <5>2
      <4> QED
        BY <1>2, <3>2, <4>2, <4>3
    <3> QED
      BY <3>1, <3>2
  <2>3. last' = order'[Len(order')] /\ order' # <<>>
    BY <1>1, <1>3
  <2> QED
    BY <1>3, <2>1, <2>2, <2>3 DEF Queue
<1>9. Waiters'
  <2> SUFFICES ASSUME NEW i \in 2..(N + 1) PROVE Behind(i)'
    BY <1>3 DEF Waiters
  <2>1. CASE i = N + 1
    <3>1. N \in 1..N /\ order # <<>> /\ i - 1 = N
      BY <1>3, <1>5, <2>1
    <3>2. tail[c] = order[N] /\ next[order[N]] = NoCpu /\ order[N] # c
      BY <1>4, <3>1 DEF McsInv, Queue, Ends, N
    <3>3. mpc'[c] = "lock"
      BY <1>2, <1>6, <3>1
    <3> QED
      BY <1>1, <1>3, <2>1, <3>1, <3>2, <3>3 DEF Behind
  <2>2. CASE i # N + 1
    <3>1. i \in 2..N /\ i \in 1..N /\ i - 1 \in 1..N
      BY <1>3, <2>2
    <3>2. Behind(i)
      BY <3>1 DEF McsInv, Waiters, N
    <3>3. mpc'[order[i]] = mpc[order[i]]
      BY <1>2, <1>3, <1>4, <3>1
    <3> QED
      BY <1>1, <1>3, <3>1, <3>2, <3>3 DEF Behind
  <2> QED
    BY <2>1, <2>2
<1>10. Ends'
  <2>1. next'[order'[Len(order')]] = NoCpu
    BY <1>1, <1>3 DEF McsInv, Ends
  <2>2. \A d \in CPUs : mpc'[d] \in {"load", "cas"} => next'[d] = NoCpu
    BY <1>1, <1>2 DEF McsInv, Ends
  <2>3. CASE order = <<>>
    <3>1. order'[1] = c /\ mpc'[c] = "held"
      BY <1>2, <1>3, <1>5, <1>6, <2>3
    <3> QED
      BY <2>1, <2>2, <3>1 DEF Ends, McsOwning
  <2>4. CASE order # <<>>
    <3>1. 1 \in 1..N
      BY <1>3, <1>5, <2>4
    <3>2. order'[1] = order[1] /\ mpc'[order[1]] = mpc[order[1]]
      BY <1>2, <1>3, <1>4, <3>1
    <3> QED
      BY <1>1, <2>1, <2>2, <2>4, <3>2 DEF McsInv, Ends
  <2> QED
    BY <2>3, <2>4
<1> QED
  BY <1>7, <1>8, <1>9, <1>10 DEF McsInv

LEMMA SetLockedStep == ASSUME McsInv, NEW c \in CPUs, SetLocked(c) PROVE McsInv'
<1>1. /\ mpc[c] = "lock" /\ nlocked' = [nlocked EXCEPT ![c] = 1] /\ McsGoto(c, "link")
      /\ UNCHANGED <<last, next, tail, order>>
  BY DEF SetLocked
<1>2. mpc' \in [CPUs -> Points] /\ mpc'[c] = "link" /\ \A d \in CPUs \ {c} : mpc'[d] = mpc[d]
  BY <1>1, Moved DEF McsInv, Points, Enqueued, McsOwning
<1>3. /\ nlocked' \in [CPUs -> {0, 1}] /\ nlocked'[c] = 1
      /\ \A d \in CPUs \ {c} : nlocked'[d] = nlocked[d]
  BY <1>1 DEF McsInv, Typed
<1>4. Typed'
  BY <1>1, <1>2, <1>3 DEF McsInv, Typed
<1>5. Queue'
  BY <1>1, <1>2, QueueKept DEF Enqueued, McsOwning
<1>6. Waiters'
  <2> SUFFICES ASSUME NEW i \in 2..Len(order) PROVE Behind(i)'
    BY <1>1 DEF Waiters
  <2>1. Behind(i)
    BY DEF McsInv, Waiters
  <2>2. order[i] \in CPUs
    BY DEF McsInv, Typed
  <2>3. CASE order[i] = c
    BY <1>1, <1>2, <1>3, <2>1, <2>3 DEF Behind
  <2>4. CASE order[i] # c
    BY <1>1, <1>2, <1>3, <2>1, <2>2, <2>4 DEF Behind
  <2> QED
    BY <2>3, <2>4
<1>7. Ends'
  <2>1. order # <<>> => order[1] \in CPUs \ {c}
    BY <1>1, Places DEF McsInv, Ends, McsOwning
  <2> QED
    BY <1>1, <1>2, <1>3, <2>1 DEF McsInv, Ends
<1> QED
  BY <1>4, <1>5, <1>6, <1>7 DEF McsInv

\* tail->next = i: the node written is the one of the CPU in front.
LEMMA LinkStep == ASSUME McsInv, NEW c \in CPUs, Link(c) PROVE McsInv'
<1>1. /\ mpc[c] = "link" /\ next' = [next EXCEPT ![tail[c]] = c] /\ McsGoto(c, "wait")
      /\ UNCHANGED <<last, nlocked, tail, order>>
  BY DEF Link
<1>2. mpc' \in [CPUs -> Points] /\ mpc'[c] = "wait" /\ \A d \in CPUs \ {c} : mpc'[d] = mpc[d]
  BY <1>1, Moved DEF McsInv, Points, Enqueued, McsOwning
<1>3. PICK k \in 2..Len(order) : order[k] = c /\ Behind(k)
  BY <1>1, WaiterBehind
<1>4. /\ Len(order) \in Nat /\ k \in 1..Len(order) /\ k - 1 \in 1..Len(order) /\ order # <<>>
      /\ order[k - 1] \in CPUs /\ tail[c] = order[k - 1] /\ nlocked[c] = 1
      /\ k # 1 /\ k - 1 # Len(order)
  BY <1>1, <1>3 DEF McsInv, Typed, Behind
<1>5. /\ next' \in [CPUs -> CPUs \cup {NoCpu}] /\ next'[order[k - 1]] = c
      /\ \A d \in CPUs \ {order[k - 1]} : next'[d] = next[d]
  BY <1>1, <1>4 DEF McsInv, Typed
<1>6. Typed'
  BY <1>1, <1>2, <1>5 DEF McsInv, Typed
<1>7. Queue'
  BY <1>1, <1>2, QueueKept DEF Enqueued, McsOwning
<1>8. Waiters'
  <2> SUFFICES ASSUME NEW i \in 2..Len(order) PROVE Behind(i)'
    BY <1>1 DEF Waiters
  <2>1. Behind(i)
    BY DEF McsInv, Waiters
  <2>2. i \in 1..Len(order) /\ i - 1 \in 1..Len(order)
    BY <1>4
  <2>3. order[i] \in CPUs /\ order[i - 1] \in CPUs
    BY <2>2 DEF McsInv, Typed
  <2>4. CASE i = k
    BY <1>1, <1>2, <1>3, <1>4, <1>5, <2>4 DEF Behind
  <2>5. CASE i # k
    <3>1. order[i] # order[k]
      BY <1>4, <2>2, <2>5 DEF McsInv, Queue
    <3>2. order[i - 1] # order[k - 1]
      <4>1. i - 1 # k - 1
        BY <1>4, <2>2, <2>5
      <4> QED
        BY <1>4, <2>2, <4>1 DEF McsInv, Queue
    <3>3. mpc'[order[i]] = mpc[order[i]] /\ next'[order[i - 1]] = next[order[i - 1]]
      BY <1>2, <1>3, <1>5, <2>3, <3>1, <3>2
    <3> QED
      BY <1>1, <2>1, <3>3 DEF Behind
  <2> QED
    BY <2>4, <2>5
<1>9. Ends'
  <2>1. order[1] \in CPUs \ {c} /\ order[Len(order)] \in CPUs
    BY <1>1, <1>4, Places DEF McsInv, Ends, McsOwning
  <2>2. order[Len(order)] # order[k - 1]
    BY <1>4, Places DEF McsInv, Queue
  <2>3. ASSUME NEW d \in CPUs, mpc'[d] \in {"load", "cas"} PROVE next'[d] = NoCpu
    <3>1. mpc[d] \in {"load", "cas"}
      BY <1>2, <2>3
    <3>2. d # order[k - 1]
      BY <1>4, <3>1 DEF McsInv, Queue, Enqueued, McsOwning
    <3> QED
      BY <1>5, <3>1, <3>2 DEF McsInv, Ends
  <2> QED
    BY <1>1, <1>2, <1>4, <1>5, <2>1, <2>2, <2>3 DEF McsInv, Ends
<1> QED
  BY <1>6, <1>7, <1>8, <1>9 DEF McsInv

\* Only the first CPU of the queue finds its word cleared.
LEMMA GrantedStep == ASSUME McsInv, NEW c \in CPUs, Granted(c) PROVE McsInv'
<1>1. /\ mpc[c] = "wait" /\ nlocked[c] = 0 /\ McsGoto(c, "held")
      /\ UNCHANGED <<last, next, nlocked, tail, order>>
  BY DEF Granted
<1>2. mpc' \in [CPUs -> Points] /\ mpc'[c] = "held" /\ \A d \in CPUs \ {c} : mpc'[d] = mpc[d]
  BY <1>1, Moved DEF McsInv, Points, Enqueued, McsOwning
<1>3. order # <<>> /\ \A i \in 2..Len(order) : order[i] # c
  <2>1. \E i \in 1..Len(order) : order[i] = c
    BY <1>1 DEF McsInv, Queue, Enqueued
  <2>2. order # <<>>
    BY <2>1 DEF McsInv, Typed
  <2> QED
    BY <1>1, <2>2 DEF McsInv, Waiters, Behind
<1>4. order[1] = c
  <2>1. PICK i \in 1..Len(order) : order[i] = c
    BY <1>1 DEF McsInv, Queue, Enqueued
  <2>2. Len(order) \in Nat
    BY DEF McsInv, Typed
  <2> QED
    BY <1>3, <2>1, <2>2
<1>5. Typed'
  BY <1>1, <1>2 DEF McsInv, Typed
<1>6. Queue'
  BY <1>1, <1>2, QueueKept DEF Enqueued, McsOwning
<1>7. Waiters'
  <2> SUFFICES ASSUME NEW i \in 2..Len(order) PROVE Behind(i)'
    BY <1>1 DEF Waiters
  <2>1. Behind(i) /\ order[i] \in CPUs \ {c}
    BY <1>3 DEF McsInv, Waiters, Typed
  <2> QED
    BY <1>1, <1>2, <2>1 DEF Behind
<1>8. Ends'
  BY <1>1, <1>2, <1>3, <1>4 DEF McsInv, Ends, McsOwning
<1> QED
  BY <1>5, <1>6, <1>7, <1>8 DEF McsInv
-----------------------------------------------------------------------------
(* mcsrelease()                                                            *)

\* Nobody is behind: the queue becomes empty.
LEMMA DequeueStep == ASSUME McsInv, NEW c \in CPUs, TryDequeue(c), last = c PROVE McsInv'
<1>1. /\ mpc[c] = "held" /\ last' = NoCpu /\ order' = Tail(order) /\ McsGoto(c, "out")
      /\ UNCHANGED <<next, nlocked, tail>>
  BY DEF TryDequeue
<1>2. mpc' \in [CPUs -> Points] /\ mpc'[c] = "out" /\ \A d \in CPUs \ {c} : mpc'[d] = mpc[d]
  BY <1>1, Moved DEF McsInv, Points
<1>3. order # <<>> /\ order[1] = c
  BY <1>1, OwnerFirst DEF McsOwning
<1>4. Len(order) = 1
  <2>1. order[Len(order)] = order[1]
    BY <1>3 DEF McsInv, Queue
  <2> QED
    BY <1>3, <2>1, Places DEF McsInv, Queue
<1>5. order' \in Seq(CPUs) /\ order' = <<>> /\ Len(order') = 0
  <2>1. Tail(order) \in Seq(CPUs) /\ Len(Tail(order)) = 0
    BY <1>3, <1>4 DEF McsInv, Typed
  <2> QED
    BY <1>1, <2>1
<1>6. \A d \in CPUs \ {c} : mpc[d] \notin Enqueued
  <2> SUFFICES ASSUME NEW d \in CPUs \ {c}, mpc[d] \in Enqueued PROVE FALSE
    OBVIOUS
  <2>1. PICK i \in 1..Len(order) : order[i] = d
    BY DEF McsInv, Queue
  <2> QED
    BY <1>3, <1>4, <2>1
<1>7. Typed'
  BY <1>1, <1>2, <1>5 DEF McsInv, Typed
<1>8. Queue'
  <2>1. 1..Len(order') = {}
    BY <1>5
  <2>2. \A d \in CPUs : mpc'[d] \notin Enqueued
    BY <1>2, <1>6 DEF Enqueued, McsOwning
  <2> QED
    BY <1>1, <1>5, <2>1, <2>2 DEF Queue
<1>9. Waiters'
  <2>1. 2..Len(order') = {}
    BY <1>5
  <2> QED
    BY <2>1 DEF Waiters
<1>10. Ends'
  BY <1>1, <1>2, <1>5 DEF McsInv, Ends
<1> QED
  BY <1>7, <1>8, <1>9, <1>10 DEF McsInv

LEMMA FollowedStep == ASSUME McsInv, NEW c \in CPUs, TryDequeue(c), last # c PROVE McsInv'
<1>1. mpc[c] = "held" /\ McsGoto(c, "successor") /\ UNCHANGED <<last, next, nlocked, tail, order>>
  BY DEF TryDequeue
<1>2. mpc' \in [CPUs -> Points] /\ mpc'[c] = "successor" /\ \A d \in CPUs \ {c} : mpc'[d] = mpc[d]
  BY <1>1, Moved DEF McsInv, Points, Enqueued, McsOwning
<1>3. order # <<>> /\ order[1] = c
  BY <1>1, OwnerFirst DEF McsOwning
<1>4. Typed'
  BY <1>1, <1>2 DEF McsInv, Typed
<1>5. Queue'
  BY <1>1, <1>2, QueueKept DEF Enqueued, McsOwning
<1>6. Waiters'
  <2>1. \A d \in CPUs : mpc[d] \in {"lock", "link", "wait"} => mpc'[d] = mpc[d]
    BY <1>1, <1>2
  <2> QED
    BY <1>1, <2>1, WaitersKept
<1>7. Ends'
  BY <1>1, <1>2, <1>3 DEF McsInv, Ends, McsOwning
<1> QED
  BY <1>4, <1>5, <1>6, <1>7 DEF McsInv

\* The lock goes to the second CPU of the queue, which spins on its word.
LEMMA PassOnStep == ASSUME McsInv, NEW c \in CPUs, PassOn(c) PROVE McsInv'
<1> DEFINE N == Len(order)
           s == order[2]
<1>1. /\ mpc[c] = "successor" /\ next[c] # NoCpu /\ nlocked' = [nlocked EXCEPT ![next[c]] = 0]
      /\ order' = Tail(order) /\ McsGoto(c, "out") /\ UNCHANGED <<last, next, tail>>
  BY DEF PassOn
<1>2. mpc' \in [CPUs -> Points] /\ mpc'[c] = "out" /\ \A d \in CPUs \ {c} : mpc'[d] = mpc[d]
  BY <1>1, Moved DEF McsInv, Points
<1>3. order # <<>> /\ order[1] = c
  BY <1>1, OwnerFirst DEF McsOwning
<1>4. N \in Nat /\ N >= 2 /\ 2 \in 2..N /\ 2 \in 1..N /\ 1 \in 1..N
  <2>1. N # 1
    BY <1>1, <1>3 DEF McsInv, Ends
  <2>2. N \in Nat \ {0}
    BY <1>3, Places DEF McsInv
  <2> HIDE DEF N
  <2> QED
    BY <2>1, <2>2
<1>5. next[c] = s /\ mpc[s] = "wait" /\ s \in CPUs
  <2>1. Behind(2)
    BY <1>4 DEF McsInv, Waiters
  <2>2. next[order[2 - 1]] = IF mpc[s] = "wait" THEN s ELSE NoCpu
    BY <2>1 DEF Behind
  <2>3. 2 - 1 = 1
    OBVIOUS
  <2> QED
    BY <1>1, <1>3, <1>4, <2>2, <2>3 DEF McsInv, Typed
<1>6. /\ order \in Seq(CPUs) /\ order' \in Seq(CPUs) /\ Len(order') = N - 1
      /\ \A i \in 1..(N - 1) : order'[i] = order[i + 1]
  BY <1>1, <1>3 DEF McsInv, Typed
<1>7. \A i \in 1..N : order[i] \in CPUs
  BY <1>6
<1>8. /\ nlocked' \in [CPUs -> {0, 1}] /\ nlocked'[s] = 0 /\ \A d \in CPUs \ {s} : nlocked'[d] = nlocked[d]
  BY <1>1, <1>5 DEF McsInv, Typed
<1>9. \A i, j \in 1..N : order[i] = order[j] => i = j
  BY DEF McsInv, Queue
<1> HIDE DEF N
<1>10. \A i \in 2..N : order[i] # c
  BY <1>3, <1>4, <1>9
<1>11. Typed'
  BY <1>1, <1>2, <1>6, <1>8 DEF McsInv, Typed
<1>12. Queue'
  <2>1. ASSUME NEW i \in 1..(N - 1), NEW j \in 1..(N - 1), order'[i] = order'[j] PROVE i = j
    <3>1. i + 1 \in 1..N /\ j + 1 \in 1..N /\ order[i + 1] = order[j + 1]
      BY <1>4, <1>6, <2>1
    <3>2. i + 1 = j + 1
      BY <1>9, <3>1
    <3> QED
      BY <3>2
  <2>2. ASSUME NEW d \in CPUs PROVE mpc'[d] \in Enqueued <=> \E i \in 1..(N - 1) : order'[i] = d
    <3>1. CASE d = c
      <4>1. ASSUME NEW i \in 1..(N - 1) PROVE order'[i] # c
        <5>1. i + 1 \in 2..N /\ order'[i] = order[i + 1]
          BY <1>4, <1>6
        <5> QED
          BY <1>10, <5>1
      <4> QED
        BY <1>2, <3>1, <4>1 DEF Enqueued, McsOwning
    <3>2. CASE d # c
      <4>1. ASSUME NEW i \in 1..N, order[i] = d PROVE \E j \in 1..(N - 1) : order'[j] = d
        <5>1. i # 1
          BY <1>3, <3>2, <4>1
        <5>2. i - 1 \in 1..(N - 1) /\ order'[i - 1] = order[i]
          BY <1>4, <1>6, <5>1
        <5> QED
          BY <4>1, <5>2
      <4>2. ASSUME NEW i \in 1..(N - 1), order'[i] = d PROVE \E j \in 1..N : order[j] = d
        <5>1. i + 1 \in 1..N /\ order[i + 1] = d
          BY <1>4, <1>6, <4>2
        <5> QED
          BY <5>1
      <4>3. mpc[d] \in Enqueued <=> \E i \in 1..N : order[i] = d
        BY DEF McsInv, Queue, N
      <4> QED
        BY <1>2, <3>2, <4>1, <4>2, <4>3
    <3> QED
      BY <3>1, <3>2
  <2>3. order' # <<>> /\ last' = order'[N - 1]
    <3>1. N - 1 \in 1..(N - 1) /\ N - 1 + 1 = N
      BY <1>4
    <3>2. last = order[N]
      BY <1>3 DEF McsInv, Queue, N
    <3>3. order'[N - 1] = order[N]
      BY <1>6, <3>1
    <3>4. order' # <<>>
      BY <1>4, <1>6
    <3> QED
      BY <1>1, <3>2, <3>3, <3>4
  <2> QED
    BY <1>6, <2>1, <2>2, <2>3 DEF Queue
<1>13. Waiters'
  <2> SUFFICES ASSUME NEW i \in 2..(N - 1) PROVE Behind(i)'
    BY <1>6 DEF Waiters
  <2> DEFINE j == i + 1
  <2>1. j \in 2..N /\ j \in 1..N /\ j - 1 = i /\ i \in 1..N /\ j # 2 /\ i - 1 \in 1..(N - 1) /\ i - 1 + 1 = i
        /\ i \in 1..(N - 1)
    BY <1>4
  <2>2. Behind(j)
    BY <2>1 DEF McsInv, Waiters, N
  <2>3. order'[i] = order[j] /\ order'[i - 1] = order[i]
    BY <1>6, <2>1
  <2> HIDE DEF j
  <2>4. order[j] \in CPUs \ {c} /\ order[j] # s
    BY <1>4, <1>7, <1>9, <1>10, <2>1
  <2>5. mpc'[order[j]] = mpc[order[j]] /\ nlocked'[order[j]] = nlocked[order[j]]
    BY <1>2, <1>8, <2>4
  <2>6. /\ mpc[order[j]] \in {"lock", "link", "wait"} /\ tail[order[j]] = order[i]
        /\ mpc[order[j]] \in {"link", "wait"} => nlocked[order[j]] = 1
        /\ next[order[i]] = IF mpc[order[j]] = "wait" THEN order[j] ELSE NoCpu
    BY <2>1, <2>2 DEF Behind
  <2> QED
    BY <1>1, <2>3, <2>5, <2>6 DEF Behind
<1>14. Ends'
  <2>1. order'[1] = s /\ mpc'[s] = "wait" /\ nlocked'[s] = 0
    <3>1. 1 \in 1..(N - 1) /\ 1 + 1 = 2 /\ s # c
      BY <1>4, <1>10
    <3> QED
      BY <1>2, <1>5, <1>6, <1>8, <3>1
  <2>2. next'[order'[Len(order')]] = NoCpu
    <3>1. N - 1 \in 1..(N - 1) /\ N - 1 + 1 = N
      BY <1>4
    <3>2. next[order[N]] = NoCpu
      BY <1>3 DEF McsInv, Ends, N
    <3> QED
      BY <1>1, <1>6, <3>1, <3>2
  <2>3. \A d \in CPUs : mpc'[d] \in {"load", "cas"} => next'[d] = NoCpu
    BY <1>1, <1>2 DEF McsInv, Ends
  <2> QED
    BY <2>1, <2>2, <2>3 DEF Ends
<1> QED
  BY <1>11, <1>12, <1>13, <1>14 DEF McsInv
-----------------------------------------------------------------------------
LEMMA NextMcsInv == ASSUME McsInv, [McsNext]_mcsVars PROVE McsInv'
<1>1. ASSUME NEW c \in CPUs, InitNode(c) PROVE McsInv'
  BY <1>1, InitNodeStep
<1>2. ASSUME NEW c \in CPUs, LoadTail(c) \/ Enqueue(c) \/ SetLocked(c) \/ Link(c) PROVE McsInv'
  BY <1>2, LoadTailStep, RetryStep, EnqueueStep, SetLockedStep, LinkStep
<1>3. ASSUME NEW c \in CPUs, Granted(c) \/ TryDequeue(c) \/ PassOn(c) PROVE McsInv'
  BY <1>3, GrantedStep, DequeueStep, FollowedStep, PassOnStep
<1>4. CASE UNCHANGED mcsVars
  <2>1. Typed' /\ Queue' /\ Ends'
    BY <1>4 DEF McsInv, Typed, Queue, Ends, mcsVars
  <2>2. Waiters'
    BY <1>4, WaitersKept DEF mcsVars
  <2> QED
    BY <2>1, <2>2 DEF McsInv
<1> QED
  BY <1>1, <1>2, <1>3, <1>4 DEF McsNext, McsStep

\* The inductive invariant holds in every reachable state.
THEOREM SpecMcsInv == McsSpec => []McsInv
<1>1. McsInit => McsInv
  BY InitMcsInv
<1>2. McsInv /\ [McsNext]_mcsVars => McsInv'
  BY NextMcsInv
<1> QED
  BY <1>1, <1>2, PTL DEF McsSpec

\* The owner of the MCS lock is the CPU at the front of the queue that the
\* exchanges of mcsacquire() and mcsrelease() form, for any number of CPUs.
THEOREM SpecFrontOwns == McsSpec => []FrontOwns
<1>1. ASSUME McsInv PROVE FrontOwns
  BY <1>1, OwnerFirst, Places DEF FrontOwns, McsInv
<1> QED
  BY <1>1, SpecMcsInv, PTL
=============================================================================
