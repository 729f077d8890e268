-------------------------------- MODULE Proc --------------------------------
(***************************************************************************)
(* The process table, the run queues, the sleep queues and the per-CPU     *)
(* scheduler of kern/proc.c.                                               *)
(*                                                                         *)
(* Interrupts are masked whenever a CPU is in the kernel, so a CPU runs    *)
(* kernel code without preemption and its position in that code is one     *)
(* value, cpc[c].  CPUs interleave.  ptable, prioque and hashmp are        *)
(* protected by ptablelock, which is handed over by swtch(): the scheduler *)
(* of a CPU takes it and the process it switches to releases it, and back. *)
(* Every step that a CPU makes while it holds ptablelock is a step here,   *)
(* as is every step between two critical sections of one operation.        *)
(***************************************************************************)
EXTENDS Cpus, Integers, Sequences, FiniteSets

CONSTANTS
    NPROC,         \* size of ptable.proc
    NLOOP,         \* number of user_init(1) calls of main(): processes that
                   \* spin in user mode and make no system call
    PRIOENTRIES,   \* number of run queues
    HASHENTRIES,   \* number of sleep queues
    KChans,        \* kernel addresses, other than processes, slept on
    Hash,          \* address % HASHENTRIES of every channel
    MaxFailPid,    \* bound: kalloc() fails only while nextpid is at most this
    MaxPid         \* bound: no fork once nextpid exceeds it

NULL     == 0
Slots    == 1..NPROC
initproc == 1
Loopers  == 2..(NLOOP + 1)
Chans    == Slots \cup KChans
Levels   == 0..(PRIOENTRIES - 1)
Buckets  == 0..(HASHENTRIES - 1)

ASSUME SizeAssumption == /\ NPROC \in Nat /\ NLOOP \in Nat /\ NLOOP + 1 <= NPROC
                         /\ PRIOENTRIES \in Nat \ {0}
                         /\ HASHENTRIES \in Nat \ {0}
                         /\ MaxPid \in Nat
                         /\ MaxFailPid \in Nat
ASSUME ChanAssumption == /\ NULL \notin KChans
                         /\ KChans \cap Slots = {}
                         /\ Hash \in [Chans \cup {NULL} -> Buckets]

VARIABLES
    state, pid, parent, chan, prio, \* the fields of ptable.proc[p]
    ctx,         \* p->context: where swtch() resumes p, "none" if not saved
    nextpid,
    kmemheld,    \* kmemcslock has been left locked by a kalloc() that failed
    prioque,     \* one list of processes per priority
    hashmp,      \* one list of sleeping processes per hash of the channel
    ptablelock,  \* the CPU that holds ptablelock, or NoCpu
    cproc,       \* cpus[c].proc
    cpc,         \* where CPU c is in the kernel, "user" outside ptablelock
    wch,         \* the channel argument of sleep() or wakeup1() on CPU c
    child        \* the local variable child of fork() on CPU c

tableVars == <<state, pid, parent, chan, prio>>
queueVars == <<prioque, hashmp>>
procVars  == <<state, pid, parent, chan, prio, ctx, nextpid, kmemheld, prioque, hashmp,
               ptablelock, cproc, cpc, wch, child>>

ProcStates == {"UNUSED", "EMBRYO", "SLEEPING", "RUNNABLE", "RUNNING", "ZOMBIE"}

\* Control points at which the CPU holds ptablelock.
Locked == {"pick", "post", "forkret", "yield", "yield_sw", "yield_ret",
           "sleep", "sleep_sw", "sleep_ret", "wait", "wait_sw", "wait_ret",
           "wakeup", "exit1", "exit2", "exit3", "exit_sw", "hang"}

\* "hang", and "halt" without ptablelock: the CPU is in panic(), or spins for a
\* lock that nobody gives back.
Unlocked == {"idle", "user", "tick", "fork", "forkrun", "halt"}

\* Where a process continues when it is switched to.
Contexts == {"none", "forkret", "yield_ret", "sleep_ret", "wait_ret", "exit_ret"}

-----------------------------------------------------------------------------
(* Lists, kern/list.c, as sequences of processes.                          *)

\* list_push_back and list_delete of the i-th element.
list_push_back(q, p) == Append(q, p)
list_delete(q, i)    == [j \in 1..(Len(q) - 1) |-> IF j < i THEN q[j] ELSE q[j + 1]]

-----------------------------------------------------------------------------
(* Steps shared by the operations.                                         *)

Goto(c, l) == cpc' = [cpc EXCEPT ![c] = l]

\* acquire(&ptablelock) returns on CPU c; release(&ptablelock).
acquire(c) == ptablelock = NoCpu /\ ptablelock' = c
release(c) == ptablelock' = NoCpu

\* A process that is not one of the endless loops may enter the kernel.
InUser(c)    == cpc[c] = "user"
CallsFrom(c) == InUser(c) /\ cproc[c] \notin Loopers

\* state[p] := RUNNABLE; list_push_back(&prioque[p->prio], &p->plist).
MakeRunnable(p, l) ==
    /\ state' = [state EXCEPT ![p] = "RUNNABLE"]
    /\ prioque' = [prioque EXCEPT ![l] = list_push_back(@, p)]

-----------------------------------------------------------------------------
(* main() has run proc_init(), user_init(0) and user_init(1) NLOOP times;  *)
(* every CPU is about to enter scheduler().                                *)

Booted == 1..(NLOOP + 1)

ProcInit ==
    /\ state   = [p \in Slots |-> IF p \in Booted THEN "RUNNABLE" ELSE "UNUSED"]
    /\ pid     = [p \in Slots |-> IF p \in Booted THEN p ELSE 0]
    /\ parent  = [p \in Slots |-> NULL]
    /\ chan    = [p \in Slots |-> NULL]
    /\ prio    = [p \in Slots |-> IF p \in Booted THEN PRIOENTRIES - 1 ELSE 0]
    /\ ctx     = [p \in Slots |-> IF p \in Booted THEN "forkret" ELSE "none"]
    /\ nextpid = NLOOP + 2
    /\ kmemheld = FALSE
    /\ prioque = [l \in Levels |->
                    IF l = PRIOENTRIES - 1 THEN [i \in Booted |-> i] ELSE <<>>]
    /\ hashmp  = [b \in Buckets |-> <<>>]
    /\ ptablelock = NoCpu
    /\ cproc = [c \in CPUs |-> NULL]
    /\ cpc   = [c \in CPUs |-> "idle"]
    /\ wch   = [c \in CPUs |-> NULL]
    /\ child = [c \in CPUs |-> NULL]

-----------------------------------------------------------------------------
(* scheduler()                                                             *)

\* acquire(&ptablelock) at the top of the loop.
SchedAcquire(c) ==
    /\ cpc[c] = "idle"
    /\ acquire(c)
    /\ Goto(c, "pick")
    /\ UNCHANGED <<tableVars, ctx, nextpid, kmemheld, queueVars, cproc, wch, child>>

\* No queue has a process: release and go round again.
SchedIdle(c) ==
    /\ cpc[c] = "pick"
    /\ \A l \in Levels : prioque[l] = <<>>
    /\ release(c)
    /\ Goto(c, "idle")
    /\ UNCHANGED <<tableVars, ctx, nextpid, kmemheld, queueVars, cproc, wch, child>>

\* Bug: the process chosen stays on its run queue.
Bug_DispatchKeepsQueued(c) ==
    /\ cpc[c] = "pick"
    /\ \E l \in Levels :
         /\ prioque[l] # <<>>
         /\ \A m \in Levels : m > l => prioque[m] = <<>>
         /\ LET p == Head(prioque[l]) IN
              /\ cproc' = [cproc EXCEPT ![c] = p]
              /\ state' = [state EXCEPT ![p] = "RUNNING"]
              /\ Goto(c, ctx[p])
              /\ ctx' = [ctx EXCEPT ![p] = "none"]
    /\ UNCHANGED <<pid, parent, chan, prio, nextpid, kmemheld, prioque, hashmp, ptablelock, wch, child>>

\* The front process of the highest non-empty queue: c->proc = p, RUNNING,
\* list_delete, swtch(&c->scheduler, p->context).
SchedDispatch(c) ==
    /\ cpc[c] = "pick"
    /\ \E l \in Levels :
         /\ prioque[l] # <<>>
         /\ \A m \in Levels : m > l => prioque[m] = <<>>
         /\ LET p == Head(prioque[l]) IN
              /\ cproc' = [cproc EXCEPT ![c] = p]
              /\ state' = [state EXCEPT ![p] = "RUNNING"]
              /\ prioque' = [prioque EXCEPT ![l] = Tail(@)]
              /\ Goto(c, ctx[p])
              /\ ctx' = [ctx EXCEPT ![p] = "none"]
    /\ UNCHANGED <<pid, parent, chan, prio, nextpid, kmemheld, hashmp, ptablelock, wch, child>>

\* Back in scheduler() after a process switched out: c->proc = 0, release.
SchedReturn(c) ==
    /\ cpc[c] = "post"
    /\ cproc' = [cproc EXCEPT ![c] = NULL]
    /\ release(c)
    /\ Goto(c, "idle")
    /\ UNCHANGED <<tableVars, ctx, nextpid, kmemheld, queueVars, wch, child>>

\* sched(): swtch(&c->proc->context, c->scheduler).  The process continues at
\* resume when it is chosen again, the CPU in its scheduler.
SwitchOut(c, at, resume) ==
    /\ cpc[c] = at
    /\ ctx' = [ctx EXCEPT ![cproc[c]] = resume]
    /\ Goto(c, "post")
    /\ UNCHANGED <<tableVars, nextpid, kmemheld, queueVars, ptablelock, cproc, wch, child>>

sched(c) == \/ SwitchOut(c, "yield_sw", "yield_ret")
            \/ SwitchOut(c, "sleep_sw", "sleep_ret")
            \/ SwitchOut(c, "wait_sw", "wait_ret")
            \/ SwitchOut(c, "exit_sw", "exit_ret")

\* forkret(), and the release() that ends yield().
ReturnFrom(c, at) ==
    /\ cpc[c] = at
    /\ release(c)
    /\ Goto(c, "user")
    /\ UNCHANGED <<tableVars, ctx, nextpid, kmemheld, queueVars, cproc, wch, child>>

forkret(c)  == ReturnFrom(c, "forkret")
YieldRet(c) == ReturnFrom(c, "yield_ret")

-----------------------------------------------------------------------------
(* yield(), from the timer and clock interrupts and from sys_yield()       *)

\* The interrupt is taken, or sys_yield() is called: yield() starts and spins
\* for ptablelock.
Timer(c) ==
    /\ InUser(c)
    /\ Goto(c, "tick")
    /\ UNCHANGED <<tableVars, ctx, nextpid, kmemheld, queueVars, ptablelock, cproc, wch, child>>

YieldAcquire(c) ==
    /\ cpc[c] = "tick"
    /\ acquire(c)
    /\ Goto(c, "yield")
    /\ UNCHANGED <<tableVars, ctx, nextpid, kmemheld, queueVars, cproc, wch, child>>

\* Bug: the process that yields goes to the front of its queue.
Bug_YieldToFront(c) ==
    /\ cpc[c] = "yield"
    /\ state' = [state EXCEPT ![cproc[c]] = "RUNNABLE"]
    /\ prioque' = [prioque EXCEPT ![prio[cproc[c]]] = <<cproc[c]>> \o @]
    /\ Goto(c, "yield_sw")
    /\ UNCHANGED <<pid, parent, chan, prio, ctx, nextpid, kmemheld, hashmp, ptablelock, cproc, wch, child>>

\* Bug: yield() drops ptablelock before it switches to the scheduler.
Bug_YieldReleasesEarly(c) ==
    /\ cpc[c] = "yield"
    /\ MakeRunnable(cproc[c], prio[cproc[c]])
    /\ release(c)
    /\ Goto(c, "yield_sw")
    /\ UNCHANGED <<pid, parent, chan, prio, ctx, nextpid, kmemheld, hashmp, cproc, wch, child>>

YieldBody(c) ==
    /\ cpc[c] = "yield"
    /\ MakeRunnable(cproc[c], prio[cproc[c]])
    /\ Goto(c, "yield_sw")
    /\ UNCHANGED <<pid, parent, chan, prio, ctx, nextpid, kmemheld, hashmp, ptablelock, cproc, wch, child>>

-----------------------------------------------------------------------------
(* sleep() and wakeup()                                                    *)

\* sleep(ch, lk) with lk # &ptablelock takes ptablelock (and lets go of lk,
\* which is not part of this module).
SleepEnter(c, ch) ==
    /\ CallsFrom(c)
    /\ acquire(c)
    /\ wch' = [wch EXCEPT ![c] = ch]
    /\ Goto(c, "sleep")
    /\ UNCHANGED <<tableVars, ctx, nextpid, kmemheld, queueVars, cproc, child>>

\* The body of sleep(): the running process goes to sleep on ch (it is never
\* RUNNABLE here, so the list_delete() from its run queue is not reached).
GoToSleep(c, ch, at) ==
    /\ chan'   = [chan EXCEPT ![cproc[c]] = ch]
    /\ state'  = [state EXCEPT ![cproc[c]] = "SLEEPING"]
    /\ hashmp' = [hashmp EXCEPT ![Hash[ch]] = list_push_back(@, cproc[c])]
    /\ Goto(c, at)

SleepBody(c) ==
    /\ cpc[c] = "sleep"
    /\ GoToSleep(c, wch[c], "sleep_sw")
    /\ wch' = [wch EXCEPT ![c] = NULL]
    /\ UNCHANGED <<pid, parent, prio, ctx, nextpid, kmemheld, prioque, ptablelock, cproc, child>>

\* sched() has returned: p->chan = 0, release (and lk again, elsewhere).
SleepRet(c) ==
    /\ cpc[c] = "sleep_ret"
    /\ chan' = [chan EXCEPT ![cproc[c]] = NULL]
    /\ release(c)
    /\ Goto(c, "user")
    /\ UNCHANGED <<state, pid, parent, prio, ctx, nextpid, kmemheld, queueVars, cproc, wch, child>>

\* wakeup(ch) takes ptablelock: from a system call, or from the handler of an
\* interrupt, which may come while an endless process runs.
WakeupEnter(c, ch) ==
    /\ InUser(c)
    /\ acquire(c)
    /\ wch' = [wch EXCEPT ![c] = ch]
    /\ Goto(c, "wakeup")
    /\ UNCHANGED <<tableVars, ctx, nextpid, kmemheld, queueVars, cproc, child>>

\* The test in the loop of wakeup1(ch) on the i-th process of its bucket.
Matches(ch, i) ==
    LET p == hashmp[Hash[ch]][i] IN chan[p] = ch /\ state[p] = "SLEEPING"

BucketIndices(ch) == 1..Len(hashmp[Hash[ch]])

\* Control points inside wakeup1().
InWakeup1 == {"wakeup", "exit1", "exit2"}

\* Bug: the process woken stays in its hash bucket.
Bug_WakeKeepsAsleep(c) ==
    /\ cpc[c] \in InWakeup1
    /\ \E i \in BucketIndices(wch[c]) :
         /\ Matches(wch[c], i)
         /\ \A j \in 1..(i - 1) : ~ Matches(wch[c], j)
         /\ LET p == hashmp[Hash[wch[c]]][i] IN
              /\ MakeRunnable(p, prio[p])
              /\ chan' = [chan EXCEPT ![p] = NULL]
    /\ UNCHANGED <<pid, parent, prio, ctx, nextpid, kmemheld, hashmp, ptablelock, cproc, cpc, wch, child>>

\* One turn of the loop of wakeup1() that wakes a process; the turns that
\* skip one change nothing.
WakeOne(c) ==
    /\ cpc[c] \in InWakeup1
    /\ \E i \in BucketIndices(wch[c]) :
         /\ Matches(wch[c], i)
         /\ \A j \in 1..(i - 1) : ~ Matches(wch[c], j)
         /\ LET p == hashmp[Hash[wch[c]]][i] IN
              /\ MakeRunnable(p, prio[p])
              /\ chan' = [chan EXCEPT ![p] = NULL]
              /\ hashmp' = [hashmp EXCEPT ![Hash[wch[c]]] = list_delete(@, i)]
    /\ UNCHANGED <<pid, parent, prio, ctx, nextpid, kmemheld, ptablelock, cproc, cpc, wch, child>>

NoneLeft(c) == \A i \in BucketIndices(wch[c]) : ~ Matches(wch[c], i)

\* wakeup1() is done; wakeup() releases ptablelock.
WakeupDone(c) ==
    /\ cpc[c] = "wakeup"
    /\ NoneLeft(c)
    /\ wch' = [wch EXCEPT ![c] = NULL]
    /\ release(c)
    /\ Goto(c, "user")
    /\ UNCHANGED <<tableVars, ctx, nextpid, kmemheld, queueVars, cproc, child>>

-----------------------------------------------------------------------------
(* fork()                                                                  *)

\* kalloc() returns 0 without releasing kmemcslock: from there on every kalloc()
\* and kfree() spins for ever, or panics on the CPU where that happened.
KallocFails == nextpid <= MaxFailPid /\ ~ kmemheld /\ kmemheld' = TRUE

\* In execve() or brk() the process goes on.
CallNoMemory(c) ==
    /\ CallsFrom(c)
    /\ KallocFails
    /\ UNCHANGED <<tableVars, ctx, nextpid, queueVars, ptablelock, cproc, cpc, wch, child>>

\* execve() or brk() spins for kmemcslock.
CallHangs(c) ==
    /\ CallsFrom(c)
    /\ kmemheld
    /\ Goto(c, "halt")
    /\ UNCHANGED <<tableVars, ctx, nextpid, kmemheld, queueVars, ptablelock, cproc, wch, child>>

FirstUnused(s) == state[s] = "UNUSED" /\ \A t \in 1..(s - 1) : state[t] # "UNUSED"

\* proc_alloc() finds a slot and a kernel stack.
ForkAlloc(c) ==
    /\ CallsFrom(c)
    /\ nextpid <= MaxPid
    /\ ptablelock = NoCpu
    /\ ~ kmemheld
    /\ \E s \in Slots :
         /\ FirstUnused(s)
         /\ state' = [state EXCEPT ![s] = "EMBRYO"]
         /\ pid'   = [pid EXCEPT ![s] = nextpid]
         /\ chan'  = [chan EXCEPT ![s] = NULL]
         /\ prio'  = [prio EXCEPT ![s] = PRIOENTRIES - 1]
         /\ ctx'   = [ctx EXCEPT ![s] = "forkret"]
         /\ child' = [child EXCEPT ![c] = s]
    /\ nextpid' = nextpid + 1
    /\ Goto(c, "fork")
    /\ UNCHANGED <<kmemheld, parent, queueVars, ptablelock, cproc, wch>>

\* proc_alloc() finds a slot but kalloc() fails: the slot is UNUSED again, with
\* its pid, and fork() panics.
ForkNoMemory(c) ==
    /\ CallsFrom(c)
    /\ nextpid <= MaxPid
    /\ ptablelock = NoCpu
    /\ KallocFails
    /\ \E s \in Slots :
         /\ FirstUnused(s)
         /\ pid' = [pid EXCEPT ![s] = nextpid]
    /\ nextpid' = nextpid + 1
    /\ Goto(c, "halt")
    /\ UNCHANGED <<state, parent, chan, prio, ctx, queueVars, ptablelock, cproc, wch, child>>

\* proc_alloc() finds a slot and spins for kmemcslock, ptablelock held.
ForkHangs(c) ==
    /\ CallsFrom(c)
    /\ nextpid <= MaxPid
    /\ kmemheld
    /\ acquire(c)
    /\ \E s \in Slots :
         /\ FirstUnused(s)
         /\ state' = [state EXCEPT ![s] = "EMBRYO"]
         /\ pid'   = [pid EXCEPT ![s] = nextpid]
    /\ nextpid' = nextpid + 1
    /\ Goto(c, "hang")
    /\ UNCHANGED <<kmemheld, parent, chan, prio, ctx, queueVars, cproc, wch, child>>

\* proc_alloc() finds no slot: fork() panics and its CPU stops.
ForkNoSlot(c) ==
    /\ CallsFrom(c)
    /\ ptablelock = NoCpu
    /\ \A s \in Slots : state[s] # "UNUSED"
    /\ Goto(c, "halt")
    /\ UNCHANGED <<tableVars, ctx, nextpid, kmemheld, queueVars, ptablelock, cproc, wch, child>>

\* child->parent = par and the copies, without ptablelock.
ForkCopy(c) ==
    /\ cpc[c] = "fork"
    /\ ~ kmemheld
    /\ parent' = [parent EXCEPT ![child[c]] = cproc[c]]
    /\ Goto(c, "forkrun")
    /\ UNCHANGED <<state, pid, chan, prio, ctx, nextpid, kmemheld, queueVars, ptablelock, cproc, wch, child>>

\* A kalloc() of uvm_copy() fails and fork() panics, or it spins for kmemcslock:
\* the child stays EMBRYO.
ForkCopyFails(c) ==
    /\ cpc[c] = "fork"
    /\ parent' = [parent EXCEPT ![child[c]] = cproc[c]]
    /\ KallocFails \/ (kmemheld /\ UNCHANGED kmemheld)
    /\ Goto(c, "halt")
    /\ child' = [child EXCEPT ![c] = NULL]
    /\ UNCHANGED <<state, pid, chan, prio, ctx, nextpid, queueVars, ptablelock, cproc, wch>>

\* acquire; RUNNABLE, the parent's priority, push_back; release.
ForkRun(c) ==
    /\ cpc[c] = "forkrun"
    /\ ptablelock = NoCpu
    /\ prio' = [prio EXCEPT ![child[c]] = prio[cproc[c]]]
    /\ MakeRunnable(child[c], prio[cproc[c]])
    /\ child' = [child EXCEPT ![c] = NULL]
    /\ Goto(c, "user")
    /\ UNCHANGED <<pid, parent, chan, ctx, nextpid, kmemheld, hashmp, ptablelock, cproc, wch>>

-----------------------------------------------------------------------------
(* wait()                                                                  *)

Children(p) == {q \in Slots : parent[q] = p}

\* Bug: wait() does not look at the parent of a ZOMBIE.
Bug_AnyZombie(p) == {q \in Slots : state[q] = "ZOMBIE"}

ZombieKids(p) == {q \in Children(p) : state[q] = "ZOMBIE"}

WaitEnter(c) ==
    /\ CallsFrom(c)
    /\ acquire(c)
    /\ Goto(c, "wait")
    /\ UNCHANGED <<tableVars, ctx, nextpid, kmemheld, queueVars, cproc, wch, child>>

\* The first ZOMBIE child in table order.
FirstZombie(p, q) == q \in ZombieKids(p) /\ \A r \in ZombieKids(p) : q <= r

\* cleanproc(), release, return its pid.
WaitReap(c) ==
    /\ cpc[c] = "wait"
    /\ ~ kmemheld
    /\ \E q \in Slots :
         /\ FirstZombie(cproc[c], q)
         /\ pid'    = [pid EXCEPT ![q] = 0]
         /\ parent' = [parent EXCEPT ![q] = NULL]
         /\ state'  = [state EXCEPT ![q] = "UNUSED"]
    /\ release(c)
    /\ Goto(c, "user")
    /\ UNCHANGED <<chan, prio, ctx, nextpid, kmemheld, queueVars, cproc, wch, child>>

\* cleanproc() spins for kmemcslock in vm_free(), ptablelock held.
WaitHangs(c) ==
    /\ cpc[c] = "wait"
    /\ kmemheld
    /\ \E q \in Slots :
         /\ FirstZombie(cproc[c], q)
         /\ pid'    = [pid EXCEPT ![q] = 0]
         /\ parent' = [parent EXCEPT ![q] = NULL]
    /\ Goto(c, "hang")
    /\ UNCHANGED <<state, chan, prio, ctx, nextpid, kmemheld, queueVars, ptablelock, cproc, wch, child>>

\* No child at all: release, return -1.
WaitNone(c) ==
    /\ cpc[c] = "wait"
    /\ Children(cproc[c]) = {}
    /\ release(c)
    /\ Goto(c, "user")
    /\ UNCHANGED <<tableVars, ctx, nextpid, kmemheld, queueVars, cproc, wch, child>>

\* Children, none of them ZOMBIE: sleep(par, &ptablelock).
WaitSleep(c) ==
    /\ cpc[c] = "wait"
    /\ Children(cproc[c]) # {}
    /\ ZombieKids(cproc[c]) = {}
    /\ GoToSleep(c, cproc[c], "wait_sw")
    /\ UNCHANGED <<pid, parent, prio, ctx, nextpid, kmemheld, prioque, ptablelock, cproc, wch, child>>

\* sleep() returns to the loop of wait(), ptablelock still held.
WaitRet(c) ==
    /\ cpc[c] = "wait_ret"
    /\ chan' = [chan EXCEPT ![cproc[c]] = NULL]
    /\ Goto(c, "wait")
    /\ UNCHANGED <<state, pid, parent, prio, ctx, nextpid, kmemheld, queueVars, ptablelock, cproc, wch, child>>

-----------------------------------------------------------------------------
(* exit()                                                                  *)

\* Bug: exit() does not wake the parent.
Bug_ExitWakesNobody(c) ==
    /\ CallsFrom(c)
    /\ acquire(c)
    /\ wch' = [wch EXCEPT ![c] = NULL]
    /\ Goto(c, "exit1")
    /\ UNCHANGED <<tableVars, ctx, nextpid, kmemheld, queueVars, cproc, child>>

\* Files and cwd are released, ptablelock taken, wakeup1(p->parent) starts.
ExitEnter(c) ==
    /\ CallsFrom(c)
    /\ acquire(c)
    /\ wch' = [wch EXCEPT ![c] = parent[cproc[c]]]
    /\ Goto(c, "exit1")
    /\ UNCHANGED <<tableVars, ctx, nextpid, kmemheld, queueVars, cproc, child>>

\* Bug: the children of the process keep it as their parent.
Bug_ExitNoReparent(c) ==
    /\ cpc[c] = "exit1"
    /\ NoneLeft(c)
    /\ wch' = [wch EXCEPT ![c] = NULL]
    /\ Goto(c, "exit3")
    /\ UNCHANGED <<tableVars, ctx, nextpid, kmemheld, queueVars, ptablelock, cproc, child>>

\* wakeup1(p->parent) is done.  The children go to initproc, and it is woken
\* when one of them is a ZOMBIE.
ExitReparent(c) ==
    /\ cpc[c] = "exit1"
    /\ NoneLeft(c)
    /\ parent' = [q \in Slots |-> IF parent[q] = cproc[c] THEN initproc ELSE parent[q]]
    /\ IF ZombieKids(cproc[c]) # {}
         THEN Goto(c, "exit2") /\ wch' = [wch EXCEPT ![c] = initproc]
         ELSE Goto(c, "exit3") /\ wch' = [wch EXCEPT ![c] = NULL]
    /\ UNCHANGED <<state, pid, chan, prio, ctx, nextpid, kmemheld, queueVars, ptablelock, cproc, child>>

ExitWokeInit(c) ==
    /\ cpc[c] = "exit2"
    /\ NoneLeft(c)
    /\ wch' = [wch EXCEPT ![c] = NULL]
    /\ Goto(c, "exit3")
    /\ UNCHANGED <<tableVars, ctx, nextpid, kmemheld, queueVars, ptablelock, cproc, child>>

\* p->state = ZOMBIE, then sched() (p is never RUNNABLE here either).
ExitZombie(c) ==
    /\ cpc[c] = "exit3"
    /\ state' = [state EXCEPT ![cproc[c]] = "ZOMBIE"]
    /\ Goto(c, "exit_sw")
    /\ UNCHANGED <<pid, parent, chan, prio, ctx, nextpid, kmemheld, queueVars, ptablelock, cproc, wch, child>>

-----------------------------------------------------------------------------
\* Steps the kernel makes by itself once it has started on something.
KernelStep(c) ==
    \/ SchedAcquire(c) \/ SchedIdle(c) \/ SchedDispatch(c) \/ SchedReturn(c)
    \/ sched(c) \/ forkret(c) \/ YieldRet(c)
    \/ YieldAcquire(c) \/ YieldBody(c)
    \/ SleepBody(c) \/ SleepRet(c) \/ WakeOne(c) \/ WakeupDone(c)
    \/ ForkCopy(c) \/ ForkCopyFails(c) \/ ForkRun(c)
    \/ WaitReap(c) \/ WaitHangs(c) \/ WaitNone(c) \/ WaitSleep(c) \/ WaitRet(c)
    \/ ExitReparent(c) \/ ExitWokeInit(c) \/ ExitZombie(c)

\* Operations a process may or may not start.
SystemCall(c) ==
    \/ ForkAlloc(c) \/ ForkNoMemory(c) \/ ForkHangs(c) \/ ForkNoSlot(c)
    \/ CallNoMemory(c) \/ CallHangs(c) \/ WaitEnter(c) \/ ExitEnter(c)
    \/ \E ch \in KChans : SleepEnter(c, ch) \/ WakeupEnter(c, ch)

ProcNext == \E c \in CPUs : KernelStep(c) \/ SystemCall(c) \/ Timer(c)

ProcSpec == ProcInit /\ [][ProcNext]_procVars

-----------------------------------------------------------------------------
(* Properties                                                              *)

\* Every variable keeps the type its C declaration gives it.
TypeOK ==
    /\ state  \in [Slots -> ProcStates]
    /\ pid    \in [Slots -> Nat]
    /\ parent \in [Slots -> Slots \cup {NULL}]
    /\ chan   \in [Slots -> Chans \cup {NULL}]
    /\ prio   \in [Slots -> Levels]
    /\ ctx    \in [Slots -> Contexts]
    /\ nextpid \in Nat /\ kmemheld \in BOOLEAN
    /\ prioque \in [Levels -> Seq(Slots)]
    /\ hashmp  \in [Buckets -> Seq(Slots)]
    /\ ptablelock \in CPUs \cup {NoCpu}
    /\ cproc \in [CPUs -> Slots \cup {NULL}]
    /\ cpc   \in [CPUs -> Locked \cup Unlocked]
    /\ wch   \in [CPUs -> Chans \cup {NULL}]
    /\ child \in [CPUs -> Slots \cup {NULL}]

\* ptablelock is held by exactly the CPU that is inside a critical section,
\* also across swtch(), where one stack takes the lock and another releases it:
\* the panics of acquire(), release() and sched() on ptablelock never happen.
LockDiscipline == \A c \in CPUs : ptablelock = c <=> cpc[c] \in Locked

\* A list has no process twice; a process is in a list.
NoDup(q)      == \A i, j \in 1..Len(q) : i # j => q[i] # q[j]
IsIn(p, q)    == \E i \in 1..Len(q) : q[i] = p

\* The run queues hold exactly the RUNNABLE processes, each once and at its
\* priority: no process is run twice, none is forgotten (list_delete() of
\* scheduler() against the list_push_back() of yield, wakeup1, fork).
RunQueueExact ==
    \A l \in Levels : /\ NoDup(prioque[l])
                      /\ \A p \in Slots : IsIn(p, prioque[l]) <=>
                                           state[p] = "RUNNABLE" /\ prio[p] = l

\* The hash buckets hold exactly the SLEEPING processes, each once and in the
\* bucket of its channel: wakeup1() looks where sleep() put them.
SleepQueueExact ==
    \A b \in Buckets : /\ NoDup(hashmp[b])
                       /\ \A p \in Slots : IsIn(p, hashmp[b]) <=>
                                            state[p] = "SLEEPING" /\ Hash[chan[p]] = b

\* No process is lost or queued twice on its way between running, run queue and
\* sleep queue: yield, sleep, wakeup1, fork and scheduler() keep both exact.
QueuesExact == RunQueueExact /\ SleepQueueExact

\* A kernel stack is used by one CPU: no process is on two CPUs, the process
\* of a CPU is neither free nor being built, and a process off the CPUs that
\* scheduler() could pick has its registers saved.
KernelStackExclusive ==
    /\ \A c, d \in CPUs : c # d /\ cproc[c] # NULL => cproc[c] # cproc[d]
    /\ \A c \in CPUs : cproc[c] # NULL => state[cproc[c]] \notin {"UNUSED", "EMBRYO"}
    /\ \A p \in Slots : state[p] = "RUNNABLE" /\ ptablelock = NoCpu => ctx[p] # "none"

\* The parts of the inductive invariant that concern a CPU and its process.

\* Control points at which the process of the CPU is RUNNING.
RunningAt == {"user", "tick", "fork", "forkrun", "halt", "hang",
              "forkret", "yield", "yield_ret", "sleep", "sleep_ret", "wait",
              "wait_ret", "wakeup", "exit1", "exit2", "exit3"}

\* A CPU has a process exactly when it is out of scheduler()'s own loop, no
\* other CPU has it, and its state is the one the control point implies.
CpuProcess ==
    /\ \A c \in CPUs : cproc[c] = NULL <=> cpc[c] \in {"idle", "pick"}
    /\ \A c, d \in CPUs : c # d /\ cproc[c] # NULL => cproc[c] # cproc[d]
    /\ \A c \in CPUs :
         /\ cpc[c] \in RunningAt => state[cproc[c]] = "RUNNING"
         /\ cpc[c] = "yield_sw" => state[cproc[c]] = "RUNNABLE"
         /\ cpc[c] \in {"sleep_sw", "wait_sw"} => state[cproc[c]] = "SLEEPING"
         /\ cpc[c] = "exit_sw" => state[cproc[c]] = "ZOMBIE"
         /\ cpc[c] = "post" => state[cproc[c]] \in {"RUNNABLE", "SLEEPING", "ZOMBIE"}

\* Every process that can be switched to has a saved context to resume, or is
\* on its way into the swtch() that saves it.
ContextSaved ==
    \A p \in Slots :
        /\ state[p] = "RUNNABLE" =>
              \/ ctx[p] \in {"forkret", "yield_ret", "sleep_ret", "wait_ret"}
              \/ \E c \in CPUs : cproc[c] = p /\ cpc[c] = "yield_sw"
        /\ state[p] = "SLEEPING" =>
              \/ ctx[p] \in {"sleep_ret", "wait_ret"}
              \/ \E c \in CPUs : cproc[c] = p /\ cpc[c] \in {"sleep_sw", "wait_sw"}

\* A slot being built belongs to one fork(), and starts in forkret().
ForkChild ==
    /\ \A c \in CPUs : child[c] # NULL <=> cpc[c] \in {"fork", "forkrun"}
    /\ \A c \in CPUs : child[c] # NULL => /\ state[child[c]] = "EMBRYO"
                                          /\ ctx[child[c]] = "forkret"
    /\ \A c, d \in CPUs : c # d /\ child[c] # NULL => child[c] # child[d]

\* The inductive invariant: none of TypeOK, RunQueueExact, SleepQueueExact and
\* KernelStackExclusive is preserved by every step on its own.
IInv == /\ TypeOK /\ LockDiscipline /\ CpuProcess /\ ContextSaved /\ ForkChild
        /\ RunQueueExact /\ SleepQueueExact

\* wait() never sleeps through the exit of a child: a process asleep in wait()
\* has children, and a ZOMBIE among them only while the exit() that handed it
\* over is about to wake the process.
NoLostWait ==
    \A p \in Slots :
        state[p] = "SLEEPING" /\ chan[p] = p =>
            /\ Children(p) # {}
            /\ ZombieKids(p) # {} =>
                 \E c \in CPUs : cpc[c] = "exit2" /\ wch[c] = p

\* p->parent never dangles: it is a process in the table, and a ZOMBIE only if
\* it is initproc, which nobody reaps.
ParentAlive ==
    \A p \in Slots :
        parent[p] # NULL =>
            /\ state[parent[p]] \notin {"UNUSED", "EMBRYO"}
            /\ state[parent[p]] = "ZOMBIE" => parent[p] = initproc

\* "An exited process remains in the zombie state until its parent calls
\* wait()" (comment of exit()): only its parent's wait() ends that state.
ZombieUntilReaped ==
    [][\A p \in Slots :
         state[p] = "ZOMBIE" =>
            \/ state'[p] = "ZOMBIE"
            \/ /\ state'[p] = "UNUSED"
               /\ \E c \in CPUs : cproc[c] = parent[p] /\ cpc[c] = "wait"]_procVars

\* Every RUNNABLE process is run: FIFO queues, and each CPU comes back to
\* scheduler() by the timer (needs no fairness of the spinlock).
RunnableRuns == \A p \in Slots : state[p] = "RUNNABLE" ~> state[p] = "RUNNING"

\* A process asleep in wait() with an exited child is woken and returns.
WaitReturns ==
    \A p \in Slots :
        (state[p] = "SLEEPING" /\ chan[p] = p /\ ZombieKids(p) # {})
            ~> \E c \in CPUs : cproc[c] = p /\ cpc[c] = "user"
=============================================================================
