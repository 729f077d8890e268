------------------------------ MODULE McsLock -------------------------------
(***************************************************************************)
(* mcsacquire() and mcsrelease() of kern/spinlock.c, one step per access   *)
(* to shared memory.  Each CPU brings its own queue node, named after it;  *)
(* the lock word lk->next points to the last node of the queue.            *)
(***************************************************************************)
EXTENDS Cpus, Integers, Sequences

VARIABLES
    last,    \* lk->next: the last node of the queue, or NoCpu for NULL
    next,    \* i->next of each node
    nlocked, \* i->locked of each node
    tail,    \* the local variable tail of mcsacquire()
    mpc,     \* where each CPU is
    order    \* history: the CPUs whose node is in the queue, in CAS order

mcsVars == <<last, next, nlocked, tail, mpc, order>>

McsGoto(c, l) == mpc' = [mpc EXCEPT ![c] = l]

McsInit ==
    /\ last = NoCpu
    /\ next = [c \in CPUs |-> NoCpu]
    /\ nlocked = [c \in CPUs |-> 0]
    /\ tail = [c \in CPUs |-> NoCpu]
    /\ mpc = [c \in CPUs |-> "out"]
    /\ order = <<>>

\* i->locked = 0; i->next = NULL.
InitNode(c) ==
    /\ mpc[c] = "out"
    /\ nlocked' = [nlocked EXCEPT ![c] = 0]
    /\ next' = [next EXCEPT ![c] = NoCpu]
    /\ McsGoto(c, "load")
    /\ UNCHANGED <<last, tail, order>>

\* tail = lk->next, first time and after a failed exchange.
LoadTail(c) ==
    /\ mpc[c] = "load"
    /\ tail' = [tail EXCEPT ![c] = last]
    /\ McsGoto(c, "cas")
    /\ UNCHANGED <<last, next, nlocked, order>>

\* Bug: the exchange is made without comparing.
Bug_PlainExchange(c) ==
    /\ mpc[c] = "cas"
    /\ last' = c
    /\ order' = Append(order, c)
    /\ McsGoto(c, IF tail[c] = NoCpu THEN "held" ELSE "lock")
    /\ UNCHANGED <<next, nlocked, tail>>

\* The compare-and-exchange of lk->next from tail to i, and "if (tail)".
Enqueue(c) ==
    /\ mpc[c] = "cas"
    /\ IF last = tail[c]
         THEN /\ last' = c
              /\ order' = Append(order, c)
              /\ McsGoto(c, IF tail[c] = NoCpu THEN "held" ELSE "lock")
         ELSE /\ McsGoto(c, "load")
              /\ UNCHANGED <<last, order>>
    /\ UNCHANGED <<next, nlocked, tail>>

\* i->locked = 1, while the node is in the queue but not linked yet.
SetLocked(c) ==
    /\ mpc[c] = "lock"
    /\ nlocked' = [nlocked EXCEPT ![c] = 1]
    /\ McsGoto(c, "link")
    /\ UNCHANGED <<last, next, tail, order>>

\* tail->next = i.
Link(c) ==
    /\ mpc[c] = "link"
    /\ next' = [next EXCEPT ![tail[c]] = c]
    /\ McsGoto(c, "wait")
    /\ UNCHANGED <<last, nlocked, tail, order>>

\* while (i->locked) ends.
Granted(c) ==
    /\ mpc[c] = "wait"
    /\ nlocked[c] = 0
    /\ McsGoto(c, "held")
    /\ UNCHANGED <<last, next, nlocked, tail, order>>

\* The compare-and-exchange of lk->next from i to NULL.
TryDequeue(c) ==
    /\ mpc[c] = "held"
    /\ IF last = c
         THEN /\ last' = NoCpu
              /\ order' = Tail(order)
              /\ McsGoto(c, "out")
         ELSE /\ McsGoto(c, "successor")
              /\ UNCHANGED <<last, order>>
    /\ UNCHANGED <<next, nlocked, tail>>

\* Bug: the releasing CPU clears its own locked word.
Bug_ClearsOwn(c) ==
    /\ mpc[c] = "successor"
    /\ next[c] # NoCpu
    /\ nlocked' = [nlocked EXCEPT ![c] = 0]
    /\ order' = Tail(order)
    /\ McsGoto(c, "out")
    /\ UNCHANGED <<last, next, tail>>

\* while (i->next == NULL) ends; i->next->locked = 0.
PassOn(c) ==
    /\ mpc[c] = "successor"
    /\ next[c] # NoCpu
    /\ nlocked' = [nlocked EXCEPT ![next[c]] = 0]
    /\ order' = Tail(order)
    /\ McsGoto(c, "out")
    /\ UNCHANGED <<last, next, tail>>

\* Steps a CPU makes once it has called mcsacquire(), and mcsrelease().
McsStep(c) == LoadTail(c) \/ Enqueue(c) \/ SetLocked(c) \/ Link(c) \/ Granted(c)
           \/ TryDequeue(c) \/ PassOn(c)

McsNext == \E c \in CPUs : InitNode(c) \/ McsStep(c)

\* A CPU goes on once it has started; a failed exchange means another one
\* succeeded, so a CPU may be overtaken only before it is in the queue.
McsSpec     == McsInit /\ [][McsNext]_mcsVars
McsFairSpec == McsSpec /\ \A c \in CPUs : WF_mcsVars(McsStep(c))

-----------------------------------------------------------------------------
McsOwning   == {"held", "successor"}
Enqueued == McsOwning \cup {"lock", "link", "wait"}

\* The lock is passed on in the order of the exchanges: its owner is the CPU
\* at the front, so two CPUs never own it.
FrontOwns == \A c \in CPUs : mpc[c] \in McsOwning => order # <<>> /\ c = Head(order)

\* A CPU that is in the queue gets the lock: unlike spinlock, no starvation
\* after the exchange.
EnqueuedAcquires == \A c \in CPUs : mpc[c] \in Enqueued \ McsOwning ~> mpc[c] = "held"
=============================================================================
