------------------------------- MODULE Mutex --------------------------------
(***************************************************************************)
(* What every lock of the kernel promises: at most one holder, and only    *)
(* the holder gives the lock back.  spinlock and sleeplock are shown to    *)
(* implement it.                                                           *)
(***************************************************************************)
CONSTANTS Agents, \* who may hold the lock
          Nobody  \* not an agent

VARIABLE holder

Init == holder = Nobody

Acquire(a) == holder = Nobody /\ holder' = a
Release(a) == holder = a /\ holder' = Nobody

Next == \E a \in Agents : Acquire(a) \/ Release(a)

Spec == Init /\ [][Next]_holder
=============================================================================
