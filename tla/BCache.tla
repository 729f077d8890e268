------------------------------- MODULE BCache -------------------------------
(***************************************************************************)
(* The buffer cache, kern/bio.c, with log_write()'s bpin() of kern/log.c.  *)
(*                                                                         *)
(* Everything under bcache.lock is one step.  The sleeplock of a buffer is *)
(* the abstract mutex it was shown to implement (module SleepLock), and    *)
(* sdrw() a transfer that takes effect when it ends (module SdDriver).     *)
(***************************************************************************)
EXTENDS Integers, Sequences, FiniteSets

CONSTANTS Procs,    \* processes in file system calls
          NBUF,     \* number of buffers
          Blocks,   \* blocks of the device in use
          None,     \* no process, no block
          MaxWrites \* bound: number of changes made to blocks

Bufs == 1..NBUF

ASSUME BCacheAssumption ==
    None \notin Procs \cup Blocks /\ NBUF \in Nat \ {0} /\ MaxWrites \in Nat

VARIABLES
    lru,     \* the list from bcache.head, most recently used first
    blockno, refcnt, valid, data, holder, \* the fields of each buffer
    disk,    \* contents of each block
    pc, want, cur, \* where each process is, the block and the buffer it uses
    pins,    \* history: bpin() calls on each buffer
    latest,  \* history: the last contents given to each block
    writes   \* number of contents made so far

bufVars  == <<lru, blockno, refcnt, valid, data, holder>>
vars     == <<lru, blockno, refcnt, valid, data, holder, disk, pc, want, cur,
              pins, latest, writes>>

\* binit(): every buffer is on the list, the last one initialised first; dev
\* is 0 in all of them, which is no device in use.
Init ==
    /\ lru = [i \in Bufs |-> NBUF + 1 - i]
    /\ blockno = [b \in Bufs |-> None]
    /\ refcnt = [b \in Bufs |-> 0]
    /\ valid = [b \in Bufs |-> FALSE]
    /\ data = [b \in Bufs |-> 0]
    /\ holder = [b \in Bufs |-> None]
    /\ disk = [n \in Blocks |-> 0]
    /\ pc = [p \in Procs |-> "out"]
    /\ want = [p \in Procs |-> None]
    /\ cur = [p \in Procs |-> 0]
    /\ pins = [b \in Bufs |-> 0]
    /\ latest = [n \in Blocks |-> 0]
    /\ writes = 0

Goto(p, l) == pc' = [pc EXCEPT ![p] = l]

\* panic() in bget() keeps bcache.lock: nobody gets into the cache again.
CacheUsable == \A p \in Procs : pc[p] # "panic"

-----------------------------------------------------------------------------
(* bread()                                                                 *)

Cached(n) == {b \in Bufs : blockno[b] = n}

\* bget(), first loop: the block has a buffer.
BgetHit(p, n) ==
    /\ pc[p] = "out" /\ CacheUsable
    /\ \E b \in Cached(n) :
         /\ refcnt' = [refcnt EXCEPT ![b] = @ + 1]
         /\ cur' = [cur EXCEPT ![p] = b]
    /\ want' = [want EXCEPT ![p] = n]
    /\ Goto(p, "bget")
    /\ UNCHANGED <<lru, blockno, valid, data, holder, disk, pins, latest, writes>>

\* The unused buffer nearest the end of the list.
Victim(i) == refcnt[lru[i]] = 0 /\ \A j \in (i + 1)..NBUF : refcnt[lru[j]] # 0

\* bget(), second loop: recycle it.
BgetMiss(p, n) ==
    /\ pc[p] = "out" /\ CacheUsable
    /\ Cached(n) = {}
    /\ \E i \in 1..NBUF :
         /\ Victim(i)
         /\ valid' = [valid EXCEPT ![lru[i]] = FALSE]
         /\ refcnt' = [refcnt EXCEPT ![lru[i]] = 1]
         /\ blockno' = [blockno EXCEPT ![lru[i]] = n]
         /\ cur' = [cur EXCEPT ![p] = lru[i]]
    /\ want' = [want EXCEPT ![p] = n]
    /\ Goto(p, "bget")
    /\ UNCHANGED <<lru, data, holder, disk, pins, latest, writes>>

\* No buffer is unused: panic("No such buffer!") with bcache.lock held.
BgetPanic(p, n) ==
    /\ pc[p] = "out" /\ CacheUsable
    /\ Cached(n) = {}
    /\ \A b \in Bufs : refcnt[b] # 0
    /\ Goto(p, "panic")
    /\ UNCHANGED <<bufVars, disk, want, cur, pins, latest, writes>>

\* acquiresleep(&bf->lock); bget() returns and bread() tests B_VALID.
BgetLocked(p) ==
    /\ pc[p] = "bget"
    /\ holder[cur[p]] = None
    /\ holder' = [holder EXCEPT ![cur[p]] = p]
    /\ Goto(p, IF valid[cur[p]] THEN "use" ELSE "read")
    /\ UNCHANGED <<lru, blockno, refcnt, valid, data, disk, want, cur, pins, latest, writes>>

\* sdrw(bf) returns; flags = B_VALID.
BreadDone(p) ==
    /\ pc[p] = "read"
    /\ data' = [data EXCEPT ![cur[p]] = disk[blockno[cur[p]]]]
    /\ valid' = [valid EXCEPT ![cur[p]] = TRUE]
    /\ Goto(p, "use")
    /\ UNCHANGED <<lru, blockno, refcnt, holder, disk, want, cur, pins, latest, writes>>

-----------------------------------------------------------------------------
(* The user of the buffer changes it and calls log_write() or bwrite().    *)

Modify(p) ==
    /\ pc[p] = "use"
    /\ writes < MaxWrites
    /\ writes' = writes + 1
    /\ data' = [data EXCEPT ![cur[p]] = writes + 1]
    /\ latest' = [latest EXCEPT ![want[p]] = writes + 1]
    /\ Goto(p, "dirty")
    /\ UNCHANGED <<lru, blockno, refcnt, valid, holder, disk, want, cur, pins>>

\* Bug: log_write() does not pin the buffer.
Bug_LogWriteNoPin(p) ==
    /\ pc[p] = "dirty" /\ CacheUsable
    /\ Goto(p, "use")
    /\ UNCHANGED <<bufVars, disk, want, cur, pins, latest, writes>>

\* log_write(): the block is not recorded (module Log), and bpin().
LogWrite(p) ==
    /\ pc[p] = "dirty" /\ CacheUsable
    /\ refcnt' = [refcnt EXCEPT ![cur[p]] = @ + 1]
    /\ pins' = [pins EXCEPT ![cur[p]] = @ + 1]
    /\ Goto(p, "use")
    /\ UNCHANGED <<lru, blockno, valid, data, holder, disk, want, cur, latest, writes>>

\* bwrite(): B_DIRTY, sdrw(b).
BwriteDone(p) ==
    /\ pc[p] = "dirty"
    /\ disk' = [disk EXCEPT ![blockno[cur[p]]] = data[cur[p]]]
    /\ valid' = [valid EXCEPT ![cur[p]] = TRUE]
    /\ Goto(p, "use")
    /\ UNCHANGED <<lru, blockno, refcnt, data, holder, want, cur, pins, latest, writes>>

-----------------------------------------------------------------------------
(* brelse()                                                                *)

\* releasesleep(&b->lock).
BrelseUnlock(p) ==
    /\ pc[p] = "use"
    /\ holder' = [holder EXCEPT ![cur[p]] = None]
    /\ Goto(p, "unlocked")
    /\ UNCHANGED <<lru, blockno, refcnt, valid, data, disk, want, cur, pins, latest, writes>>

\* b at the front of the list, the others in their order.
MovedToFront(b) ==
    LET at == CHOOSE i \in 1..NBUF : lru[i] = b IN
    [i \in 1..NBUF |-> IF i = 1 THEN b ELSE IF i <= at THEN lru[i - 1] ELSE lru[i]]

\* Bug: brelse() drops one reference too many when the buffer is shared.
Bug_BrelseForgetsWaiters(p) ==
    /\ pc[p] = "unlocked" /\ CacheUsable
    /\ refcnt' = [refcnt EXCEPT ![cur[p]] = 0]
    /\ lru' = MovedToFront(cur[p])
    /\ cur' = [cur EXCEPT ![p] = 0]
    /\ want' = [want EXCEPT ![p] = None]
    /\ Goto(p, "out")
    /\ UNCHANGED <<blockno, valid, data, holder, disk, pins, latest, writes>>

\* refcnt--, and the front of the list when it was the last reference.
BrelseUnref(p) ==
    /\ pc[p] = "unlocked" /\ CacheUsable
    /\ refcnt' = [refcnt EXCEPT ![cur[p]] = @ - 1]
    /\ lru' = IF refcnt[cur[p]] = 1 THEN MovedToFront(cur[p]) ELSE lru
    /\ cur' = [cur EXCEPT ![p] = 0]
    /\ want' = [want EXCEPT ![p] = None]
    /\ Goto(p, "out")
    /\ UNCHANGED <<blockno, valid, data, holder, disk, pins, latest, writes>>

Next ==
    \E p \in Procs :
        \/ \E n \in Blocks : BgetHit(p, n) \/ BgetMiss(p, n) \/ BgetPanic(p, n)
        \/ BgetLocked(p) \/ BreadDone(p)
        \/ Modify(p) \/ LogWrite(p) \/ BwriteDone(p)
        \/ BrelseUnlock(p) \/ BrelseUnref(p)

Spec == Init /\ [][Next]_vars

-----------------------------------------------------------------------------
Points == {"out", "bget", "read", "use", "dirty", "unlocked", "panic"}

\* Every field of a buffer and every local of a process keeps its type; the
\* reference counts, unsigned in the code, never go below zero.
TypeOK ==
    /\ lru \in [1..NBUF -> Bufs]
    /\ blockno \in [Bufs -> Blocks \cup {None}]
    /\ refcnt \in [Bufs -> Nat] /\ pins \in [Bufs -> Nat]
    /\ valid \in [Bufs -> BOOLEAN] /\ data \in [Bufs -> Nat]
    /\ holder \in [Bufs -> Procs \cup {None}]
    /\ disk \in [Blocks -> Nat] /\ latest \in [Blocks -> Nat]
    /\ pc \in [Procs -> Points]
    /\ want \in [Procs -> Blocks \cup {None}]
    /\ cur \in [Procs -> Bufs \cup {0}]
    /\ writes \in Nat

Using(b) == {p \in Procs : cur[p] = b}

\* The cache is "a synchronization point for disk blocks used by multiple
\* processes": a block never has two buffers, the buffer a process waits for or
\* uses keeps being the buffer of its block, and refcnt counts the processes
\* between bget() and the end of brelse(), and the pins.
CacheExact ==
    /\ TypeOK
    /\ \A b, d \in Bufs : b # d /\ blockno[b] # None => blockno[b] # blockno[d]
    /\ \A p \in Procs : cur[p] # 0 => blockno[cur[p]] = want[p]
    /\ \A b \in Bufs : refcnt[b] = Cardinality(Using(b)) + pins[b]

\* A process that reads a block through bread() sees the last contents any
\* process gave it, logged or written, from whichever buffer.
ReadsLatest == \A p \in Procs : pc[p] \in {"use", "dirty"} => data[cur[p]] = latest[want[p]]
=============================================================================
