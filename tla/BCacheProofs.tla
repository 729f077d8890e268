---------------------------- MODULE BCacheProofs ----------------------------
(***************************************************************************)
(* Proofs about the buffer cache: CacheExact and ReadsLatest hold for any  *)
(* number of processes, buffers and blocks, under BCacheAssumption alone.  *)
(*                                                                         *)
(* Neither is inductive.  Recycling a buffer is safe only because the      *)
(* reference counts are exact, reading a block from the disk gives the     *)
(* last contents only because whatever the disk does not have yet is in a  *)
(* buffer that is pinned or locked, and that buffer is the only one of its *)
(* block.  IInv says so.                                                   *)
(***************************************************************************)
EXTENDS BCache, FiniteSetTheorems, TLAPS

\* The points at which a process holds the sleeplock of its buffer.
Locking == {"read", "use", "dirty"}

\* A process has a buffer from bget() to the end of brelse(), and it is the
\* buffer of the block it asked for.
Placed ==
    \A p \in Procs :
        /\ cur[p] = 0 <=> pc[p] \in {"out", "panic"}
        /\ cur[p] # 0 => blockno[cur[p]] = want[p] /\ want[p] \in Blocks

\* A block has at most one buffer.
OneBuffer ==
    \A b, d \in Bufs : b # d /\ blockno[b] # None => blockno[b] # blockno[d]

\* refcnt counts the users and the pins.
Counted ==
    \A b \in Bufs :
        /\ IsFiniteSet(Using(b))
        /\ refcnt[b] = Cardinality(Using(b)) + pins[b]

\* The sleeplock of a buffer is held by one of its users, from bget() to the
\* first half of brelse().
Held ==
    \A b \in Bufs, p \in Procs : holder[b] = p <=> cur[p] = b /\ pc[p] \in Locking

\* B_VALID is set when the buffer is in use, and clear while it is read.
Flagged ==
    /\ \A p \in Procs : /\ pc[p] \in {"use", "dirty"} => valid[cur[p]]
                        /\ pc[p] = "read" => ~ valid[cur[p]]
    /\ \A b \in Bufs : valid[b] => blockno[b] # None

\* A valid buffer has the last contents of its block.
Fresh == \A b \in Bufs : valid[b] => data[b] = latest[blockno[b]]

\* Buffer b keeps contents that bget() may not throw away.
Kept(b) == valid[b] /\ (pins[b] > 0 \/ \E p \in Procs : cur[p] = b /\ pc[p] = "dirty")

\* What the disk does not have is in a buffer that cannot be recycled.
Stored == \A n \in Blocks : disk[n] = latest[n] \/ \E b \in Bufs : blockno[b] = n /\ Kept(b)

IInv == TypeOK /\ Placed /\ OneBuffer /\ Counted /\ Held /\ Flagged /\ Fresh /\ Stored
-----------------------------------------------------------------------------
(* The sets of users.                                                      *)

\* 0 stands for no buffer.
LEMMA BufsPositive == \A b \in Bufs : b \in Nat \ {0}
  BY BCacheAssumption DEF Bufs

\* The number of users is a number.
LEMMA UsersCounted ==
    ASSUME Counted
    PROVE  \A b \in Bufs : Cardinality(Using(b)) \in Nat
  BY FS_CardinalityType DEF Counted

\* A buffer without references has no users and no pins.
LEMMA Unreferenced ==
    ASSUME TypeOK, Counted, NEW b \in Bufs, refcnt[b] = 0
    PROVE  Using(b) = {} /\ pins[b] = 0
<1>1. Cardinality(Using(b)) \in Nat /\ pins[b] \in Nat
  BY UsersCounted DEF TypeOK
<1>2. refcnt[b] = Cardinality(Using(b)) + pins[b] /\ IsFiniteSet(Using(b))
  BY DEF Counted
<1>3. Cardinality(Using(b)) = 0 /\ pins[b] = 0
  BY <1>1, <1>2, SMT
<1> QED
  BY <1>2, <1>3, FS_EmptySet

\* bget() makes p a user of c.
LEMMA UserAdded ==
    ASSUME TypeOK, Counted, NEW p \in Procs, NEW c \in Bufs, cur[p] = 0,
           cur' = [cur EXCEPT ![p] = c]
    PROVE  \A b \in Bufs :
             /\ IsFiniteSet(Using(b)')
             /\ Cardinality(Using(b)') = Cardinality(Using(b)) + (IF b = c THEN 1 ELSE 0)
<1> SUFFICES ASSUME NEW b \in Bufs
             PROVE  /\ IsFiniteSet(Using(b)')
                    /\ Cardinality(Using(b)') = Cardinality(Using(b)) + (IF b = c THEN 1 ELSE 0)
  OBVIOUS
<1>1. IsFiniteSet(Using(b)) /\ Cardinality(Using(b)) \in Nat
  BY UsersCounted DEF Counted
<1>2. p \notin Using(b)
  BY BufsPositive DEF Using
<1>3. Using(b)' = IF b = c THEN Using(b) \cup {p} ELSE Using(b)
  BY <1>2 DEF Using, TypeOK
<1>4. IsFiniteSet(Using(b) \cup {p}) /\ Cardinality(Using(b) \cup {p}) = Cardinality(Using(b)) + 1
  BY <1>1, <1>2, FS_AddElement
<1> QED
  BY <1>1, <1>3, <1>4

\* The end of brelse() makes p no longer a user of its buffer.
LEMMA UserRemoved ==
    ASSUME TypeOK, Counted, NEW p \in Procs, cur[p] \in Bufs,
           cur' = [cur EXCEPT ![p] = 0]
    PROVE  \A b \in Bufs :
             /\ IsFiniteSet(Using(b)')
             /\ Cardinality(Using(b)') = Cardinality(Using(b)) - (IF b = cur[p] THEN 1 ELSE 0)
<1> SUFFICES ASSUME NEW b \in Bufs
             PROVE  /\ IsFiniteSet(Using(b)')
                    /\ Cardinality(Using(b)') = Cardinality(Using(b)) - (IF b = cur[p] THEN 1 ELSE 0)
  OBVIOUS
<1>1. IsFiniteSet(Using(b)) /\ Cardinality(Using(b)) \in Nat
  BY UsersCounted DEF Counted
<1>2. b # 0
  BY BufsPositive
<1>3. Using(b)' = IF b = cur[p] THEN Using(b) \ {p} ELSE Using(b)
  BY <1>2 DEF Using, TypeOK
<1>4. b = cur[p] => /\ IsFiniteSet(Using(b) \ {p})
                    /\ Cardinality(Using(b) \ {p}) = Cardinality(Using(b)) - 1
  <2>1. b = cur[p] => p \in Using(b)
    BY DEF Using
  <2> QED
    BY <1>1, <2>1, FS_RemoveElement
<1> QED
  BY <1>1, <1>3, <1>4

\* A step that leaves cur alone leaves the users alone.
LEMMA UsersKept ==
    ASSUME UNCHANGED cur
    PROVE  \A b \in Bufs : Using(b)' = Using(b)
  BY DEF Using

\* The list keeps its length and holds buffers after a move to the front.
LEMMA MovedToFrontType ==
    ASSUME TypeOK, NEW b \in Bufs
    PROVE  MovedToFront(b) \in [1..NBUF -> Bufs]
<1> DEFINE F(at) == [i \in 1..NBUF |-> IF i = 1 THEN b ELSE IF i <= at THEN lru[i - 1] ELSE lru[i]]
<1>1. \A at : F(at) \in [1..NBUF -> Bufs]
  <2> TAKE at
  <2>1. ASSUME NEW i \in 1..NBUF
        PROVE  (IF i = 1 THEN b ELSE IF i <= at THEN lru[i - 1] ELSE lru[i]) \in Bufs
    <3>1. i # 1 => i - 1 \in 1..NBUF
      BY BCacheAssumption
    <3> QED
      BY <3>1 DEF TypeOK
  <2> QED
    BY <2>1
<1> QED
  BY <1>1 DEF MovedToFront
-----------------------------------------------------------------------------
(* binit().                                                                *)

LEMMA InitIInv == Init => IInv
<1> SUFFICES ASSUME Init PROVE IInv
  OBVIOUS
<1>1. TypeOK
  <2>1. \A i \in Bufs : NBUF + 1 - i \in Bufs
    BY BCacheAssumption DEF Bufs
  <2>2. lru \in [1..NBUF -> Bufs]
    BY <2>1 DEF Init, Bufs
  <2> QED
    BY <2>2 DEF Init, TypeOK, Points
<1>2. Placed
  BY DEF Init, Placed
<1>3. OneBuffer
  BY DEF Init, OneBuffer
<1>4. Counted
  <2> SUFFICES ASSUME NEW b \in Bufs
               PROVE  IsFiniteSet(Using(b)) /\ refcnt[b] = Cardinality(Using(b)) + pins[b]
    BY DEF Counted
  <2>1. Using(b) = {}
    BY BufsPositive DEF Init, Using
  <2> QED
    BY <2>1, FS_EmptySet DEF Init
<1>5. Held
  BY BCacheAssumption, BufsPositive DEF Init, Held
<1>6. Flagged /\ Fresh /\ Stored
  BY DEF Init, Flagged, Fresh, Stored
<1> QED
  BY <1>1, <1>2, <1>3, <1>4, <1>5, <1>6 DEF IInv
-----------------------------------------------------------------------------
(* bread()                                                                 *)

LEMMA BgetHitStep ==
    ASSUME IInv, NEW p \in Procs, NEW n \in Blocks, BgetHit(p, n)
    PROVE  IInv'
<1> USE DEF Goto
<1>0. cur[p] = 0
  BY DEF IInv, Placed, BgetHit
<1> PICK c \in Bufs : /\ blockno[c] = n
                      /\ refcnt' = [refcnt EXCEPT ![c] = @ + 1]
                      /\ cur' = [cur EXCEPT ![p] = c]
  BY DEF BgetHit, Cached
<1>1. TypeOK'
  BY DEF IInv, TypeOK, BgetHit, Points
<1>2. Placed'
  BY BufsPositive DEF IInv, TypeOK, Placed, BgetHit
<1>3. OneBuffer'
  BY DEF IInv, OneBuffer, BgetHit
<1>4. Counted'
  <2> SUFFICES ASSUME NEW b \in Bufs
               PROVE  IsFiniteSet(Using(b)') /\ refcnt'[b] = Cardinality(Using(b)') + pins'[b]
    BY DEF Counted
  <2>1. /\ IsFiniteSet(Using(b)')
        /\ Cardinality(Using(b)') = Cardinality(Using(b)) + (IF b = c THEN 1 ELSE 0)
    BY <1>0, UserAdded DEF IInv
  <2>2. Cardinality(Using(b)) \in Nat /\ refcnt[b] = Cardinality(Using(b)) + pins[b]
    BY UsersCounted DEF IInv, Counted
  <2>3. refcnt'[b] = refcnt[b] + (IF b = c THEN 1 ELSE 0) /\ pins'[b] = pins[b] /\ pins[b] \in Nat
    BY DEF IInv, TypeOK, BgetHit
  <2> QED
    BY <2>1, <2>2, <2>3
<1>5. Held'
  BY <1>0, BufsPositive DEF IInv, TypeOK, Held, BgetHit, Locking
<1>6. Flagged'
  BY DEF IInv, TypeOK, Flagged, BgetHit
<1>7. Fresh'
  BY DEF IInv, Fresh, BgetHit
<1>8. Stored'
  <2>1. \A b \in Bufs : Kept(b) => Kept(b)'
    BY <1>0, BufsPositive DEF IInv, TypeOK, Kept, BgetHit
  <2> QED
    BY <2>1 DEF IInv, Stored, BgetHit
<1> QED
  BY <1>1, <1>2, <1>3, <1>4, <1>5, <1>6, <1>7, <1>8 DEF IInv

\* The buffer that is recycled has no user, no pin, and nobody holds its lock.
LEMMA BgetMissStep ==
    ASSUME IInv, NEW p \in Procs, NEW n \in Blocks, BgetMiss(p, n)
    PROVE  IInv'
<1> USE DEF Goto
<1>0. cur[p] = 0
  BY DEF IInv, Placed, BgetMiss
<1> PICK i \in 1..NBUF : /\ Victim(i)
                         /\ valid' = [valid EXCEPT ![lru[i]] = FALSE]
                         /\ refcnt' = [refcnt EXCEPT ![lru[i]] = 1]
                         /\ blockno' = [blockno EXCEPT ![lru[i]] = n]
                         /\ cur' = [cur EXCEPT ![p] = lru[i]]
  BY DEF BgetMiss
<1> DEFINE c == lru[i]
<1>a. c \in Bufs
  BY DEF IInv, TypeOK
<1>b. refcnt[c] = 0
  BY DEF Victim
<1>c. Using(c) = {} /\ pins[c] = 0
  BY <1>a, <1>b, Unreferenced DEF IInv
<1>d. \A q \in Procs : cur[q] # c
  BY <1>c DEF Using
<1>e. \A b \in Bufs : blockno[b] # n
  BY DEF BgetMiss, Cached
<1>f. n # None
  BY BCacheAssumption
<1>g. /\ valid' = [valid EXCEPT ![c] = FALSE]
      /\ refcnt' = [refcnt EXCEPT ![c] = 1]
      /\ blockno' = [blockno EXCEPT ![c] = n]
      /\ cur' = [cur EXCEPT ![p] = c]
  OBVIOUS
<1> HIDE DEF c
<1>1. TypeOK'
  BY <1>a, <1>g DEF IInv, TypeOK, BgetMiss, Points
<1>2. Placed'
  BY <1>a, <1>d, <1>g, BufsPositive DEF IInv, TypeOK, Placed, BgetMiss
<1>3. OneBuffer'
  BY <1>a, <1>e, <1>g, SMTT(30) DEF IInv, TypeOK, OneBuffer
<1>4. Counted'
  <2> SUFFICES ASSUME NEW b \in Bufs
               PROVE  IsFiniteSet(Using(b)') /\ refcnt'[b] = Cardinality(Using(b)') + pins'[b]
    BY DEF Counted
  <2>1. /\ IsFiniteSet(Using(b)')
        /\ Cardinality(Using(b)') = Cardinality(Using(b)) + (IF b = c THEN 1 ELSE 0)
    BY <1>0, <1>a, <1>g, UserAdded DEF IInv
  <2>2. Cardinality(Using(b)) \in Nat /\ refcnt[b] = Cardinality(Using(b)) + pins[b]
    BY UsersCounted DEF IInv, Counted
  <2>3. refcnt'[b] = (IF b = c THEN 1 ELSE refcnt[b]) /\ pins'[b] = pins[b] /\ pins[b] \in Nat
    BY <1>g DEF IInv, TypeOK, BgetMiss
  <2> QED
    BY <1>b, <2>1, <2>2, <2>3
<1>5. Held'
  BY <1>0, <1>a, <1>d, <1>g, BufsPositive DEF IInv, TypeOK, Held, BgetMiss, Locking
<1>6. Flagged'
  BY <1>a, <1>d, <1>f, <1>g DEF IInv, TypeOK, Flagged, BgetMiss
<1>7. Fresh'
  BY <1>a, <1>g DEF IInv, TypeOK, Fresh, BgetMiss
<1>8. Stored'
  <2>1. \A b \in Bufs : Kept(b) => b # c /\ Kept(b)'
    BY <1>0, <1>a, <1>c, <1>d, <1>g, BufsPositive DEF IInv, TypeOK, Kept, BgetMiss
  <2> QED
    BY <2>1, <1>a, <1>g DEF IInv, TypeOK, Stored, BgetMiss
<1> QED
  BY <1>1, <1>2, <1>3, <1>4, <1>5, <1>6, <1>7, <1>8 DEF IInv

LEMMA BgetPanicStep ==
    ASSUME IInv, NEW p \in Procs, NEW n \in Blocks, BgetPanic(p, n)
    PROVE  IInv'
<1> USE DEF Goto, bufVars
<1>0. cur[p] = 0
  BY DEF IInv, Placed, BgetPanic
<1>1. TypeOK'
  BY DEF IInv, TypeOK, BgetPanic, Points
<1>2. Placed' /\ OneBuffer'
  BY DEF IInv, TypeOK, Placed, OneBuffer, BgetPanic
<1>4. Counted'
  BY UsersKept DEF IInv, Counted, BgetPanic
<1>5. Held'
  BY <1>0, BufsPositive DEF IInv, TypeOK, Held, BgetPanic, Locking
<1>6. Flagged' /\ Fresh'
  BY DEF IInv, TypeOK, Flagged, Fresh, BgetPanic
<1>8. Stored'
  <2>1. \A b \in Bufs : Kept(b) => Kept(b)'
    BY <1>0, BufsPositive DEF IInv, TypeOK, Kept, BgetPanic
  <2> QED
    BY <2>1 DEF IInv, Stored, BgetPanic
<1> QED
  BY <1>1, <1>2, <1>4, <1>5, <1>6, <1>8 DEF IInv

\* acquiresleep() of the buffer's lock.
LEMMA BgetLockedStep ==
    ASSUME IInv, NEW p \in Procs, BgetLocked(p)
    PROVE  IInv'
<1> USE DEF Goto
<1>0. cur[p] \in Bufs
  BY DEF IInv, TypeOK, Placed, BgetLocked
<1>1. TypeOK'
  BY DEF IInv, TypeOK, BgetLocked, Points
<1>2. Placed' /\ OneBuffer'
  BY DEF IInv, TypeOK, Placed, OneBuffer, BgetLocked
<1>4. Counted'
  BY UsersKept DEF IInv, Counted, BgetLocked
<1>5. Held'
  BY <1>0, BCacheAssumption DEF IInv, TypeOK, Held, BgetLocked, Locking
<1>6. Flagged' /\ Fresh'
  BY DEF IInv, TypeOK, Flagged, Fresh, BgetLocked
<1>8. Stored'
  <2>1. \A b \in Bufs : Kept(b) => Kept(b)'
    BY DEF IInv, TypeOK, Kept, BgetLocked
  <2> QED
    BY <2>1 DEF IInv, Stored, BgetLocked
<1> QED
  BY <1>1, <1>2, <1>4, <1>5, <1>6, <1>8 DEF IInv

\* The block read from the disk is the last one: a buffer that kept something
\* newer would be a valid buffer of the same block, so this one.
LEMMA BreadDoneStep ==
    ASSUME IInv, NEW p \in Procs, BreadDone(p)
    PROVE  IInv'
<1> USE DEF Goto
<1> DEFINE c == cur[p]
<1>0. c \in Bufs /\ blockno[c] \in Blocks /\ ~ valid[c] /\ holder[c] = p
  BY ZenonT(60) DEF IInv, TypeOK, Placed, Flagged, Held, Locking, BreadDone
<1>a. disk[blockno[c]] = latest[blockno[c]]
  BY <1>0, BCacheAssumption DEF IInv, Stored, OneBuffer, Kept
<1>b. /\ data' = [data EXCEPT ![c] = disk[blockno[c]]]
      /\ valid' = [valid EXCEPT ![c] = TRUE]
  BY DEF BreadDone
<1>c. \A q \in Procs : q # p /\ cur[q] = c => pc[q] \notin Locking
  BY <1>0 DEF IInv, Held
<1>1. TypeOK'
  BY <1>0, <1>b DEF IInv, TypeOK, BreadDone, Points
<1>2. Placed' /\ OneBuffer'
  BY DEF IInv, TypeOK, Placed, OneBuffer, BreadDone
<1>4. Counted'
  BY UsersKept DEF IInv, Counted, BreadDone
<1>5. Held'
  BY <1>0 DEF IInv, TypeOK, Held, BreadDone, Locking
<1>6. Flagged'
  BY <1>0, <1>b, <1>c, BCacheAssumption DEF IInv, TypeOK, Flagged, BreadDone, Locking
<1>7. Fresh'
  BY <1>0, <1>a, <1>b DEF IInv, TypeOK, Fresh, BreadDone
<1>8. Stored'
  <2>1. \A b \in Bufs : Kept(b) => Kept(b)'
    BY <1>0, <1>b DEF IInv, TypeOK, Kept, BreadDone
  <2> QED
    BY <2>1 DEF IInv, Stored, BreadDone
<1> QED
  BY <1>1, <1>2, <1>4, <1>5, <1>6, <1>7, <1>8 DEF IInv
-----------------------------------------------------------------------------
(* Changing a buffer, log_write() and bwrite().                            *)

LEMMA ModifyStep ==
    ASSUME IInv, NEW p \in Procs, Modify(p)
    PROVE  IInv'
<1> USE DEF Goto
<1> DEFINE c == cur[p]
<1>0. c \in Bufs /\ blockno[c] = want[p] /\ want[p] \in Blocks /\ valid[c]
  BY DEF IInv, TypeOK, Placed, Flagged, Modify
<1>a. /\ data' = [data EXCEPT ![c] = writes + 1]
      /\ latest' = [latest EXCEPT ![blockno[c]] = writes + 1]
      /\ writes + 1 \in Nat
  BY <1>0 DEF IInv, TypeOK, Modify
<1>b. pc' = [pc EXCEPT ![p] = "dirty"] /\ pc[p] = "use"
  BY DEF Modify
<1>1. TypeOK'
  BY <1>0, <1>a DEF IInv, TypeOK, Modify, Points
<1>2. Placed' /\ OneBuffer'
  BY DEF IInv, TypeOK, Placed, OneBuffer, Modify
<1>4. Counted'
  BY UsersKept DEF IInv, Counted, Modify
<1>5. Held'
  BY <1>0 DEF IInv, TypeOK, Held, Modify, Locking
<1>6. Flagged'
  BY <1>0 DEF IInv, TypeOK, Flagged, Modify
<1>7. Fresh'
  <2> SUFFICES ASSUME NEW b \in Bufs, valid'[b]
               PROVE  data'[b] = latest'[blockno'[b]]
    BY DEF Fresh
  <2>1. valid[b] /\ blockno' = blockno /\ blockno[b] \in Blocks
    BY DEF IInv, TypeOK, Flagged, Modify
  <2>2. CASE b = c
    BY <1>0, <1>a, <2>1, <2>2 DEF IInv, TypeOK
  <2>3. CASE b # c
    <3>1. blockno[b] # blockno[c]
      BY <1>0, <2>1, <2>3 DEF IInv, OneBuffer, Flagged
    <3> QED
      BY <1>0, <1>a, <2>1, <2>3, <3>1 DEF IInv, TypeOK, Fresh
  <2> QED
    BY <2>2, <2>3
<1>8. Stored'
  <2>1. \A b \in Bufs : Kept(b) => Kept(b)'
    BY <1>b DEF IInv, TypeOK, Kept, Modify
  <2>2. Kept(c)'
    BY <1>0, <1>b DEF IInv, TypeOK, Kept, Modify
  <2>3. \A n \in Blocks : n # blockno[c] => latest'[n] = latest[n]
    BY <1>a DEF IInv, TypeOK
  <2> QED
    BY <1>0, <2>1, <2>2, <2>3 DEF IInv, Stored, Modify
<1> QED
  BY <1>1, <1>2, <1>4, <1>5, <1>6, <1>7, <1>8 DEF IInv

\* The pin takes over from the lock.
LEMMA LogWriteStep ==
    ASSUME IInv, NEW p \in Procs, LogWrite(p)
    PROVE  IInv'
<1> USE DEF Goto
<1> DEFINE c == cur[p]
<1>0. c \in Bufs /\ valid[c] /\ pc[p] = "dirty"
  BY DEF IInv, TypeOK, Placed, Flagged, LogWrite
<1>a. /\ refcnt' = [refcnt EXCEPT ![c] = @ + 1]
      /\ pins' = [pins EXCEPT ![c] = @ + 1]
  BY DEF LogWrite
<1>1. TypeOK'
  BY <1>0, <1>a DEF IInv, TypeOK, LogWrite, Points
<1>2. Placed' /\ OneBuffer'
  BY DEF IInv, TypeOK, Placed, OneBuffer, LogWrite
<1>4. Counted'
  <2> SUFFICES ASSUME NEW b \in Bufs
               PROVE  IsFiniteSet(Using(b)') /\ refcnt'[b] = Cardinality(Using(b)') + pins'[b]
    BY DEF Counted
  <2>1. Using(b)' = Using(b)
    BY UsersKept DEF LogWrite
  <2>2. /\ Cardinality(Using(b)) \in Nat /\ refcnt[b] = Cardinality(Using(b)) + pins[b]
        /\ IsFiniteSet(Using(b))
    BY UsersCounted DEF IInv, Counted
  <2>3. /\ refcnt'[b] = refcnt[b] + (IF b = c THEN 1 ELSE 0)
        /\ pins'[b] = pins[b] + (IF b = c THEN 1 ELSE 0) /\ pins[b] \in Nat
    BY <1>a DEF IInv, TypeOK
  <2> QED
    BY <2>1, <2>2, <2>3
<1>5. Held'
  BY <1>0 DEF IInv, TypeOK, Held, LogWrite, Locking
<1>6. Flagged' /\ Fresh'
  BY <1>0 DEF IInv, TypeOK, Flagged, Fresh, LogWrite
<1>8. Stored'
  <2>1. \A b \in Bufs : Kept(b) => Kept(b)'
    <3> SUFFICES ASSUME NEW b \in Bufs, Kept(b) PROVE Kept(b)'
      OBVIOUS
    <3>1. valid'[b] /\ pins[b] \in Nat /\ pins'[b] = pins[b] + (IF b = c THEN 1 ELSE 0)
      BY <1>a DEF IInv, TypeOK, Kept, LogWrite
    <3>2. CASE b = c
      BY <3>1, <3>2 DEF Kept
    <3>3. CASE b # c
      BY <3>1, <3>3 DEF IInv, TypeOK, Kept, LogWrite
    <3> QED
      BY <3>2, <3>3
  <2> QED
    BY <2>1 DEF IInv, Stored, LogWrite
<1> QED
  BY <1>1, <1>2, <1>4, <1>5, <1>6, <1>8 DEF IInv

\* The disk gets what the buffer has.
LEMMA BwriteDoneStep ==
    ASSUME IInv, NEW p \in Procs, BwriteDone(p)
    PROVE  IInv'
<1> USE DEF Goto
<1> DEFINE c == cur[p]
<1>0. c \in Bufs /\ blockno[c] \in Blocks /\ valid[c] /\ pc[p] = "dirty"
  BY DEF IInv, TypeOK, Placed, Flagged, BwriteDone
<1>a. disk' = [disk EXCEPT ![blockno[c]] = latest[blockno[c]]] /\ UNCHANGED valid
  <2>1. data[c] = latest[blockno[c]]
    BY <1>0 DEF IInv, Fresh
  <2>2. valid' = [valid EXCEPT ![c] = TRUE]
    BY DEF BwriteDone
  <2> QED
    BY <1>0, <2>1, <2>2 DEF IInv, TypeOK, BwriteDone
<1>1. TypeOK'
  BY <1>0, <1>a DEF IInv, TypeOK, BwriteDone, Points
<1>2. Placed' /\ OneBuffer'
  BY DEF IInv, TypeOK, Placed, OneBuffer, BwriteDone
<1>4. Counted'
  BY UsersKept DEF IInv, Counted, BwriteDone
<1>5. Held'
  BY <1>0 DEF IInv, TypeOK, Held, BwriteDone, Locking
<1>6. Flagged' /\ Fresh'
  BY <1>0, <1>a DEF IInv, TypeOK, Flagged, Fresh, BwriteDone
<1>8. Stored'
  <2> SUFFICES ASSUME NEW n \in Blocks
               PROVE  disk'[n] = latest[n] \/ \E b \in Bufs : blockno[b] = n /\ Kept(b)'
    BY DEF Stored, BwriteDone
  <2>1. CASE n = blockno[c]
    BY <1>a, <2>1 DEF IInv, TypeOK
  <2>2. CASE n # blockno[c]
    <3>1. disk'[n] = disk[n]
      BY <1>a, <2>2 DEF IInv, TypeOK
    <3>2. \A b \in Bufs : b # c /\ Kept(b) => Kept(b)'
      BY <1>a DEF IInv, TypeOK, Kept, BwriteDone
    <3> QED
      BY <2>2, <3>1, <3>2 DEF IInv, Stored
  <2> QED
    BY <2>1, <2>2
<1> QED
  BY <1>1, <1>2, <1>4, <1>5, <1>6, <1>8 DEF IInv
-----------------------------------------------------------------------------
(* brelse()                                                                *)

LEMMA BrelseUnlockStep ==
    ASSUME IInv, NEW p \in Procs, BrelseUnlock(p)
    PROVE  IInv'
<1> USE DEF Goto
<1>0. cur[p] \in Bufs
  BY DEF IInv, TypeOK, Placed, BrelseUnlock
<1>1. TypeOK'
  BY DEF IInv, TypeOK, BrelseUnlock, Points
<1>2. Placed' /\ OneBuffer'
  BY DEF IInv, TypeOK, Placed, OneBuffer, BrelseUnlock
<1>4. Counted'
  BY UsersKept DEF IInv, Counted, BrelseUnlock
<1>5. Held'
  <2>1. holder[cur[p]] = p /\ p # None
    BY <1>0, BCacheAssumption DEF IInv, Held, BrelseUnlock, Locking
  <2> QED
    BY <1>0, <2>1, BCacheAssumption DEF IInv, TypeOK, Held, BrelseUnlock, Locking
<1>6. Flagged' /\ Fresh'
  BY DEF IInv, TypeOK, Flagged, Fresh, BrelseUnlock
<1>8. Stored'
  <2>1. \A b \in Bufs : Kept(b) => Kept(b)'
    BY DEF IInv, TypeOK, Kept, BrelseUnlock
  <2> QED
    BY <2>1 DEF IInv, Stored, BrelseUnlock
<1> QED
  BY <1>1, <1>2, <1>4, <1>5, <1>6, <1>8 DEF IInv

\* refcnt cannot wrap: the process that drops its reference is one of those
\* it counts.
LEMMA BrelseUnrefStep ==
    ASSUME IInv, NEW p \in Procs, BrelseUnref(p)
    PROVE  IInv'
<1> USE DEF Goto
<1> DEFINE c == cur[p]
<1>0. c \in Bufs
  BY DEF IInv, TypeOK, Placed, BrelseUnref
<1>a. /\ refcnt' = [refcnt EXCEPT ![c] = @ - 1]
      /\ cur' = [cur EXCEPT ![p] = 0]
  BY DEF BrelseUnref
<1>4. /\ Counted'
      /\ refcnt' \in [Bufs -> Nat]
  <2>1. ASSUME NEW b \in Bufs
        PROVE  /\ IsFiniteSet(Using(b)') /\ refcnt'[b] = Cardinality(Using(b)') + pins'[b]
               /\ refcnt'[b] \in Nat
    <3>1. /\ IsFiniteSet(Using(b)')
          /\ Cardinality(Using(b)') = Cardinality(Using(b)) - (IF b = c THEN 1 ELSE 0)
      BY <1>0, <1>a, UserRemoved DEF IInv
    <3>2. Cardinality(Using(b)') \in Nat
      BY <3>1, FS_CardinalityType
    <3>3. Cardinality(Using(b)) \in Nat /\ refcnt[b] = Cardinality(Using(b)) + pins[b]
      BY UsersCounted DEF IInv, Counted
    <3>4. refcnt'[b] = refcnt[b] - (IF b = c THEN 1 ELSE 0) /\ pins'[b] = pins[b] /\ pins[b] \in Nat
      BY <1>a DEF IInv, TypeOK, BrelseUnref
    <3> QED
      BY <3>1, <3>2, <3>3, <3>4
  <2>2. refcnt' = [b \in Bufs |-> refcnt'[b]]
    BY <1>a DEF IInv, TypeOK
  <2> QED
    BY <2>1, <2>2 DEF Counted
<1>1. TypeOK'
  <2>1. lru' \in [1..NBUF -> Bufs]
    BY <1>0, MovedToFrontType DEF IInv, TypeOK, BrelseUnref
  <2> QED
    BY <1>4, <2>1 DEF IInv, TypeOK, BrelseUnref, Points
<1>2. Placed' /\ OneBuffer'
  BY DEF IInv, TypeOK, Placed, OneBuffer, BrelseUnref
<1>5. Held'
  BY BufsPositive DEF IInv, TypeOK, Held, BrelseUnref, Locking
<1>6. Flagged' /\ Fresh'
  BY DEF IInv, TypeOK, Flagged, Fresh, BrelseUnref
<1>8. Stored'
  <2>1. \A b \in Bufs : Kept(b) => Kept(b)'
    BY DEF IInv, TypeOK, Kept, BrelseUnref
  <2> QED
    BY <2>1 DEF IInv, Stored, BrelseUnref
<1> QED
  BY <1>1, <1>2, <1>4, <1>5, <1>6, <1>8 DEF IInv
-----------------------------------------------------------------------------
(* The theorems.                                                           *)

LEMMA NextIInv == IInv /\ [Next]_vars => IInv'
<1> SUFFICES ASSUME IInv, [Next]_vars PROVE IInv'
  OBVIOUS
<1>1. CASE Next
  <2> PICK p \in Procs :
        \/ \E n \in Blocks : BgetHit(p, n) \/ BgetMiss(p, n) \/ BgetPanic(p, n)
        \/ BgetLocked(p) \/ BreadDone(p)
        \/ Modify(p) \/ LogWrite(p) \/ BwriteDone(p)
        \/ BrelseUnlock(p) \/ BrelseUnref(p)
    BY <1>1 DEF Next
  <2> QED
    BY BgetHitStep, BgetMissStep, BgetPanicStep, BgetLockedStep, BreadDoneStep, ModifyStep,
       LogWriteStep, BwriteDoneStep, BrelseUnlockStep, BrelseUnrefStep
<1>2. CASE UNCHANGED vars
  BY <1>2 DEF vars, IInv, TypeOK, Placed, OneBuffer, Counted, Using, Held, Flagged, Fresh, Stored, Kept
<1> QED
  BY <1>1, <1>2

\* IInv holds in every reachable state.
THEOREM SpecIInv == Spec => []IInv
  BY InitIInv, NextIInv, PTL DEF Spec

\* bget(), brelse() and bpin() of bio.c, called by any number of processes in
\* any order: no block ever has two buffers, a buffer is not recycled under a
\* process that waits for it, and no reference is lost or counted twice.
THEOREM SpecCacheExact == Spec => []CacheExact
<1>1. IInv => CacheExact
  BY DEF IInv, Placed, OneBuffer, Counted, CacheExact
<1> QED
  BY <1>1, SpecIInv, PTL

\* What bread() returns is the last contents given to the block, although
\* log_write() leaves it off the disk and bget() recycles buffers without
\* writing them back.
THEOREM SpecReadsLatest == Spec => []ReadsLatest
<1>1. IInv => ReadsLatest
  <2> SUFFICES ASSUME IInv, NEW p \in Procs, pc[p] \in {"use", "dirty"}
               PROVE  data[cur[p]] = latest[want[p]]
    BY DEF ReadsLatest
  <2>1. cur[p] \in Bufs /\ blockno[cur[p]] = want[p] /\ valid[cur[p]]
    BY DEF IInv, TypeOK, Placed, Flagged
  <2> QED
    BY <2>1 DEF IInv, Fresh
<1> QED
  BY <1>1, SpecIInv, PTL
=============================================================================
