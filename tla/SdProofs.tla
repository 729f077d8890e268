------------------------------ MODULE SdProofs -------------------------------
(***************************************************************************)
(* Proofs about the SD driver: ControllerInStep and SdrwSynced (the        *)
(* request queue) and CardReady and FailsOnlyOnFault (sdInit()) hold for   *)
(* any processes, blocks, contents, cards and number of repetitions.       *)
(*                                                                         *)
(* DriverInv follows the request at the head of the queue through the      *)
(* controller: what is on the wire, in the FIFO and in the interrupt       *)
(* register at each point of sd_intr() (InStep).  It needs that the queue  *)
(* holds each waiting buffer once (Queued) and that no two of them are for *)
(* one block (OnePerBlock): the write of another request would undo what a *)
(* caller was told.  CardInv follows the card through sdInit(): what both  *)
(* sides have agreed on at each step, whatever was lost before (Agreed),   *)
(* and where a card is if nothing was (Smooth).                            *)
(***************************************************************************)
EXTENDS SdCard, TLAPS

Points == {"out", "call", "start", "sleep", "asleep", "woken", "done"}

Typed ==
    /\ sdlock \in Procs \cup {Intr, Nobody}
    /\ sdque \in Seq(Procs)
    /\ blockno \in [Procs -> Blocks]
    /\ valid \in [Procs -> BOOLEAN] /\ dirty \in [Procs -> BOOLEAN]
    /\ data \in [Procs -> Vals] /\ disk \in [Blocks -> Vals]
    /\ pc \in [Procs -> Points]
    /\ ipc \in {"out", "spin", "handle", "drain", "finish", "next"}

\* sdlock is held by a process between sdrw()'s acquire and its sleep(), and by
\* the handler from its acquire to its release.
Locks ==
    /\ sdlock = Intr <=> ipc \in {"handle", "drain", "finish", "next"}
    /\ \A p \in Procs : sdlock = p <=> pc[p] \in {"start", "sleep"}

\* The queue holds the buffers that are not served yet, each once, and one that
\* is about to be started is alone.
Queued ==
    /\ \A i, j \in 1..Len(sdque) : sdque[i] = sdque[j] => i = j
    /\ \A p \in Procs : pc[p] \in {"start", "sleep", "asleep"} <=> \E i \in 1..Len(sdque) : sdque[i] = p
    /\ \A p \in Procs : pc[p] = "start" => sdque = <<p>>

\* One buffer per block.
OnePerBlock ==
    \A p, q \in Procs : pc[p] # "out" /\ pc[q] # "out" /\ p # q => blockno[p] # blockno[q]

\* What a caller finds is still so.
Synced ==
    \A p \in Procs : pc[p] \in {"woken", "done"} => valid[p] /\ ~dirty[p] /\ data[p] = disk[blockno[p]]

\* The transfer of the request at the head of the queue, from sd_start() to the
\* interrupt.
Transfer(b) ==
    \/ ~dirty[b] /\ ints = {} /\ hw = [kind |-> "read", block |-> blockno[b]]
    \/ ~dirty[b] /\ ints = {"READ_RDY"} /\ hw = [kind |-> "ready", block |-> blockno[b], fifo |-> disk[blockno[b]]]
    \/ dirty[b] /\ ints = {} /\ hw = [kind |-> "write", block |-> blockno[b], fifo |-> data[b]]
    \/ dirty[b] /\ ints = {"DATA_DONE"} /\ hw = Idle /\ data[b] = disk[blockno[b]]

\* The data lines are free again once the FIFO of a read is empty.
Drained ==
    \/ ints = {} /\ hw = [kind |-> "drained"]
    \/ ints = {"DATA_DONE"} /\ hw = Idle

Starting == \E p \in Procs : pc[p] = "start"

\* Where the handler and the controller are with the head of the queue.
InStep ==
    /\ sdque = <<>> => ipc = "out" /\ Quiet
    /\ Starting => ipc = "out" /\ Quiet
    /\ sdque # <<>> /\ ~Starting =>
         LET b == Head(sdque) IN
         /\ ipc \in {"out", "spin", "handle"} => Transfer(b) /\ (ipc # "out" => ints # {})
         /\ ipc = "drain" => Drained /\ ~dirty[b] /\ data[b] = disk[blockno[b]]
         /\ ipc = "finish" => Quiet /\ data[b] = disk[blockno[b]]
         /\ ipc = "next" => Quiet

DriverInv == Typed /\ Locks /\ Queued /\ OnePerBlock /\ Synced /\ InStep

-----------------------------------------------------------------------------
(* The queue and its head.                                                 *)

\* The first buffer of a queue waits, and is no buffer that does not.
LEMMA HeadOf ==
    ASSUME DriverInv, sdque # <<>>
    PROVE  /\ Head(sdque) = sdque[1] /\ Head(sdque) \in Procs /\ 1 \in 1..Len(sdque)
           /\ pc[Head(sdque)] \in {"start", "sleep", "asleep"}
<1>1. /\ sdque \in Seq(Procs) /\ Head(sdque) = sdque[1] /\ Head(sdque) \in Procs
      /\ 1 \in 1..Len(sdque)
  BY DEF DriverInv, Typed
<1>2. pc[Head(sdque)] \in {"start", "sleep", "asleep"}
  BY <1>1 DEF DriverInv, Queued
<1> QED
  BY <1>1, <1>2

\* Nobody starts a request while sdlock is free or the handler has it.
LEMMA NoneStarts ==
    ASSUME DriverInv, sdlock \in {Nobody, Intr}
    PROVE  ~ Starting /\ \A p \in Procs : pc[p] \notin {"start", "sleep"}
  BY AgentAssumption DEF DriverInv, Locks, Starting

\* How a process's move shows in pc.
LEMMA Moved ==
    ASSUME DriverInv, NEW p \in Procs, NEW l \in Points, Goto(p, l)
    PROVE  /\ pc' \in [Procs -> Points] /\ pc'[p] = l
           /\ \A q \in Procs \ {p} : pc'[q] = pc[q]
  BY DEF Goto, DriverInv, Typed

\* A step that is neither one of the controller nor one of the handler, and
\* that leaves the head of the queue alone.
LEMMA InStepKept ==
    ASSUME DriverInv, UNCHANGED <<sdque, disk, hw, ints, ipc>>,
           \A q \in Procs : pc'[q] = "start" <=> pc[q] = "start",
           sdque # <<>> => /\ dirty'[Head(sdque)] = dirty[Head(sdque)]
                           /\ data'[Head(sdque)] = data[Head(sdque)]
                           /\ blockno'[Head(sdque)] = blockno[Head(sdque)]
    PROVE  InStep'
<1>1. Starting' <=> Starting
  BY DEF Starting
<1>2. sdque # <<>> => (Transfer(Head(sdque))' <=> Transfer(Head(sdque)))
  BY DEF Transfer, Idle
<1>3. (Drained' <=> Drained) /\ (Quiet' <=> Quiet)
  BY DEF Drained, Quiet, Idle
<1> QED
  BY <1>1, <1>2, <1>3 DEF DriverInv, InStep

\* Queued depends on the queue and on who waits.
LEMMA QueuedKept ==
    ASSUME DriverInv, UNCHANGED sdque,
           \A q \in Procs : /\ pc'[q] \in {"start", "sleep", "asleep"} <=> pc[q] \in {"start", "sleep", "asleep"}
                            /\ pc'[q] = "start" => pc[q] = "start"
    PROVE  Queued'
  BY DEF DriverInv, Queued

LEMMA InitDriverInv == Init => DriverInv
<1> SUFFICES ASSUME Init PROVE DriverInv
  OBVIOUS
<1>1. Typed
  BY DEF Init, Typed, Points
<1>2. Locks
  BY AgentAssumption DEF Init, Locks
<1>3. Queued /\ OnePerBlock /\ Synced
  BY DEF Init, Queued, OnePerBlock, Synced
<1>4. InStep
  BY DEF Init, InStep, Quiet, Starting
<1> QED
  BY <1>1, <1>2, <1>3, <1>4 DEF DriverInv
-----------------------------------------------------------------------------
(* The callers.                                                            *)

\* A new request is for a block nobody else has.
LEMMA RequestStep ==
    ASSUME DriverInv, NEW p \in Procs, NEW n \in Blocks, NEW b \in BOOLEAN, NEW d \in [Procs -> Vals],
           pc[p] = "out", Unshared(p, n), Goto(p, "call"),
           blockno' = [blockno EXCEPT ![p] = n],
           valid' = [valid EXCEPT ![p] = b], dirty' = [dirty EXCEPT ![p] = b],
           data' = d, \A q \in Procs \ {p} : d[q] = data[q],
           UNCHANGED <<sdlock, sdque, disk, hw, ints, ipc>>
    PROVE  DriverInv'
<1>1. pc' \in [Procs -> Points] /\ pc'[p] = "call" /\ \A q \in Procs \ {p} : pc'[q] = pc[q]
  BY Moved DEF Points
<1>2. /\ blockno'[p] = n
      /\ \A q \in Procs \ {p} : /\ blockno'[q] = blockno[q] /\ valid'[q] = valid[q]
                                /\ dirty'[q] = dirty[q] /\ data'[q] = data[q]
  BY DEF DriverInv, Typed
<1>3. Typed'
  BY <1>1 DEF DriverInv, Typed
<1>4. Locks'
  BY <1>1 DEF DriverInv, Locks
<1>5. Queued'
  BY <1>1, QueuedKept
<1>6. OnePerBlock'
  BY <1>1, <1>2 DEF DriverInv, OnePerBlock, Unshared
<1>7. Synced'
  BY <1>1, <1>2 DEF DriverInv, Synced
<1>8. InStep'
  <2>1. sdque # <<>> => Head(sdque) \in Procs \ {p}
    BY HeadOf
  <2> QED
    BY <1>1, <1>2, <2>1, InStepKept
<1> QED
  BY <1>3, <1>4, <1>5, <1>6, <1>7, <1>8 DEF DriverInv

LEMMA ReadRequestStep ==
    ASSUME DriverInv, NEW p \in Procs, NEW n \in Blocks, ReadRequest(p, n)
    PROVE  DriverInv'
<1>1. data \in [Procs -> Vals] /\ FALSE \in BOOLEAN
  BY DEF DriverInv, Typed
<1> QED
  BY <1>1, RequestStep DEF ReadRequest, hwVars

LEMMA WriteRequestStep ==
    ASSUME DriverInv, NEW p \in Procs, NEW n \in Blocks, NEW v \in Vals, WriteRequest(p, n, v)
    PROVE  DriverInv'
<1> DEFINE d == [data EXCEPT ![p] = v]
<1>1. d \in [Procs -> Vals] /\ (\A q \in Procs \ {p} : d[q] = data[q]) /\ TRUE \in BOOLEAN
  BY DEF DriverInv, Typed
<1>2. data' = d
  BY DEF WriteRequest
<1> HIDE DEF d
<1> QED
  BY <1>1, <1>2, RequestStep DEF WriteRequest, hwVars

\* A step of a process that leaves the buffers, the queue and the controller alone.
LEMMA CallerKept ==
    ASSUME DriverInv, pc' \in [Procs -> Points], sdlock' \in Procs \cup {Intr, Nobody},
           UNCHANGED <<sdque, blockno, valid, dirty, data, disk, hw, ints, ipc>>,
           \A q \in Procs : /\ pc'[q] \in {"start", "sleep", "asleep"} <=> pc[q] \in {"start", "sleep", "asleep"}
                            /\ pc'[q] = "start" <=> pc[q] = "start"
                            /\ pc'[q] # "out" => pc[q] # "out"
                            /\ pc'[q] \in {"woken", "done"} => pc[q] \in {"woken", "done"}
    PROVE  Typed' /\ Queued' /\ OnePerBlock' /\ Synced' /\ InStep'
<1>1. Typed' /\ OnePerBlock' /\ Synced'
  BY DEF DriverInv, Typed, OnePerBlock, Synced
<1>2. Queued'
  BY QueuedKept
<1>3. InStep'
  BY InStepKept
<1> QED
  BY <1>1, <1>2, <1>3

LEMMA SdrwEnterStep == ASSUME DriverInv, NEW p \in Procs, SdrwEnter(p) PROVE DriverInv'
<1>1. /\ pc[p] = "call" /\ sdlock = Nobody /\ sdlock' = p /\ sdque' = Append(sdque, p)
      /\ Goto(p, IF sdque = <<>> THEN "start" ELSE "sleep")
      /\ UNCHANGED <<blockno, valid, dirty, data, disk, hw, ints, ipc>>
  BY DEF SdrwEnter, bufVars, hwVars
<1>2. /\ pc' \in [Procs -> Points] /\ pc'[p] = IF sdque = <<>> THEN "start" ELSE "sleep"
      /\ \A q \in Procs \ {p} : pc'[q] = pc[q]
  BY <1>1, Moved DEF Points
<1>3. /\ sdque \in Seq(Procs) /\ Len(sdque) \in Nat
      /\ sdque' \in Seq(Procs) /\ Len(sdque') = Len(sdque) + 1 /\ sdque'[Len(sdque) + 1] = p
      /\ \A i \in 1..Len(sdque) : sdque'[i] = sdque[i]
  BY <1>1 DEF DriverInv, Typed
<1>4. ~ Starting /\ \A q \in Procs : pc[q] \notin {"start", "sleep"}
  BY <1>1, NoneStarts
<1>5. Typed'
  BY <1>1, <1>2, <1>3 DEF DriverInv, Typed
<1>6. Locks'
  <2>1. \A q \in Procs : sdlock' = q <=> pc'[q] \in {"start", "sleep"}
    BY <1>1, <1>2, <1>4
  <2> QED
    BY <1>1, <2>1, AgentAssumption DEF DriverInv, Locks
<1>7. Queued'
  <2>1. \A i \in 1..Len(sdque) : sdque[i] # p
    BY <1>1 DEF DriverInv, Queued
  <2>2. \A i, j \in 1..Len(sdque') : sdque'[i] = sdque'[j] => i = j
    <3> SUFFICES ASSUME NEW i \in 1..Len(sdque'), NEW j \in 1..Len(sdque'), sdque'[i] = sdque'[j]
                 PROVE  i = j
      OBVIOUS
    <3>1. i \in 1..Len(sdque) \/ i = Len(sdque) + 1
      BY <1>3
    <3>2. j \in 1..Len(sdque) \/ j = Len(sdque) + 1
      BY <1>3
    <3> QED
      BY <1>3, <2>1, <3>1, <3>2 DEF DriverInv, Queued
  <2>3. ASSUME NEW q \in Procs
        PROVE  pc'[q] \in {"start", "sleep", "asleep"} <=> \E i \in 1..Len(sdque') : sdque'[i] = q
    <3>1. CASE q = p
      <4>1. Len(sdque) + 1 \in 1..Len(sdque')
        BY <1>3
      <4> QED
        BY <1>2, <1>3, <3>1, <4>1
    <3>2. CASE q # p
      <4>1. (\E i \in 1..Len(sdque') : sdque'[i] = q) <=> \E i \in 1..Len(sdque) : sdque[i] = q
        <5>1. 1..Len(sdque') = 1..Len(sdque) \cup {Len(sdque) + 1}
          BY <1>3
        <5> QED
          BY <1>3, <3>2, <5>1
      <4> QED
        BY <1>2, <3>2, <4>1 DEF DriverInv, Queued
    <3> QED
      BY <3>1, <3>2
  <2>4. \A q \in Procs : pc'[q] = "start" => sdque' = <<q>>
    <3>1. sdque = <<>> => sdque' = <<p>>
      BY <1>1
    <3> QED
      BY <1>2, <1>4, <3>1
  <2> QED
    BY <2>2, <2>3, <2>4 DEF Queued
<1>8. OnePerBlock' /\ Synced'
  BY <1>1, <1>2 DEF DriverInv, OnePerBlock, Synced
<1>9. InStep'
  <2>1. sdque' # <<>>
    BY <1>3
  <2>2. CASE sdque = <<>>
    <3>1. Starting' /\ ipc' = "out" /\ Quiet'
      BY <1>1, <1>2, <2>2 DEF DriverInv, InStep, Quiet, Starting, Idle
    <3> QED
      BY <2>1, <3>1 DEF InStep
  <2>3. CASE sdque # <<>>
    <3>1. ~ Starting'
      BY <1>2, <1>4, <2>3 DEF Starting
    <3>2. Head(sdque') = Head(sdque)
      BY <1>3, <2>1, <2>3, HeadOf
    <3>3. Transfer(Head(sdque))' <=> Transfer(Head(sdque))
      BY <1>1, <3>2 DEF Transfer, Idle
    <3>4. (Drained' <=> Drained) /\ (Quiet' <=> Quiet)
      BY <1>1 DEF Drained, Quiet, Idle
    <3> QED
      BY <1>1, <1>4, <2>1, <2>3, <3>1, <3>2, <3>3, <3>4 DEF DriverInv, InStep
  <2> QED
    BY <2>2, <2>3
<1> QED
  BY <1>5, <1>6, <1>7, <1>8, <1>9 DEF DriverInv

\* sd_start() finds the controller quiet.
LEMMA SdrwStartStep == ASSUME DriverInv, NEW p \in Procs, SdrwStart(p) PROVE DriverInv'
<1>1. pc[p] = "start" /\ Starting /\ Quiet /\ ipc = "out" /\ sdque = <<p>> /\ sdlock = p
  BY DEF SdrwStart, Starting, DriverInv, InStep, Queued, Locks
<1>2. /\ hw' = Started(p) /\ Goto(p, "sleep") /\ ints' = {}
      /\ UNCHANGED <<sdlock, sdque, blockno, valid, dirty, data, disk, ipc>>
  BY <1>1 DEF SdrwStart, Quiet, bufVars
<1>3. pc' \in [Procs -> Points] /\ pc'[p] = "sleep" /\ \A q \in Procs \ {p} : pc'[q] = pc[q]
  BY <1>2, Moved DEF Points
<1>4. Typed' /\ OnePerBlock' /\ Synced'
  BY <1>1, <1>2, <1>3 DEF DriverInv, Typed, OnePerBlock, Synced
<1>5. Locks'
  BY <1>1, <1>2, <1>3 DEF DriverInv, Locks
<1>6. Queued'
  BY <1>1, <1>2, <1>3, QueuedKept
<1>7. InStep'
  <2>1. ~ Starting'
    <3>1. \A q \in Procs \ {p} : pc[q] # "start"
      BY <1>1 DEF DriverInv, Locks
    <3> QED
      BY <1>3, <3>1 DEF Starting
  <2>2. Head(sdque') = p /\ sdque' # <<>>
    BY <1>1, <1>2
  <2>3. Transfer(p)'
    BY <1>2 DEF Transfer, Started, DriverInv, Typed
  <2> QED
    BY <1>1, <1>2, <2>1, <2>2, <2>3 DEF InStep
<1> QED
  BY <1>4, <1>5, <1>6, <1>7 DEF DriverInv

LEMMA SdrwSleepStep == ASSUME DriverInv, NEW p \in Procs, SdrwSleep(p) PROVE DriverInv'
<1>1. /\ pc[p] = "sleep" /\ sdlock' = Nobody /\ Goto(p, "asleep")
      /\ UNCHANGED <<sdque, blockno, valid, dirty, data, disk, hw, ints, ipc>>
  BY DEF SdrwSleep, bufVars, hwVars
<1>2. pc' \in [Procs -> Points] /\ pc'[p] = "asleep" /\ \A q \in Procs \ {p} : pc'[q] = pc[q]
  BY <1>1, Moved DEF Points
<1>3. Typed' /\ Queued' /\ OnePerBlock' /\ Synced' /\ InStep'
  BY <1>1, <1>2, CallerKept
<1>4. Locks'
  <2>1. sdlock = p
    BY <1>1 DEF DriverInv, Locks
  <2> QED
    BY <1>1, <1>2, <2>1, AgentAssumption DEF DriverInv, Locks
<1> QED
  BY <1>3, <1>4 DEF DriverInv

LEMMA SdrwReturnStep == ASSUME DriverInv, NEW p \in Procs, SdrwReturn(p) PROVE DriverInv'
<1>1. /\ pc[p] = "woken" /\ sdlock' = sdlock /\ Goto(p, "done")
      /\ UNCHANGED <<sdque, blockno, valid, dirty, data, disk, hw, ints, ipc>>
  BY DEF SdrwReturn, bufVars, hwVars
<1>2. pc' \in [Procs -> Points] /\ pc'[p] = "done" /\ \A q \in Procs \ {p} : pc'[q] = pc[q]
  BY <1>1, Moved DEF Points
<1>3. Typed' /\ Queued' /\ OnePerBlock' /\ Synced' /\ InStep'
  <2>1. sdlock' \in Procs \cup {Intr, Nobody}
    BY <1>1 DEF DriverInv, Typed
  <2> QED
    BY <1>1, <1>2, <2>1, CallerKept
<1>4. Locks'
  BY <1>1, <1>2 DEF DriverInv, Locks
<1> QED
  BY <1>3, <1>4 DEF DriverInv

LEMMA FinishStep == ASSUME DriverInv, NEW p \in Procs, Finish(p) PROVE DriverInv'
<1>1. /\ pc[p] = "done" /\ sdlock' = sdlock /\ Goto(p, "out")
      /\ UNCHANGED <<sdque, blockno, valid, dirty, data, disk, hw, ints, ipc>>
  BY DEF Finish, bufVars, hwVars
<1>2. pc' \in [Procs -> Points] /\ pc'[p] = "out" /\ \A q \in Procs \ {p} : pc'[q] = pc[q]
  BY <1>1, Moved DEF Points
<1>3. Typed' /\ Queued' /\ OnePerBlock' /\ Synced' /\ InStep'
  <2>1. sdlock' \in Procs \cup {Intr, Nobody}
    BY <1>1 DEF DriverInv, Typed
  <2> QED
    BY <1>1, <1>2, <2>1, CallerKept
<1>4. Locks'
  BY <1>1, <1>2 DEF DriverInv, Locks
<1> QED
  BY <1>3, <1>4 DEF DriverInv
-----------------------------------------------------------------------------
(* The controller and the card.                                            *)

\* While a transfer is on, it is the one of the head of the queue, and the
\* handler has not begun.
LEMMA OnTheWire ==
    ASSUME DriverInv, hw.kind \in {"read", "write"}
    PROVE  /\ sdque # <<>> /\ ~ Starting /\ ipc = "out" /\ Head(sdque) \in Procs
           /\ Transfer(Head(sdque)) /\ ints = {}
<1>1. hw # Idle /\ hw # [kind |-> "drained"]
  BY DEF Idle
<1>2. sdque # <<>> /\ ~ Starting
  BY <1>1 DEF DriverInv, InStep, Quiet
<1>3. ipc \in {"out", "spin", "handle"}
  BY <1>1, <1>2 DEF DriverInv, Typed, InStep, Quiet, Drained
<1>4. Transfer(Head(sdque)) /\ (ipc # "out" => ints # {})
  BY <1>2, <1>3 DEF DriverInv, InStep
<1>5. ints = {}
  BY <1>1, <1>4 DEF Transfer
<1> QED
  BY <1>2, <1>3, <1>4, <1>5, HeadOf

LEMMA HwReadReadyStep == ASSUME DriverInv, HwReadReady PROVE DriverInv'
<1>1. /\ hw.kind = "read" /\ hw' = [kind |-> "ready", block |-> hw.block, fifo |-> disk[hw.block]]
      /\ ints' = ints \cup {"READ_RDY"}
      /\ UNCHANGED <<sdlock, sdque, blockno, valid, dirty, data, disk, pc, ipc>>
  BY DEF HwReadReady, bufVars
<1>2. /\ sdque # <<>> /\ ~ Starting /\ ipc = "out" /\ Head(sdque) \in Procs
      /\ Transfer(Head(sdque)) /\ ints = {}
  BY <1>1, OnTheWire
<1>3. Typed' /\ Locks' /\ Queued' /\ OnePerBlock' /\ Synced'
  BY <1>1 DEF DriverInv, Typed, Locks, Queued, OnePerBlock, Synced
<1>4. ~ dirty[Head(sdque)] /\ hw.block = blockno[Head(sdque)]
  BY <1>1, <1>2 DEF Transfer, Idle
<1>5. InStep'
  <2>1. ~ Starting'
    BY <1>1, <1>2 DEF Starting
  <2>2. Transfer(Head(sdque))'
    BY <1>1, <1>2, <1>4 DEF Transfer
  <2> QED
    BY <1>1, <1>2, <2>1, <2>2 DEF InStep
<1> QED
  BY <1>3, <1>5 DEF DriverInv

LEMMA HwReadDoneStep == ASSUME DriverInv, HwReadDone PROVE DriverInv'
<1>1. /\ hw.kind = "drained" /\ hw' = Idle /\ ints' = ints \cup {"DATA_DONE"}
      /\ UNCHANGED <<sdlock, sdque, blockno, valid, dirty, data, disk, pc, ipc>>
  BY DEF HwReadDone, bufVars
<1>2. Typed' /\ Locks' /\ Queued' /\ OnePerBlock' /\ Synced'
  BY <1>1 DEF DriverInv, Typed, Locks, Queued, OnePerBlock, Synced
<1>3. sdque # <<>> /\ ~ Starting /\ hw # Idle
  BY <1>1 DEF DriverInv, InStep, Quiet, Idle
<1>4. ~ Transfer(Head(sdque))
  BY <1>1, <1>3 DEF Transfer
<1>5. ipc = "drain" /\ Drained
  BY <1>3, <1>4 DEF DriverInv, Typed, InStep, Quiet
<1>6. InStep'
  <2>1. ~ Starting'
    BY <1>1, <1>3 DEF Starting
  <2>2. Drained'
    BY <1>1, <1>3, <1>5 DEF Drained, Idle
  <2> QED
    BY <1>1, <1>3, <1>5, <2>1, <2>2 DEF DriverInv, InStep
<1> QED
  BY <1>2, <1>6 DEF DriverInv

\* The write is to a block no finished request is for.
LEMMA HwWriteDoneStep == ASSUME DriverInv, HwWriteDone PROVE DriverInv'
<1> DEFINE b == Head(sdque)
<1>1. /\ hw.kind = "write" /\ disk' = [disk EXCEPT ![hw.block] = hw.fifo] /\ hw' = Idle
      /\ ints' = ints \cup {"DATA_DONE"}
      /\ UNCHANGED <<sdlock, sdque, blockno, valid, dirty, data, pc, ipc>>
  BY DEF HwWriteDone, bufVars
<1>2. /\ sdque # <<>> /\ ~ Starting /\ ipc = "out" /\ b \in Procs /\ Transfer(b) /\ ints = {}
  BY <1>1, OnTheWire
<1>3. dirty[b] /\ hw.block = blockno[b] /\ hw.fifo = data[b]
  BY <1>1, <1>2 DEF Transfer, Idle
<1>4. /\ blockno[b] \in Blocks /\ data[b] \in Vals /\ disk \in [Blocks -> Vals]
  BY <1>2 DEF DriverInv, Typed
<1>5. /\ disk' \in [Blocks -> Vals] /\ disk'[blockno[b]] = data[b]
      /\ \A n \in Blocks \ {blockno[b]} : disk'[n] = disk[n]
  BY <1>1, <1>3, <1>4
<1>6. Typed' /\ Locks' /\ Queued' /\ OnePerBlock'
  BY <1>1, <1>5 DEF DriverInv, Typed, Locks, Queued, OnePerBlock
<1>7. Synced'
  <2>1. pc[b] \in {"start", "sleep", "asleep"}
    BY <1>2, HeadOf
  <2>2. ASSUME NEW p \in Procs, pc[p] \in {"woken", "done"} PROVE disk'[blockno[p]] = disk[blockno[p]]
    <3>1. blockno[p] # blockno[b] /\ blockno[p] \in Blocks
      BY <1>2, <2>1, <2>2 DEF DriverInv, Typed, OnePerBlock
    <3> QED
      BY <1>5, <3>1
  <2> QED
    BY <1>1, <2>2 DEF DriverInv, Synced
<1>8. InStep'
  <2>1. ~ Starting'
    BY <1>1, <1>2 DEF Starting
  <2>2. Transfer(Head(sdque))'
    BY <1>1, <1>2, <1>3, <1>5 DEF Transfer, Idle
  <2> QED
    BY <1>1, <1>2, <2>1, <2>2 DEF InStep
<1> QED
  BY <1>6, <1>7, <1>8 DEF DriverInv
-----------------------------------------------------------------------------
(* sd_intr()                                                               *)

\* An interrupt is for a request: the queue is not empty and nobody is about
\* to start one.
LEMMA Signalled ==
    ASSUME DriverInv, ints # {}
    PROVE  sdque # <<>> /\ ~ Starting
  BY DEF DriverInv, InStep, Quiet

\* The same while the handler runs.
LEMMA HandlerBusy ==
    ASSUME DriverInv, ipc # "out"
    PROVE  sdque # <<>> /\ ~ Starting
  BY DEF DriverInv, InStep

LEMMA IntrTakenStep == ASSUME DriverInv, IntrTaken PROVE DriverInv'
<1>1. /\ ipc = "out" /\ ints # {} /\ ipc' = "spin"
      /\ UNCHANGED <<sdlock, sdque, blockno, valid, dirty, data, disk, hw, ints, pc>>
  BY DEF IntrTaken, bufVars, hwVars
<1>2. Typed' /\ Locks' /\ Queued' /\ OnePerBlock' /\ Synced'
  BY <1>1 DEF DriverInv, Typed, Locks, Queued, OnePerBlock, Synced
<1>3. InStep'
  <2>1. sdque # <<>> /\ ~ Starting
    BY <1>1, Signalled
  <2>2. ~ Starting'
    BY <1>1, <2>1 DEF Starting
  <2>3. Transfer(Head(sdque))
    BY <1>1, <2>1 DEF DriverInv, InStep
  <2>4. Transfer(Head(sdque))'
    BY <1>1, <2>3 DEF Transfer, Idle
  <2> QED
    BY <1>1, <2>1, <2>2, <2>4 DEF InStep
<1> QED
  BY <1>2, <1>3 DEF DriverInv

LEMMA IntrEnterStep == ASSUME DriverInv, IntrEnter PROVE DriverInv'
<1>1. /\ ipc = "spin" /\ sdlock = Nobody /\ sdlock' = Intr /\ ipc' = "handle"
      /\ UNCHANGED <<sdque, blockno, valid, dirty, data, disk, hw, ints, pc>>
  BY DEF IntrEnter, bufVars, hwVars
<1>2. Typed' /\ Queued' /\ OnePerBlock' /\ Synced'
  BY <1>1 DEF DriverInv, Typed, Queued, OnePerBlock, Synced
<1>3. Locks'
  BY <1>1, AgentAssumption DEF DriverInv, Locks
<1>4. InStep'
  <2>1. sdque # <<>> /\ ~ Starting
    BY <1>1, HandlerBusy
  <2>2. ~ Starting'
    BY <1>1, <2>1 DEF Starting
  <2>3. Transfer(Head(sdque)) /\ ints # {}
    BY <1>1, <2>1 DEF DriverInv, InStep
  <2>4. Transfer(Head(sdque))'
    BY <1>1, <2>3 DEF Transfer, Idle
  <2> QED
    BY <1>1, <2>1, <2>2, <2>3, <2>4 DEF InStep
<1> QED
  BY <1>2, <1>3, <1>4 DEF DriverInv

\* The interrupt is INT_READ_RDY for a read, whose FIFO is taken, and
\* INT_DATA_DONE for a write, which is finished.
LEMMA IntrHandleStep == ASSUME DriverInv, IntrHandle PROVE DriverInv'
<1> DEFINE b == Head(sdque)
<1>1. ipc = "handle" /\ UNCHANGED <<sdque, blockno, valid, dirty, disk, pc>>
  BY DEF IntrHandle
<1>2. /\ sdque # <<>> /\ ~ Starting /\ b \in Procs /\ ints # {} /\ Transfer(b)
  BY <1>1, HandlerBusy, HeadOf DEF DriverInv, InStep
<1>3. ~ Starting'
  BY <1>1, <1>2 DEF Starting
<1>4. Queued' /\ OnePerBlock'
  BY <1>1 DEF DriverInv, Queued, OnePerBlock
<1>5. pc[b] \in {"start", "sleep", "asleep"}
  BY <1>2, HeadOf
<1>6. CASE ~ dirty[b]
  <2>1. /\ ints' = {} /\ hw' = [kind |-> "drained"] /\ ipc' = "drain" /\ sdlock' = sdlock
        /\ data' = [data EXCEPT ![b] = IF hw.kind = "ready" THEN hw.fifo ELSE @]
    BY <1>2, <1>6 DEF IntrHandle, TakeFifo
  <2>2. hw.kind = "ready" /\ hw.fifo = disk[blockno[b]]
    BY <1>2, <1>6 DEF Transfer
  <2>3. disk[blockno[b]] \in Vals /\ data \in [Procs -> Vals]
    BY <1>2 DEF DriverInv, Typed
  <2>4. /\ data' \in [Procs -> Vals] /\ data'[b] = disk[blockno[b]]
        /\ \A q \in Procs \ {b} : data'[q] = data[q]
    BY <1>2, <2>1, <2>2, <2>3
  <2>5. Typed' /\ Locks'
    BY <1>1, <2>1, <2>4 DEF DriverInv, Typed, Locks
  <2>6. Synced'
    BY <1>1, <1>5, <2>4 DEF DriverInv, Synced
  <2>7. InStep'
    BY <1>1, <1>2, <1>3, <1>6, <2>1, <2>4 DEF InStep, Drained
  <2> QED
    BY <1>4, <2>5, <2>6, <2>7 DEF DriverInv
<1>7. CASE dirty[b]
  <2>1. ints = {"DATA_DONE"} /\ hw = Idle /\ data[b] = disk[blockno[b]]
    BY <1>2, <1>7 DEF Transfer
  <2>2. ints' = {} /\ ipc' = "finish" /\ UNCHANGED <<sdlock, data, hw>>
    BY <1>2, <1>7, <2>1 DEF IntrHandle, WriteDone
  <2>3. Typed' /\ Locks' /\ Synced'
    BY <1>1, <2>2 DEF DriverInv, Typed, Locks, Synced
  <2>4. InStep'
    BY <1>1, <1>2, <1>3, <2>1, <2>2 DEF InStep, Quiet, Idle
  <2> QED
    BY <1>4, <2>3, <2>4 DEF DriverInv
<1> QED
  BY <1>6, <1>7

LEMMA IntrDrainedStep == ASSUME DriverInv, IntrDrained PROVE DriverInv'
<1>1. /\ ipc = "drain" /\ "DATA_DONE" \in ints /\ ints' = ints \ {"DATA_DONE"} /\ ipc' = "finish"
      /\ UNCHANGED <<sdlock, sdque, blockno, valid, dirty, data, disk, hw, pc>>
  BY DEF IntrDrained, bufVars
<1>2. Typed' /\ Locks' /\ Queued' /\ OnePerBlock' /\ Synced'
  BY <1>1 DEF DriverInv, Typed, Locks, Queued, OnePerBlock, Synced
<1>3. sdque # <<>> /\ ~ Starting
  BY <1>1, HandlerBusy
<1>4. Drained /\ data[Head(sdque)] = disk[blockno[Head(sdque)]]
  BY <1>1, <1>3 DEF DriverInv, InStep
<1>5. ints' = {} /\ hw' = Idle
  BY <1>1, <1>4 DEF Drained
<1>6. ~ Starting'
  BY <1>1, <1>3 DEF Starting
<1>7. InStep'
  BY <1>1, <1>3, <1>4, <1>5, <1>6 DEF InStep, Quiet, Idle
<1> QED
  BY <1>2, <1>7 DEF DriverInv

\* The caller that is woken is the one whose request was served.
LEMMA IntrFinishStep == ASSUME DriverInv, IntrFinish PROVE DriverInv'
<1> DEFINE b == Head(sdque)
<1>1. /\ ipc = "finish"
      /\ valid' = [valid EXCEPT ![b] = TRUE] /\ dirty' = [dirty EXCEPT ![b] = FALSE]
      /\ pc' = [pc EXCEPT ![b] = IF @ = "asleep" THEN "woken" ELSE @]
      /\ sdque' = Tail(sdque)
      /\ ipc' = IF Tail(sdque) = <<>> THEN "out" ELSE "next"
      /\ sdlock' = IF Tail(sdque) = <<>> THEN Nobody ELSE sdlock
      /\ UNCHANGED <<blockno, data, disk, hw, ints>>
  BY DEF IntrFinish
<1>2. sdlock = Intr
  BY <1>1 DEF DriverInv, Locks
<1>3. /\ sdque # <<>> /\ ~ Starting /\ b \in Procs /\ b = sdque[1] /\ pc[b] = "asleep"
      /\ \A q \in Procs : pc[q] \notin {"start", "sleep"}
  BY <1>1, <1>2, HandlerBusy, HeadOf, NoneStarts
<1>4. Quiet /\ data[b] = disk[blockno[b]]
  BY <1>1, <1>3 DEF DriverInv, InStep
<1>5. /\ pc' \in [Procs -> Points] /\ pc'[b] = "woken" /\ \A q \in Procs \ {b} : pc'[q] = pc[q]
  BY <1>1, <1>3 DEF DriverInv, Typed, Points
<1>6. /\ sdque \in Seq(Procs) /\ Len(sdque) \in Nat /\ Len(sdque) >= 1
      /\ sdque' \in Seq(Procs) /\ Len(sdque') = Len(sdque) - 1
      /\ \A i \in 1..(Len(sdque) - 1) : sdque'[i] = sdque[i + 1]
  BY <1>1, <1>3 DEF DriverInv, Typed
<1>7. /\ valid'[b] /\ ~ dirty'[b] /\ valid' \in [Procs -> BOOLEAN] /\ dirty' \in [Procs -> BOOLEAN]
      /\ \A q \in Procs \ {b} : valid'[q] = valid[q] /\ dirty'[q] = dirty[q]
  BY <1>1, <1>3 DEF DriverInv, Typed
<1>8. Typed'
  BY <1>1, <1>2, <1>5, <1>6, <1>7 DEF DriverInv, Typed
<1>9. Locks'
  BY <1>1, <1>2, <1>3, <1>5, AgentAssumption DEF Locks
<1>10. Queued'
  <2>1. \A i, j \in 1..Len(sdque') : sdque'[i] = sdque'[j] => i = j
    <3> SUFFICES ASSUME NEW i \in 1..Len(sdque'), NEW j \in 1..Len(sdque'), sdque'[i] = sdque'[j]
                 PROVE  i = j
      OBVIOUS
    <3>1. i + 1 \in 1..Len(sdque) /\ j + 1 \in 1..Len(sdque) /\ sdque[i + 1] = sdque[j + 1]
      BY <1>6
    <3>2. i + 1 = j + 1
      BY <3>1 DEF DriverInv, Queued
    <3> QED
      BY <3>2
  <2>2. ASSUME NEW q \in Procs
        PROVE  pc'[q] \in {"start", "sleep", "asleep"} <=> \E i \in 1..Len(sdque') : sdque'[i] = q
    <3>1. CASE q = b
      <4>1. ASSUME NEW i \in 1..Len(sdque'), sdque'[i] = b PROVE FALSE
        <5>1. i + 1 \in 1..Len(sdque) /\ 1 \in 1..Len(sdque) /\ sdque[i + 1] = sdque[1]
          BY <1>3, <1>6, <4>1
        <5>2. i + 1 = 1
          BY <5>1 DEF DriverInv, Queued
        <5> QED
          BY <1>6, <5>2
      <4> QED
        BY <1>5, <3>1, <4>1
    <3>2. CASE q # b
      <4>1. ASSUME NEW i \in 1..Len(sdque), sdque[i] = q PROVE \E j \in 1..Len(sdque') : sdque'[j] = q
        <5>1. i # 1
          BY <1>3, <3>2, <4>1
        <5>2. i - 1 \in 1..Len(sdque') /\ sdque'[i - 1] = sdque[i]
          BY <1>6, <5>1
        <5> QED
          BY <4>1, <5>2
      <4>2. ASSUME NEW i \in 1..Len(sdque'), sdque'[i] = q PROVE \E j \in 1..Len(sdque) : sdque[j] = q
        <5>1. i + 1 \in 1..Len(sdque) /\ sdque[i + 1] = q
          BY <1>6, <4>2
        <5> QED
          BY <5>1
      <4> QED
        BY <1>5, <3>2, <4>1, <4>2 DEF DriverInv, Queued
    <3> QED
      BY <3>1, <3>2
  <2>3. \A q \in Procs : pc'[q] # "start"
    BY <1>3, <1>5
  <2> QED
    BY <2>1, <2>2, <2>3 DEF Queued
<1>11. OnePerBlock'
  BY <1>1, <1>3, <1>5 DEF DriverInv, OnePerBlock
<1>12. Synced'
  BY <1>1, <1>4, <1>5, <1>7 DEF DriverInv, Synced
<1>13. InStep'
  <2>1. Quiet'
    BY <1>1, <1>4 DEF Quiet, Idle
  <2>2. ~ Starting'
    BY <1>3, <1>5 DEF Starting
  <2> QED
    BY <1>1, <2>1, <2>2 DEF InStep
<1> QED
  BY <1>8, <1>9, <1>10, <1>11, <1>12, <1>13 DEF DriverInv

LEMMA IntrNextStep == ASSUME DriverInv, IntrNext PROVE DriverInv'
<1> DEFINE b == Head(sdque)
<1>1. ipc = "next" /\ sdque # <<>> /\ ~ Starting /\ b \in Procs
  BY HandlerBusy, HeadOf DEF IntrNext
<1>2. Quiet
  BY <1>1 DEF DriverInv, InStep
<1>3. /\ hw' = Started(b) /\ ipc' = "out" /\ sdlock' = Nobody /\ ints' = {}
      /\ UNCHANGED <<sdque, blockno, valid, dirty, data, disk, pc>>
  BY <1>2 DEF IntrNext, Quiet, bufVars
<1>4. Typed' /\ Queued' /\ OnePerBlock' /\ Synced'
  BY <1>3 DEF DriverInv, Typed, Queued, OnePerBlock, Synced
<1>5. Locks'
  <2>1. sdlock = Intr
    BY <1>1 DEF DriverInv, Locks
  <2> QED
    BY <1>3, <2>1, AgentAssumption DEF DriverInv, Locks
<1>6. InStep'
  <2>1. ~ Starting'
    BY <1>1, <1>3 DEF Starting
  <2>2. Transfer(Head(sdque))'
    BY <1>1, <1>3 DEF Transfer, Started, DriverInv, Typed
  <2> QED
    BY <1>1, <1>3, <2>1, <2>2 DEF InStep
<1> QED
  BY <1>4, <1>5, <1>6 DEF DriverInv

LEMMA NextDriverInv == ASSUME DriverInv, Next PROVE DriverInv'
<1>1. ASSUME NEW p \in Procs, SdrwStep(p) PROVE DriverInv'
  BY <1>1, SdrwEnterStep, SdrwStartStep, SdrwSleepStep, SdrwReturnStep DEF SdrwStep
<1>2. ASSUME NEW p \in Procs, Finish(p) PROVE DriverInv'
  BY <1>2, FinishStep
<1>3. ASSUME NEW p \in Procs, NEW n \in Blocks, ReadRequest(p, n) PROVE DriverInv'
  BY <1>3, ReadRequestStep
<1>4. ASSUME NEW p \in Procs, NEW n \in Blocks, NEW v \in Vals, WriteRequest(p, n, v) PROVE DriverInv'
  BY <1>4, WriteRequestStep
<1>5. CASE IntrStep
  BY <1>5, IntrTakenStep, IntrEnterStep, IntrHandleStep, IntrDrainedStep, IntrFinishStep, IntrNextStep
     DEF IntrStep
<1>6. CASE HwStep
  BY <1>6, HwReadReadyStep, HwReadDoneStep, HwWriteDoneStep DEF HwStep
<1> QED
  BY <1>1, <1>2, <1>3, <1>4, <1>5, <1>6 DEF Next
-----------------------------------------------------------------------------
(* sdInit(): the invariant.                                                *)

\* The points of sdInit(): while the card is idle, while ACMD41 is repeated,
\* and those at which the card is in standby or in transfer state.
OldPoints  == {"old", "reset_old", "idle_old"}
IdlePoints == {"clock", "reset", "idle", "if_cond"} \cup OldPoints
Asking     == {"app41", "acmd41"}
Standby    == {"csd", "speed", "select"}
Selected   == {"scr_app", "scr", "scr_data", "bus_app", "bus", "blocklen", "up"}

CardType ==
    [kind : {"hc", "sc2", "v1"}, bus4 : BOOLEAN, busy : Nat,
     state : {"idle", "ready", "ident", "stby", "tran"}, app : BOOLEAN, rca : {0, 1}, bus : {1, 4}]

CardTyped ==
    /\ card \in CardType
    /\ sd \in [init : BOOLEAN, type : {"unknown", "SD_TYPE_1", "SD_TYPE_2_HC", "SD_TYPE_2_SC"},
               rca : {0, 1}, ocr : {"none", "busy", "complete", "ccs"}, bus : {1, 4}]
    /\ hcs \in BOOLEAN /\ count \in Nat /\ fault \in BOOLEAN
    /\ boot \in IdlePoints \cup Asking \cup {"cid", "rca"} \cup Standby \cup Selected \cup {"failed"}

\* What the card and the driver agree on at each point, whatever went wrong.
Agreed ==
    /\ sd.init <=> boot = "up"
    /\ boot \in IdlePoints => card.state = "idle"
    /\ boot \in IdlePoints \cup Asking => sd.ocr \in {"none", "busy"}
    /\ boot \in Asking => card.state \in {"idle", "ready"} /\ (card.state = "ready" /\ card.kind = "hc" => hcs)
    /\ boot = "cid" => card.state = "ready"
    /\ boot = "rca" => card.state = "ident"
    /\ boot \in Standby => card.state = "stby"
    /\ boot \in Selected => card.state = "tran"
    /\ boot \in Standby \cup Selected => card.rca = sd.rca
    /\ boot \in {"scr", "bus"} => card.app
    /\ boot \notin {"blocklen", "up", "failed"} => card.bus = 1 /\ sd.bus = 1
    /\ boot \in {"blocklen", "up"} => card.bus = sd.bus
    /\ boot \in {"cid", "rca"} \cup Standby \cup Selected => (sd.type = "SD_TYPE_2_HC" <=> card.kind = "hc")

\* Where a card is to which nothing went wrong: an old one did not answer
\* SEND_IF_COND, and the repetitions of ACMD41 are enough.
Smooth ==
    ~ fault =>
    /\ boot # "failed"
    /\ boot \in IdlePoints => card.busy <= Retries
    /\ boot \in OldPoints => card.kind = "v1"
    /\ boot \in Asking => card.state = "idle" /\ card.busy <= count /\ (card.kind = "hc" => hcs)
    /\ boot = "acmd41" => card.app

\* Smooth is about the cards that sdAppSendOpCond() waits long enough for.
Patient == \A c \in Cards : c.busy <= Retries

CardInv == CardTyped /\ Agreed /\ (Patient => Smooth)
-----------------------------------------------------------------------------
(* sdInit(): its steps.                                                    *)

LEMMA InitCardInv == CardInit => CardInv
<1> SUFFICES ASSUME CardInit PROVE CardInv
  OBVIOUS
<1>1. PICK c \in Cards : card = PowerOn(c)
  BY DEF CardInit
<1>2. c.kind \in {"hc", "sc2", "v1"} /\ c.bus4 \in BOOLEAN /\ c.busy \in Nat
  BY CardsAssumption
<1>3. /\ card.kind = c.kind /\ card.busy = c.busy /\ card.state = "idle" /\ card.bus = 1
      /\ card \in CardType
  BY <1>1, <1>2 DEF PowerOn, CardType
<1>4. boot = "clock" /\ sd = Cleared /\ hcs = FALSE /\ count = 0 /\ fault = FALSE
  BY DEF CardInit
<1>5. CardTyped
  BY <1>3, <1>4 DEF CardTyped, Cleared, IdlePoints
<1>6. Agreed
  BY <1>3, <1>4 DEF Agreed, Cleared, IdlePoints, OldPoints, Asking, Standby, Selected
<1>7. Patient => Smooth
  BY <1>3, <1>4 DEF Patient, Smooth, IdlePoints, OldPoints, Asking
<1> QED
  BY <1>5, <1>6, <1>7 DEF CardInv

Commands == {"SEND_IF_COND", "SEND_OP_COND", "ALL_SEND_CID", "SEND_REL_ADDR", "SEND_CSD", "CARD_SELECT",
             "APP_CMD_RCA", "SEND_SCR", "SET_BUS_WIDTH", "SET_BLOCKLEN"}

\* A card stays one whatever it hears.
LEMMA HeardTyped ==
    ASSUME CardTyped, NEW cmd \in Commands \cup NoResponse
    PROVE  Heard(cmd) \in CardType
<1> DEFINE c == [card EXCEPT !.app = FALSE]
<1>1. c \in CardType
  BY DEF CardTyped, CardType
<1>2. Accept(cmd) \in CardType
  <2> HIDE DEF c
  <2>1. CASE cmd = "SEND_OP_COND"
    <3>1. Accept(cmd) = IF PoweredUp THEN [c EXCEPT !.state = "ready"]
                        ELSE [c EXCEPT !.busy = IF @ > 0 THEN @ - 1 ELSE 0]
      BY <2>1 DEF Accept, c
    <3> QED
      BY <1>1, <3>1 DEF CardType
  <2>2. CASE cmd # "SEND_OP_COND"
    <3>1. Accept(cmd) \in {c, [c EXCEPT !.state = "idle", !.rca = 0, !.bus = 1], [c EXCEPT !.app = TRUE],
                           [c EXCEPT !.state = "ident"], [c EXCEPT !.state = "stby", !.rca = 1],
                           [c EXCEPT !.state = "tran"], [c EXCEPT !.bus = 4]}
      BY <2>2 DEF Accept, Commands, NoResponse, c
    <3> QED
      BY <1>1, <3>1, ZenonT(60) DEF CardType
  <2> QED
    BY <2>1, <2>2
<1> QED
  BY <1>1, <1>2 DEF Heard

\* An exchange that succeeds was with a card that took the command; one that
\* fails although the card would take it went wrong.
LEMMA Answered ==
    ASSUME NEW cmd \in Commands, NEW x \in Exchanges(cmd)
    PROVE  /\ x.res \in {"ok", "busy", "timeout", "error"} /\ x.fault \in BOOLEAN
           /\ x.card \in {card, Heard(cmd)}
           /\ x.res = "ok" => Legal(cmd) /\ x.card = Accept(cmd) /\ ~ x.fault
           /\ Legal(cmd) /\ x.res # "ok" => x.fault
           /\ ~ x.fault => x.card = Heard(cmd) /\ x.res \in {"ok", "timeout"}
<1>1. cmd \notin NoResponse
  BY DEF Commands, NoResponse
<1>2. Legal(cmd) => Heard(cmd) = Accept(cmd)
  BY DEF Heard
<1> DEFINE h == Heard(cmd)
           l == Legal(cmd)
<1>3. x \in [res : {"busy"}, card : {card}, fault : {TRUE}]
              \cup [res : {"timeout", "error"}, card : {card, h}, fault : {TRUE}]
              \cup [res : {IF l THEN "ok" ELSE "timeout"}, card : {h}, fault : {FALSE}]
  BY <1>1 DEF Exchanges
<1> HIDE DEF h, l
<1>4. /\ x.res \in {"ok", "busy", "timeout", "error"} /\ x.fault \in BOOLEAN /\ x.card \in {card, h}
      /\ x.res = "ok" => l /\ x.card = h /\ ~ x.fault
      /\ l /\ x.res # "ok" => x.fault
      /\ ~ x.fault => x.card = h /\ x.res \in {"ok", "timeout"}
  BY <1>3
<1> QED
  BY <1>2, <1>4 DEF h, l

\* The same for a command without a response.
LEMMA Unanswered ==
    ASSUME NEW cmd \in NoResponse, NEW x \in Exchanges(cmd)
    PROVE  /\ x.fault \in BOOLEAN /\ x.card \in {card, Heard(cmd)}
           /\ ~ x.fault => x.card = Heard(cmd) /\ x.res = "ok"
<1> DEFINE h == Heard(cmd)
<1>1. x \in [res : {"busy"}, card : {card}, fault : {TRUE}]
              \cup [res : {"timeout", "error"}, card : {card, h}, fault : {TRUE}]
              \cup [res : {"ok"}, card : {card}, fault : {TRUE}]
              \cup [res : {"ok"}, card : {h}, fault : {FALSE}]
  BY DEF Exchanges
<1> HIDE DEF h
<1>2. x.fault \in BOOLEAN /\ x.card \in {card, h} /\ (~ x.fault => x.card = h /\ x.res = "ok")
  BY <1>1
<1> QED
  BY <1>2 DEF h

\* sdInit() gives up, and a fault is the reason.
LEMMA FailStep ==
    ASSUME CardInv, boot # "up", Fail, card' \in CardType, fault' \in BOOLEAN, Patient => fault'
    PROVE  CardInv'
<1>1. boot' = "failed" /\ UNCHANGED <<sd, hcs, count>>
  BY DEF Fail, GotoBoot
<1>2. CardTyped'
  BY <1>1 DEF CardInv, CardTyped
<1>3. Agreed'
  BY <1>1 DEF CardInv, Agreed, IdlePoints, OldPoints, Asking, Standby, Selected
<1>4. Patient' => Smooth'
  BY <1>1 DEF Smooth, Patient
<1> QED
  BY <1>2, <1>3, <1>4 DEF CardInv

\* A command that must succeed, at a point where the card takes it.
LEMMA MustStep ==
    ASSUME CardInv, NEW cmd \in Commands, NEW l, boot # "up", Legal(cmd), Must(cmd, l)
    PROVE  \/ boot' = l /\ card' = Accept(cmd) /\ card' \in CardType /\ UNCHANGED <<sd, hcs, count, fault>>
           \/ CardInv'
<1>1. PICK x \in Exchanges(cmd) :
         /\ sdSendCommand(x)
         /\ IF x.res = "ok" THEN GotoBoot(l) /\ UNCHANGED <<sd, hcs, count>> ELSE Fail
  BY DEF Must, Send
<1>2. /\ x.fault \in BOOLEAN /\ x.card \in {card, Heard(cmd)}
      /\ x.res = "ok" => x.card = Accept(cmd) /\ ~ x.fault
      /\ x.res # "ok" => x.fault
  BY Answered
<1>3. card' = x.card /\ fault' = (fault \/ x.fault) /\ fault \in BOOLEAN /\ card \in CardType
  BY <1>1 DEF sdSendCommand, CardInv, CardTyped
<1>4. card' \in CardType
  BY <1>2, <1>3, HeardTyped DEF CardInv
<1>5. CASE x.res = "ok"
  <2>1. fault' = fault
    BY <1>2, <1>3, <1>5
  <2> QED
    BY <1>1, <1>2, <1>3, <1>4, <1>5, <2>1 DEF GotoBoot
<1>6. CASE x.res # "ok"
  <2>1. fault' /\ fault' \in BOOLEAN
    BY <1>2, <1>3, <1>6
  <2> QED
    BY <1>1, <1>4, <1>6, <2>1, FailStep
<1> QED
  BY <1>5, <1>6

LEMMA AllSendCidStep == ASSUME CardInv, AllSendCid PROVE CardInv'
<1>1. boot = "cid" /\ Must("ALL_SEND_CID", "rca")
  BY DEF AllSendCid
<1>2. Legal("ALL_SEND_CID")
  BY <1>1 DEF CardInv, Agreed, Legal
<1>3. SUFFICES ASSUME boot' = "rca", card' = Accept("ALL_SEND_CID"), card' \in CardType,
                      UNCHANGED <<sd, hcs, count, fault>>
               PROVE  CardInv'
  BY <1>1, <1>2, MustStep DEF Commands
<1>4. card' = [[card EXCEPT !.app = FALSE] EXCEPT !.state = "ident"]
  BY <1>3 DEF Accept
<1>5. CardTyped'
  BY <1>3 DEF CardInv, CardTyped
<1>6. Agreed'
  BY <1>1, <1>3, <1>4 DEF CardInv, CardTyped, CardType, Agreed, IdlePoints, OldPoints, Asking, Standby, Selected
<1>7. Smooth'
  BY <1>3 DEF Smooth, IdlePoints, OldPoints, Asking
<1> QED
  BY <1>5, <1>6, <1>7 DEF CardInv

LEMMA SendCsdStep == ASSUME CardInv, SendCsd PROVE CardInv'
<1>1. boot = "csd" /\ Must("SEND_CSD", "speed")
  BY DEF SendCsd
<1>2. Legal("SEND_CSD")
  BY <1>1 DEF CardInv, Agreed, Legal, Standby, Selected
<1>3. SUFFICES ASSUME boot' = "speed", card' = Accept("SEND_CSD"), card' \in CardType,
                      UNCHANGED <<sd, hcs, count, fault>>
               PROVE  CardInv'
  BY <1>1, <1>2, MustStep DEF Commands
<1>4. card' = [card EXCEPT !.app = FALSE]
  BY <1>3 DEF Accept
<1>5. CardTyped'
  BY <1>3 DEF CardInv, CardTyped, Standby, Selected
<1>6. Agreed'
  BY <1>1, <1>3, <1>4 DEF CardInv, CardTyped, CardType, Agreed, IdlePoints, OldPoints, Asking, Standby, Selected
<1>7. Smooth'
  BY <1>3 DEF Smooth, IdlePoints, OldPoints, Asking
<1> QED
  BY <1>5, <1>6, <1>7 DEF CardInv

LEMMA CardSelectStep == ASSUME CardInv, CardSelect PROVE CardInv'
<1>1. boot = "select" /\ Must("CARD_SELECT", "scr_app")
  BY DEF CardSelect
<1>2. Legal("CARD_SELECT")
  BY <1>1 DEF CardInv, Agreed, Legal, Standby, Selected
<1>3. SUFFICES ASSUME boot' = "scr_app", card' = Accept("CARD_SELECT"), card' \in CardType,
                      UNCHANGED <<sd, hcs, count, fault>>
               PROVE  CardInv'
  BY <1>1, <1>2, MustStep DEF Commands
<1>4. card' = [[card EXCEPT !.app = FALSE] EXCEPT !.state = "tran"]
  BY <1>3 DEF Accept
<1>5. CardTyped'
  BY <1>3 DEF CardInv, CardTyped, Standby, Selected
<1>6. Agreed'
  BY <1>1, <1>3, <1>4 DEF CardInv, CardTyped, CardType, Agreed, IdlePoints, OldPoints, Asking, Standby, Selected
<1>7. Smooth'
  BY <1>3 DEF Smooth, IdlePoints, OldPoints, Asking
<1> QED
  BY <1>5, <1>6, <1>7 DEF CardInv

LEMMA ReadScrStep == ASSUME CardInv, ReadScr PROVE CardInv'
<1>1. boot = "scr" /\ Must("SEND_SCR", "scr_data")
  BY DEF ReadScr
<1>2. Legal("SEND_SCR")
  BY <1>1 DEF CardInv, Agreed, Legal, Standby, Selected
<1>3. SUFFICES ASSUME boot' = "scr_data", card' = Accept("SEND_SCR"), card' \in CardType,
                      UNCHANGED <<sd, hcs, count, fault>>
               PROVE  CardInv'
  BY <1>1, <1>2, MustStep DEF Commands
<1>4. card' = [card EXCEPT !.app = FALSE]
  BY <1>3 DEF Accept
<1>5. CardTyped'
  BY <1>3 DEF CardInv, CardTyped, Standby, Selected
<1>6. Agreed'
  BY <1>1, <1>3, <1>4 DEF CardInv, CardTyped, CardType, Agreed, IdlePoints, OldPoints, Asking, Standby, Selected
<1>7. Smooth'
  BY <1>3 DEF Smooth, IdlePoints, OldPoints, Asking
<1> QED
  BY <1>5, <1>6, <1>7 DEF CardInv

LEMMA AppCmdRcaStep == ASSUME CardInv, AppCmdRca PROVE CardInv'
<1> DEFINE l == IF boot = "scr_app" THEN "scr" ELSE "bus"
<1>1. boot \in {"scr_app", "bus_app"} /\ Must("APP_CMD_RCA", l)
  BY DEF AppCmdRca
<1>2. Legal("APP_CMD_RCA")
  BY <1>1 DEF CardInv, Agreed, Legal, Standby, Selected
<1>3. SUFFICES ASSUME boot' = l, card' = Accept("APP_CMD_RCA"), card' \in CardType,
                      UNCHANGED <<sd, hcs, count, fault>>
               PROVE  CardInv'
  <2> HIDE DEF l
  <2> QED
    BY <1>1, <1>2, MustStep DEF Commands
<1>4. card' = [[card EXCEPT !.app = FALSE] EXCEPT !.app = TRUE]
  BY <1>3 DEF Accept
<1>5. CardTyped'
  BY <1>3 DEF CardInv, CardTyped, Selected
<1>6. Agreed'
  BY <1>1, <1>3, <1>4, ZenonT(60) DEF CardInv, CardTyped, CardType, Agreed, IdlePoints, OldPoints, Asking, Standby, Selected
<1>7. Smooth'
  BY <1>3 DEF Smooth, IdlePoints, OldPoints, Asking
<1> QED
  BY <1>5, <1>6, <1>7 DEF CardInv

LEMMA BaseClockStep == ASSUME CardInv, BaseClock PROVE CardInv'
<1>1. boot = "clock" /\ card' = card /\ card \in CardType
  BY DEF BaseClock, MayFail, CardInv, CardTyped
<1>2. CASE Fail /\ fault' = TRUE
  BY <1>1, <1>2, FailStep
<1>3. CASE boot' = "reset" /\ UNCHANGED <<sd, hcs, count>> /\ fault' = fault
  <2>1. CardTyped'
    BY <1>1, <1>3 DEF CardInv, CardTyped, Cleared, IdlePoints, OldPoints, Asking, Standby, Selected
  <2>2. Agreed'
    BY <1>1, <1>3 DEF CardInv, Agreed, Cleared, IdlePoints, OldPoints, Asking, Standby, Selected
  <2>3. Patient' => Smooth'
    BY <1>1, <1>3 DEF CardInv, Patient, Smooth, IdlePoints, OldPoints, Asking
  <2> QED
    BY <2>1, <2>2, <2>3 DEF CardInv
<1> QED
  BY <1>2, <1>3 DEF BaseClock, MayFail, GotoBoot

LEMMA ResetHostStep == ASSUME CardInv, ResetHost PROVE CardInv'
<1>1. boot \in {"reset", "reset_old"} /\ card' = card /\ card \in CardType
  BY DEF ResetHost, MayFail, CardInv, CardTyped
<1>2. CASE Fail /\ fault' = TRUE
  BY <1>1, <1>2, FailStep
<1>3. CASE sd' = Cleared /\ boot' = (IF boot = "reset" THEN "idle" ELSE "idle_old") /\ UNCHANGED <<hcs, count>> /\ fault' = fault
  <2>1. CardTyped'
    BY <1>1, <1>3 DEF CardInv, CardTyped, Cleared, IdlePoints, OldPoints, Asking, Standby, Selected
  <2>2. Agreed'
    BY <1>1, <1>3 DEF CardInv, Agreed, Cleared, IdlePoints, OldPoints, Asking, Standby, Selected
  <2>3. Patient' => Smooth'
    BY <1>1, <1>3 DEF CardInv, Patient, Smooth, IdlePoints, OldPoints, Asking
  <2> QED
    BY <2>1, <2>2, <2>3 DEF CardInv
<1> QED
  BY <1>2, <1>3 DEF ResetHost, MayFail, GotoBoot

LEMMA FullSpeedStep == ASSUME CardInv, FullSpeed PROVE CardInv'
<1>1. boot = "speed" /\ card' = card /\ card \in CardType
  BY DEF FullSpeed, MayFail, CardInv, CardTyped
<1>2. CASE Fail /\ fault' = TRUE
  BY <1>1, <1>2, FailStep
<1>3. CASE boot' = "select" /\ UNCHANGED <<sd, hcs, count>> /\ fault' = fault
  <2>1. CardTyped'
    BY <1>1, <1>3 DEF CardInv, CardTyped, Cleared, IdlePoints, OldPoints, Asking, Standby, Selected
  <2>2. Agreed'
    BY <1>1, <1>3 DEF CardInv, Agreed, Cleared, IdlePoints, OldPoints, Asking, Standby, Selected
  <2>3. Patient' => Smooth'
    BY <1>1, <1>3 DEF CardInv, Patient, Smooth, IdlePoints, OldPoints, Asking
  <2> QED
    BY <2>1, <2>2, <2>3 DEF CardInv
<1> QED
  BY <1>2, <1>3 DEF FullSpeed, MayFail, GotoBoot

LEMMA ScrDataStep == ASSUME CardInv, ScrData PROVE CardInv'
<1>1. boot = "scr_data" /\ card' = card /\ card \in CardType
  BY DEF ScrData, MayFail, CardInv, CardTyped
<1>2. CASE Fail /\ fault' = TRUE
  BY <1>1, <1>2, FailStep
<1>3. CASE boot' = (IF card.bus4 THEN "bus_app" ELSE "blocklen") /\ UNCHANGED <<sd, hcs, count>> /\ fault' = fault
  <2>1. CardTyped'
    BY <1>1, <1>3 DEF CardInv, CardTyped, Cleared, IdlePoints, OldPoints, Asking, Standby, Selected
  <2>2. Agreed'
    BY <1>1, <1>3 DEF CardInv, Agreed, Cleared, IdlePoints, OldPoints, Asking, Standby, Selected
  <2>3. Patient' => Smooth'
    BY <1>1, <1>3 DEF CardInv, Patient, Smooth, IdlePoints, OldPoints, Asking
  <2> QED
    BY <2>1, <2>2, <2>3 DEF CardInv
<1> QED
  BY <1>2, <1>3 DEF ScrData, MayFail, GotoBoot

LEMMA OldCardStep == ASSUME CardInv, OldCard PROVE CardInv'
<1>1. /\ boot = "old" /\ UNCHANGED <<card, sd, fault>>
      /\ \/ boot' = "reset_old" /\ UNCHANGED <<hcs, count>>
         \/ boot' = "app41" /\ hcs' = FALSE /\ count' = Retries
  BY DEF OldCard, GotoBoot
<1>2. CardTyped'
  BY <1>1, RetriesAssumption, ZenonT(60) DEF CardInv, CardTyped, IdlePoints, OldPoints, Asking
<1>3. Agreed'
  BY <1>1 DEF CardInv, Agreed, IdlePoints, OldPoints, Asking, Standby, Selected
<1>4. Patient' => Smooth'
  BY <1>1 DEF CardInv, Agreed, Patient, Smooth, IdlePoints, OldPoints, Asking
<1> QED
  BY <1>2, <1>3, <1>4 DEF CardInv

\* The card is idle before and after GO_IDLE_STATE, heard or not.
LEMMA GoIdleStep == ASSUME CardInv, GoIdle PROVE CardInv'
<1>1. PICK x \in Exchanges("GO_IDLE_STATE") :
         /\ sdSendCommand(x)
         /\ IF x.res = "ok"
            THEN \/ boot = "idle" /\ boot' = "if_cond" /\ UNCHANGED <<sd, hcs, count>>
                 \/ boot = "idle_old" /\ boot' = "app41" /\ hcs' = FALSE /\ count' = Retries /\ UNCHANGED sd
            ELSE Fail
  BY DEF GoIdle, Must, Send, GotoBoot
<1>2. boot \in {"idle", "idle_old"} /\ card.state = "idle" /\ card.bus = 1 /\ card \in CardType
      /\ fault \in BOOLEAN
  BY DEF GoIdle, CardInv, CardTyped, Agreed, IdlePoints, OldPoints
<1>3. /\ x.fault \in BOOLEAN /\ x.card \in {card, Heard("GO_IDLE_STATE")}
      /\ ~ x.fault => x.res = "ok"
  BY Unanswered DEF NoResponse
<1>4. card' = x.card /\ fault' = (fault \/ x.fault) /\ fault' \in BOOLEAN
  BY <1>1, <1>2, <1>3 DEF sdSendCommand
<1>5. card' \in CardType
  BY <1>2, <1>3, <1>4, HeardTyped DEF CardInv, NoResponse
<1>6. card'.state = "idle" /\ card'.bus = 1 /\ card'.kind = card.kind /\ card'.busy = card.busy
  <2>1. Heard("GO_IDLE_STATE") = [[card EXCEPT !.app = FALSE] EXCEPT !.state = "idle", !.rca = 0, !.bus = 1]
    BY DEF Heard, Legal, Accept
  <2> QED
    BY <1>2, <1>3, <1>4, <2>1, ZenonT(60) DEF CardType
<1>7. CASE x.res # "ok"
  BY <1>1, <1>2, <1>3, <1>4, <1>5, <1>7, FailStep
<1>8. CASE x.res = "ok"
  <2>1. \/ boot = "idle" /\ boot' = "if_cond" /\ UNCHANGED <<sd, hcs, count>>
        \/ boot = "idle_old" /\ boot' = "app41" /\ hcs' = FALSE /\ count' = Retries /\ UNCHANGED sd
    BY <1>1, <1>8
  <2>2. CardTyped'
    BY <1>4, <1>5, <2>1, RetriesAssumption DEF CardInv, CardTyped, IdlePoints, OldPoints, Asking
  <2>3. Agreed'
    BY <1>6, <2>1 DEF CardInv, Agreed, IdlePoints, OldPoints, Asking, Standby, Selected
  <2>4. Patient' => Smooth'
    BY <1>2, <1>4, <1>6, <2>1 DEF CardInv, Patient, Smooth, IdlePoints, OldPoints, Asking
  <2> QED
    BY <2>2, <2>3, <2>4 DEF CardInv
<1> QED
  BY <1>7, <1>8

\* Without a fault only an old card does not answer SEND_IF_COND.
LEMMA SendIfCondStep == ASSUME CardInv, SendIfCond PROVE CardInv'
<1>1. PICK x \in Exchanges("SEND_IF_COND") :
         /\ sdSendCommand(x)
         /\ CASE x.res = "ok"   -> boot' = "app41" /\ hcs' = TRUE /\ count' = Retries /\ UNCHANGED sd
              [] x.res = "busy" -> Fail
              [] OTHER          -> boot' = "old" /\ UNCHANGED <<sd, hcs, count>>
  BY DEF SendIfCond, Send, GotoBoot
<1>2. boot = "if_cond" /\ card.state = "idle" /\ card.bus = 1 /\ card \in CardType /\ fault \in BOOLEAN
  BY DEF SendIfCond, CardInv, CardTyped, Agreed, IdlePoints
<1>3. /\ x.res \in {"ok", "busy", "timeout", "error"} /\ x.fault \in BOOLEAN
      /\ x.card \in {card, Heard("SEND_IF_COND")}
      /\ Legal("SEND_IF_COND") /\ x.res # "ok" => x.fault
      /\ ~ x.fault => x.res \in {"ok", "timeout"}
  BY Answered DEF Commands
<1>4. card' = x.card /\ fault' = (fault \/ x.fault) /\ fault' \in BOOLEAN
  BY <1>1, <1>2, <1>3 DEF sdSendCommand
<1>5. card' \in CardType
  BY <1>2, <1>3, <1>4, HeardTyped DEF CardInv, Commands
<1>6. card'.state = "idle" /\ card'.bus = 1 /\ card'.kind = card.kind /\ card'.busy = card.busy
  <2>1. Heard("SEND_IF_COND") = [card EXCEPT !.app = FALSE]
    BY DEF Heard, Accept
  <2> QED
    BY <1>2, <1>3, <1>4, <2>1 DEF CardType
<1>7. CASE x.res = "busy"
  <2>1. Fail
    BY <1>1, <1>7
  <2> QED
    BY <1>2, <1>3, <1>4, <1>5, <1>7, <2>1, FailStep
<1>8. CASE x.res = "ok"
  <2>1. boot' = "app41" /\ hcs' = TRUE /\ count' = Retries /\ UNCHANGED sd
    BY <1>1, <1>8
  <2>2. CardTyped'
    BY <1>4, <1>5, <2>1, RetriesAssumption DEF CardInv, CardTyped, Asking
  <2>3. Agreed'
    BY <1>2, <1>6, <2>1 DEF CardInv, Agreed, IdlePoints, OldPoints, Asking, Standby, Selected
  <2>4. Patient' => Smooth'
    BY <1>2, <1>4, <1>6, <2>1 DEF CardInv, Patient, Smooth, IdlePoints, OldPoints, Asking
  <2> QED
    BY <2>2, <2>3, <2>4 DEF CardInv
<1>9. CASE x.res \in {"timeout", "error"}
  <2>1. boot' = "old" /\ UNCHANGED <<sd, hcs, count>>
    BY <1>1, <1>9
  <2>2. CardTyped'
    BY <1>4, <1>5, <2>1 DEF CardInv, CardTyped, IdlePoints, OldPoints
  <2>3. Agreed'
    BY <1>2, <1>6, <2>1 DEF CardInv, Agreed, IdlePoints, OldPoints, Asking, Standby, Selected
  <2>4. ~ x.fault => card.kind = "v1"
    BY <1>2, <1>3, <1>9 DEF Legal
  <2>5. Patient' => Smooth'
    BY <1>2, <1>4, <1>6, <2>1, <2>4 DEF CardInv, Patient, Smooth, IdlePoints, OldPoints, Asking
  <2> QED
    BY <2>2, <2>3, <2>5 DEF CardInv
<1> QED
  BY <1>3, <1>7, <1>8, <1>9

\* The result of APP_CMD does not matter; an idle card that heard it expects ACMD41.
LEMMA AppCmd41Step == ASSUME CardInv, AppCmd41 PROVE CardInv'
<1>1. PICK x \in Exchanges("APP_CMD") :
         sdSendCommand(x) /\ boot' = "acmd41" /\ UNCHANGED <<sd, hcs, count>>
  BY DEF AppCmd41, Send, GotoBoot
<1>2. boot = "app41" /\ card \in CardType /\ fault \in BOOLEAN
  BY DEF AppCmd41, CardInv, CardTyped
<1>3. /\ x.fault \in BOOLEAN /\ x.card \in {card, Heard("APP_CMD")}
      /\ ~ x.fault => x.card = Heard("APP_CMD")
  BY Unanswered DEF NoResponse
<1>4. card' = x.card /\ fault' = (fault \/ x.fault) /\ fault' \in BOOLEAN
  BY <1>1, <1>2, <1>3 DEF sdSendCommand
<1>5. card' \in CardType
  BY <1>2, <1>3, <1>4, HeardTyped DEF CardInv, NoResponse
<1>6. Heard("APP_CMD") = [[card EXCEPT !.app = FALSE] EXCEPT !.app = (card.state = "idle")]
  BY <1>2 DEF Heard, Accept, Legal, CardType
<1>7. /\ card'.state = card.state /\ card'.bus = card.bus /\ card'.kind = card.kind /\ card'.busy = card.busy
      /\ ~ x.fault /\ card.state = "idle" => card'.app
  BY <1>2, <1>3, <1>4, <1>6, ZenonT(60) DEF CardType
<1>8. CardTyped'
  BY <1>1, <1>4, <1>5 DEF CardInv, CardTyped, Asking
<1>9. Agreed'
  BY <1>1, <1>2, <1>7 DEF CardInv, Agreed, IdlePoints, OldPoints, Asking, Standby, Selected
<1>10. Patient' => Smooth'
  BY <1>1, <1>2, <1>4, <1>7 DEF CardInv, Patient, Smooth, IdlePoints, OldPoints, Asking
<1> QED
  BY <1>8, <1>9, <1>10 DEF CardInv

\* ACMD41: when the card says it is powered up, its kind is known; until then
\* it counts with the driver.
LEMMA AppSendOpCondStep == ASSUME CardInv, AppSendOpCond PROVE CardInv'
<1> DEFINE c == [card EXCEPT !.app = FALSE]
           cmd == "SEND_OP_COND"
<1>1. PICK x \in Exchanges(cmd) :
         /\ sdSendCommand(x)
         /\ CASE x.res = "ok"      -> OpCond(OcrOf(x.card))
              [] x.res = "timeout" -> OpCond(sd.ocr)
              [] OTHER             -> Fail
  BY DEF AppSendOpCond
<1>2. /\ boot = "acmd41" /\ card \in CardType /\ fault \in BOOLEAN /\ hcs \in BOOLEAN /\ count \in Nat
      /\ card.state \in {"idle", "ready"} /\ (card.state = "ready" /\ card.kind = "hc" => hcs)
      /\ card.bus = 1 /\ sd.bus = 1 /\ sd.ocr \in {"none", "busy"} /\ sd.init = FALSE
  BY DEF AppSendOpCond, CardInv, CardTyped, Agreed, Asking
<1>3. /\ x.res \in {"ok", "busy", "timeout", "error"} /\ x.fault \in BOOLEAN
      /\ x.card \in {card, Heard(cmd)}
      /\ x.res = "ok" => Legal(cmd) /\ x.card = Accept(cmd) /\ ~ x.fault
      /\ Legal(cmd) /\ x.res # "ok" => x.fault
      /\ ~ x.fault => x.res \in {"ok", "timeout"}
  BY Answered DEF Commands
<1>4. card' = x.card /\ fault' = (fault \/ x.fault) /\ fault' \in BOOLEAN
  BY <1>1, <1>2, <1>3 DEF sdSendCommand
<1>5. card' \in CardType
  BY <1>2, <1>3, <1>4, HeardTyped DEF CardInv, Commands
<1>6. Legal(cmd) <=> card.state = "idle" /\ card.app
  BY DEF Legal
<1>7. Accept(cmd) = IF PoweredUp THEN [c EXCEPT !.state = "ready"]
                    ELSE [c EXCEPT !.busy = IF @ > 0 THEN @ - 1 ELSE 0]
  BY DEF Accept
<1>8. /\ card'.kind = card.kind /\ card'.bus = 1 /\ card'.state \in {"idle", "ready"}
      /\ card'.state = "ready" /\ card.kind = "hc" => hcs
  <2>1. \/ card' \in {card, c, [c EXCEPT !.busy = IF @ > 0 THEN @ - 1 ELSE 0]}
        \/ (card' = [c EXCEPT !.state = "ready"] /\ PoweredUp)
    <3>1. Heard(cmd) \in {Accept(cmd), c}
      BY DEF Heard
    <3> HIDE DEF c
    <3>2. card' \in {card, Accept(cmd), c}
      BY <1>3, <1>4, <3>1
    <3> QED
      BY <1>7, <3>2
  <2> QED
    BY <1>2, <2>1 DEF PoweredUp, CardType
<1>9. ~ fault /\ Patient => /\ card.state = "idle" /\ card.app /\ card.busy <= count
                            /\ (card.kind = "hc" => hcs)
  BY <1>2 DEF CardInv, Smooth, Asking
<1>10. CASE x.res = "ok" /\ PoweredUp
  <2>1. card'.state = "ready"
    BY <1>2, <1>3, <1>4, <1>7, <1>10 DEF CardType
  <2>2. card.kind = "hc" => hcs
    BY <1>10 DEF PoweredUp
  <2> DEFINE ocr == IF card.kind = "hc" THEN "ccs" ELSE "complete"
  <2>3. /\ sd' = [sd EXCEPT !.ocr = ocr, !.type = TypeOf(ocr)]
        /\ boot' = "cid" /\ count' = 0 /\ hcs' = hcs
    <3>1. OcrOf(x.card) = ocr
      BY <1>4, <1>8, <2>1 DEF OcrOf
    <3>2. OpCond(ocr)
      BY <1>1, <1>10, <3>1
    <3> QED
      BY <3>2 DEF OpCond, Complete, GotoBoot
  <2>4. TypeOf(ocr) \in {"SD_TYPE_1", "SD_TYPE_2_HC", "SD_TYPE_2_SC"}
        /\ (TypeOf(ocr) = "SD_TYPE_2_HC" <=> card.kind = "hc")
    BY <1>2, <2>2 DEF TypeOf
  <2>5. CardTyped'
    BY <1>2, <1>4, <1>5, <2>3, <2>4 DEF CardInv, CardTyped
  <2>6. Agreed'
    BY <1>2, <1>8, <2>1, <2>3, <2>4 DEF CardInv, CardTyped, Agreed, IdlePoints, OldPoints, Asking, Standby, Selected
  <2>7. Smooth'
    BY <2>3 DEF Smooth, IdlePoints, OldPoints, Asking
  <2> QED
    BY <2>5, <2>6, <2>7 DEF CardInv
<1>11. ASSUME NEW ocr \in {"none", "busy"}, OpCond(ocr),
              Patient /\ ~ fault' => card'.state = "idle" /\ count > 0 /\ card'.busy <= count - 1 /\ (card.kind = "hc" => hcs)
       PROVE  CardInv'
  <2>1. ~ Complete(ocr)
    BY DEF Complete
  <2>2. CASE count > 0
    <3>1. sd' = [sd EXCEPT !.ocr = ocr] /\ boot' = "app41" /\ count' = count - 1 /\ hcs' = hcs
      BY <1>11, <2>1, <2>2 DEF OpCond, GotoBoot
    <3>2. count' \in Nat
      BY <1>2, <2>2, <3>1
    <3>3. CardTyped'
      BY <1>2, <1>4, <1>5, <3>1, <3>2 DEF CardInv, CardTyped, Asking
    <3>4. Agreed'
      BY <1>2, <1>8, <3>1 DEF CardInv, CardTyped, Agreed, IdlePoints, OldPoints, Asking, Standby, Selected
    <3>5. Patient' => Smooth'
      BY <1>8, <1>11, <3>1 DEF Patient, Smooth, IdlePoints, OldPoints, Asking
    <3> QED
      BY <3>3, <3>4, <3>5 DEF CardInv
  <2>3. CASE ~ (count > 0)
    <3>1. Fail
      BY <1>11, <2>1, <2>3 DEF OpCond
    <3> QED
      BY <1>2, <1>4, <1>5, <1>11, <2>3, <3>1, FailStep
  <2> QED
    BY <2>2, <2>3
<1>12. CASE x.res = "ok" /\ ~ PoweredUp
  <2>1. /\ card' = [c EXCEPT !.busy = IF @ > 0 THEN @ - 1 ELSE 0] /\ card.state = "idle"
    BY <1>3, <1>4, <1>6, <1>7, <1>12
  <2>2. card'.state = "idle" /\ card'.busy = IF card.busy > 0 THEN card.busy - 1 ELSE 0
    BY <1>2, <2>1 DEF CardType
  <2>3. OpCond("busy")
    <3>1. OcrOf(x.card) = "busy"
      BY <1>4, <2>2 DEF OcrOf
    <3> QED
      BY <1>1, <1>12, <3>1
  <2>4. Patient /\ ~ fault' => card'.state = "idle" /\ count > 0 /\ card'.busy <= count - 1 /\ (card.kind = "hc" => hcs)
    <3> SUFFICES ASSUME Patient, ~ fault'
                 PROVE  card'.state = "idle" /\ count > 0 /\ card'.busy <= count - 1 /\ (card.kind = "hc" => hcs)
      OBVIOUS
    <3>1. card.busy <= count /\ (card.kind = "hc" => hcs)
      BY <1>2, <1>3, <1>4, <1>9
    <3>2. card.busy # 0 /\ card.busy \in Nat
      BY <1>2, <1>12, <3>1 DEF PoweredUp, CardType
    <3> QED
      BY <1>2, <2>2, <3>1, <3>2
  <2> QED
    BY <1>11, <2>3, <2>4
<1>13. CASE x.res = "timeout"
  <2>1. OpCond(sd.ocr)
    BY <1>1, <1>13
  <2>2. Patient => fault'
    BY <1>3, <1>4, <1>6, <1>9, <1>13
  <2> QED
    BY <1>2, <1>11, <2>1, <2>2
<1>14. CASE x.res \in {"busy", "error"}
  <2>1. Fail
    BY <1>1, <1>14
  <2>2. fault'
    BY <1>3, <1>4, <1>14
  <2> QED
    BY <1>2, <1>4, <1>5, <2>1, <2>2, FailStep
<1> QED
  BY <1>3, <1>10, <1>12, <1>13, <1>14

\* The exchange at the end of a step whose command the card takes.
LEMMA SentStep ==
    ASSUME CardInv, NEW cmd \in Commands, Legal(cmd), NEW x \in Exchanges(cmd), card' = x.card
    PROVE  /\ card' \in CardType /\ x.fault \in BOOLEAN
           /\ x.res = "ok" => card' = Accept(cmd) /\ ~ x.fault
           /\ x.res # "ok" => x.fault
  BY Answered, HeardTyped DEF CardInv, CardTyped

LEMMA SendRelAddrStep == ASSUME CardInv, SendRelAddr PROVE CardInv'
<1>1. PICK x \in Exchanges("SEND_REL_ADDR") :
         /\ sdSendCommand(x)
         /\ IF x.res = "ok" THEN sd' = [sd EXCEPT !.rca = 1] /\ boot' = "csd" /\ UNCHANGED <<hcs, count>> ELSE Fail
  BY DEF SendRelAddr, Send, GotoBoot
<1>2. boot = "rca" /\ Legal("SEND_REL_ADDR") /\ fault \in BOOLEAN
  BY DEF SendRelAddr, CardInv, CardTyped, Agreed, Legal
<1>3. card' = x.card /\ fault' = (fault \/ x.fault)
  BY <1>1 DEF sdSendCommand
<1>4. /\ card' \in CardType /\ x.fault \in BOOLEAN
      /\ x.res = "ok" => card' = Accept("SEND_REL_ADDR") /\ ~ x.fault
      /\ x.res # "ok" => x.fault
  BY <1>2, <1>3, SentStep DEF Commands
<1>5. CASE x.res # "ok"
  BY <1>1, <1>2, <1>3, <1>4, <1>5, FailStep
<1>6. CASE x.res = "ok"
  <2>1. card' = [[card EXCEPT !.app = FALSE] EXCEPT !.state = "stby", !.rca = 1]
    BY <1>4, <1>6 DEF Accept
  <2>2. sd' = [sd EXCEPT !.rca = 1] /\ boot' = "csd" /\ UNCHANGED <<hcs, count>>
    BY <1>1, <1>6
  <2>3. CardTyped'
    BY <1>2, <1>3, <1>4, <2>2 DEF CardInv, CardTyped, Standby
  <2>4. Agreed'
    BY <1>2, <2>1, <2>2 DEF CardInv, CardTyped, CardType, Agreed, IdlePoints, OldPoints, Asking, Standby, Selected
  <2>5. Smooth'
    BY <2>2 DEF Smooth, IdlePoints, OldPoints, Asking
  <2> QED
    BY <2>3, <2>4, <2>5 DEF CardInv
<1> QED
  BY <1>5, <1>6

LEMMA SetBusWidthStep == ASSUME CardInv, SetBusWidth PROVE CardInv'
<1>1. PICK x \in Exchanges("SET_BUS_WIDTH") :
         /\ sdSendCommand(x)
         /\ IF x.res = "ok" THEN sd' = [sd EXCEPT !.bus = 4] /\ boot' = "blocklen" /\ UNCHANGED <<hcs, count>> ELSE Fail
  BY DEF SetBusWidth, Send, GotoBoot
<1>2. boot = "bus" /\ Legal("SET_BUS_WIDTH") /\ fault \in BOOLEAN
  BY DEF SetBusWidth, CardInv, CardTyped, Agreed, Legal, Selected
<1>3. card' = x.card /\ fault' = (fault \/ x.fault)
  BY <1>1 DEF sdSendCommand
<1>4. /\ card' \in CardType /\ x.fault \in BOOLEAN
      /\ x.res = "ok" => card' = Accept("SET_BUS_WIDTH") /\ ~ x.fault
      /\ x.res # "ok" => x.fault
  BY <1>2, <1>3, SentStep DEF Commands
<1>5. CASE x.res # "ok"
  BY <1>1, <1>2, <1>3, <1>4, <1>5, FailStep
<1>6. CASE x.res = "ok"
  <2>1. card' = [[card EXCEPT !.app = FALSE] EXCEPT !.bus = 4]
    BY <1>4, <1>6 DEF Accept
  <2>2. sd' = [sd EXCEPT !.bus = 4] /\ boot' = "blocklen" /\ UNCHANGED <<hcs, count>>
    BY <1>1, <1>6
  <2>3. CardTyped'
    BY <1>2, <1>3, <1>4, <2>2 DEF CardInv, CardTyped, Selected
  <2>4. Agreed'
    BY <1>2, <2>1, <2>2 DEF CardInv, CardTyped, CardType, Agreed, IdlePoints, OldPoints, Asking, Standby, Selected
  <2>5. Smooth'
    BY <2>2 DEF Smooth, IdlePoints, OldPoints, Asking
  <2> QED
    BY <2>3, <2>4, <2>5 DEF CardInv
<1> QED
  BY <1>5, <1>6

LEMMA SetBlockLenStep == ASSUME CardInv, SetBlockLen PROVE CardInv'
<1>1. PICK x \in Exchanges("SET_BLOCKLEN") :
         /\ card' = x.card
         /\ IF x.res = "ok" THEN /\ sd' = [sd EXCEPT !.init = TRUE]
                                 /\ boot' = "up" /\ fault' = FALSE /\ hcs' = FALSE /\ UNCHANGED count
            ELSE Fail /\ fault' = (fault \/ x.fault)
  BY DEF SetBlockLen, GotoBoot
<1>2. boot = "blocklen" /\ Legal("SET_BLOCKLEN") /\ fault \in BOOLEAN
  BY DEF SetBlockLen, CardInv, CardTyped, Agreed, Legal, Selected
<1>3. /\ card' \in CardType /\ x.fault \in BOOLEAN
      /\ x.res = "ok" => card' = Accept("SET_BLOCKLEN") /\ ~ x.fault
      /\ x.res # "ok" => x.fault
  BY <1>1, <1>2, SentStep DEF Commands
<1>4. CASE x.res # "ok"
  BY <1>1, <1>2, <1>3, <1>4, FailStep
<1>5. CASE x.res = "ok"
  <2>1. card' = [card EXCEPT !.app = FALSE]
    BY <1>3, <1>5 DEF Accept
  <2>2. sd' = [sd EXCEPT !.init = TRUE] /\ boot' = "up" /\ fault' = FALSE /\ hcs' = FALSE /\ UNCHANGED count
    BY <1>1, <1>5
  <2>3. CardTyped'
    BY <1>3, <2>2 DEF CardInv, CardTyped, Selected
  <2>4. Agreed'
    BY <1>2, <2>1, <2>2 DEF CardInv, CardTyped, CardType, Agreed, IdlePoints, OldPoints, Asking, Standby, Selected
  <2>5. Smooth'
    BY <2>2 DEF Smooth, IdlePoints, OldPoints, Asking
  <2> QED
    BY <2>3, <2>4, <2>5 DEF CardInv
<1> QED
  BY <1>4, <1>5

LEMMA BootCardInv == ASSUME CardInv, BootStep PROVE CardInv'
<1>1. CASE BaseClock \/ ResetHost \/ GoIdle \/ SendIfCond \/ OldCard \/ AppCmd41 \/ AppSendOpCond
  BY <1>1, BaseClockStep, ResetHostStep, GoIdleStep, SendIfCondStep, OldCardStep, AppCmd41Step, AppSendOpCondStep
<1>2. CASE AllSendCid \/ SendRelAddr \/ SendCsd \/ FullSpeed \/ CardSelect
  BY <1>2, AllSendCidStep, SendRelAddrStep, SendCsdStep, FullSpeedStep, CardSelectStep
<1>3. CASE AppCmdRca \/ ReadScr \/ ScrData \/ SetBusWidth \/ SetBlockLen
  BY <1>3, AppCmdRcaStep, ReadScrStep, ScrDataStep, SetBusWidthStep, SetBlockLenStep
<1> QED
  BY <1>1, <1>2, <1>3 DEF BootStep
-----------------------------------------------------------------------------
(* sd_init() and the driver after it.                                      *)

SdInv == DriverInv /\ CardInv

LEMMA DriverKept == ASSUME DriverInv, UNCHANGED vars PROVE DriverInv'
<1>1. Typed' /\ Locks' /\ Queued' /\ OnePerBlock' /\ Synced'
  BY DEF DriverInv, Typed, Locks, Queued, OnePerBlock, Synced, vars
<1>2. InStep'
  BY InStepKept DEF vars
<1> QED
  BY <1>1, <1>2 DEF DriverInv

LEMMA CardKept == ASSUME CardInv, UNCHANGED cardVars PROVE CardInv'
  BY DEF CardInv, CardTyped, Agreed, Smooth, Patient, cardVars

LEMMA NextSdInv == SdInv /\ [SdNext]_sdVars => SdInv'
<1> SUFFICES ASSUME SdInv, [SdNext]_sdVars PROVE SdInv'
  OBVIOUS
<1>1. CASE BootStep
  <2>1. UNCHANGED vars
    BY <1>1 DEF BootStep, BaseClock, ResetHost, GoIdle, SendIfCond, OldCard, AppCmd41, AppSendOpCond,
                AllSendCid, SendRelAddr, SendCsd, FullSpeed, CardSelect, AppCmdRca, ReadScr, ScrData,
                SetBusWidth, SetBlockLen, KeepDriver
  <2> QED
    BY <1>1, <2>1, BootCardInv, DriverKept DEF SdInv
<1>2. CASE DriverStep
  BY <1>2, NextDriverInv, CardKept DEF SdInv, DriverStep
<1>3. CASE UNCHANGED sdVars
  BY <1>3, DriverKept, CardKept DEF SdInv, sdVars
<1> QED
  BY <1>1, <1>2, <1>3 DEF SdNext

\* The inductive invariant holds in every reachable state.
THEOREM SpecSdInv == SdSpec => []SdInv
<1>1. SdInit => SdInv
  BY InitDriverInv, InitCardInv DEF SdInit, SdInv
<1> QED
  BY <1>1, NextSdInv, PTL DEF SdSpec

\* The queue of sdrw() and sd_intr() and the controller stay in step, for any
\* number of processes and requests.
THEOREM SpecControllerInStep == SdSpec => []ControllerInStep
<1>1. ASSUME SdInv PROVE ControllerInStep
  <2>1. ASSUME sdlock = Nobody
        PROVE  /\ sdque = <<>> => Quiet
               /\ sdque # <<>> => LET b == Head(sdque) IN
                    \/ hw.kind \in {"read", "write", "ready"} /\ hw.block = blockno[b]
                         /\ (hw.kind = "write" <=> dirty[b])
                    \/ hw = Idle /\ ints = {"DATA_DONE"} /\ dirty[b]
    <3>1. ~ Starting /\ ipc \in {"out", "spin"}
      BY <1>1, <2>1, NoneStarts, AgentAssumption DEF SdInv, DriverInv, Locks, Typed
    <3>2. sdque # <<>> => Transfer(Head(sdque))
      BY <1>1, <3>1 DEF SdInv, DriverInv, InStep
    <3>3. sdque = <<>> => Quiet
      BY <1>1 DEF SdInv, DriverInv, InStep
    <3> QED
      BY <3>2, <3>3 DEF Transfer
  <2>2. \A p \in Procs : pc[p] = "start" => Quiet
    BY <1>1 DEF SdInv, DriverInv, InStep, Starting
  <2>3. ASSUME ipc = "next" PROVE Quiet
    BY <1>1, <2>3, HandlerBusy DEF SdInv, DriverInv, InStep
  <2>4. ASSUME ipc = "handle"
        PROVE  sdque # <<>> /\ ints = IF dirty[Head(sdque)] THEN {"DATA_DONE"} ELSE {"READ_RDY"}
    <3>1. sdque # <<>> /\ ~ Starting
      BY <1>1, <2>4, HandlerBusy DEF SdInv
    <3>2. Transfer(Head(sdque)) /\ ints # {}
      BY <1>1, <2>4, <3>1 DEF SdInv, DriverInv, InStep
    <3> QED
      BY <3>1, <3>2 DEF Transfer
  <2> QED
    BY <2>1, <2>2, <2>3, <2>4 DEF ControllerInStep
<1> QED
  BY <1>1, SpecSdInv, PTL

\* When sdrw() returns, its buffer and its block agree and the flags say so.
THEOREM SpecSdrwSynced == SdSpec => []SdrwSynced
<1>1. SdInv => SdrwSynced
  BY DEF SdInv, DriverInv, Synced, SdrwSynced
<1> QED
  BY <1>1, SpecSdInv, PTL

\* When sdInit() has set sdCard.init, the card and the driver agree on its
\* state, address, bus width and kind, whatever went wrong on the way.
THEOREM SpecCardReady == SdSpec => []CardReady
<1>1. SdInv => CardReady
  BY DEF SdInv, CardInv, Agreed, CardReady, Standby, Selected
<1> QED
  BY <1>1, SpecSdInv, PTL

\* sdInit() fails only if an exchange went wrong, for cards that are busy no
\* longer than sdAppSendOpCond() repeats.
THEOREM SpecFailsOnlyOnFault ==
    ASSUME \A c \in Cards : c.busy <= Retries
    PROVE  SdSpec => []FailsOnlyOnFault
<1>1. SdInv => FailsOnlyOnFault
  BY DEF SdInv, CardInv, Patient, Smooth, FailsOnlyOnFault
<1> QED
  BY <1>1, SpecSdInv, PTL
=============================================================================
