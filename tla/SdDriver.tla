------------------------------ MODULE SdDriver ------------------------------
(***************************************************************************)
(* The request queue of kern/sd.c: sdrw(), sd_start() and sd_intr(), with  *)
(* the EMMC controller and its card as they drive it.                      *)
(*                                                                         *)
(* A process brings one locked buffer, named after it, and sleeps in       *)
(* sdrw() until its request is served.  The interrupt handler is an agent  *)
(* of its own: it runs on core 0, which takes interrupts only in user      *)
(* mode, so never inside another use of sdlock by the same core.  sleep()  *)
(* lets go of sdlock and puts the process to sleep in one step, which is   *)
(* what holding ptablelock around both gives.                              *)
(***************************************************************************)
EXTENDS Integers, Sequences, FiniteSets

CONSTANTS Procs,  \* the processes, and their buffers
          Intr,   \* the interrupt handler
          Nobody, \* the owner of sdlock when it is free
          Blocks, \* block numbers
          Vals    \* contents of a block

ASSUME AgentAssumption == Intr \notin Procs /\ Nobody \notin Procs \cup {Intr}

VARIABLES
    sdlock, sdque,
    blockno, valid, dirty, data, \* the fields of each buffer
    disk,    \* the card
    hw,      \* the transfer in the controller: its kind, block and FIFO
    ints,    \* the bits set in *EMMC_INTERRUPT that reach a core
    pc,      \* where each process is in sdrw()
    ipc      \* where the handler is

bufVars == <<blockno, valid, dirty, data>>
hwVars  == <<disk, hw, ints>>
vars    == <<sdlock, sdque, blockno, valid, dirty, data, disk, hw, ints, pc, ipc>>

Idle == [kind |-> "none"]

\* sd_init() has run: no request, a quiet controller.
Init ==
    /\ sdlock = Nobody /\ sdque = <<>>
    /\ blockno \in [Procs -> Blocks]
    /\ valid = [p \in Procs |-> FALSE]
    /\ dirty = [p \in Procs |-> FALSE]
    /\ data \in [Procs -> Vals]
    /\ disk \in [Blocks -> Vals]
    /\ hw = Idle /\ ints = {}
    /\ pc = [p \in Procs |-> "out"]
    /\ ipc = "out"

Goto(p, l) == pc' = [pc EXCEPT ![p] = l]

\* sd_start(b): the controller must be quiet; a read is commanded, a write is
\* commanded and its data pushed into the FIFO once the controller is ready.
Started(b) ==
    IF dirty[b] THEN [kind |-> "write", block |-> blockno[b], fifo |-> data[b]]
                ELSE [kind |-> "read", block |-> blockno[b]]

Quiet == ints = {} /\ hw = Idle

-----------------------------------------------------------------------------
(* The callers: bread() with an invalid buffer, bwrite() with a dirty one. *)

\* No other buffer is for this block: the buffer cache has one per block.
Unshared(p, n) == \A q \in Procs \ {p} : pc[q] # "out" => blockno[q] # n

ReadRequest(p, n) ==
    /\ pc[p] = "out" /\ Unshared(p, n)
    /\ blockno' = [blockno EXCEPT ![p] = n]
    /\ valid' = [valid EXCEPT ![p] = FALSE]
    /\ dirty' = [dirty EXCEPT ![p] = FALSE]
    /\ Goto(p, "call")
    /\ UNCHANGED <<sdlock, sdque, data, hwVars, ipc>>

WriteRequest(p, n, v) ==
    /\ pc[p] = "out" /\ Unshared(p, n)
    /\ blockno' = [blockno EXCEPT ![p] = n]
    /\ valid' = [valid EXCEPT ![p] = TRUE]
    /\ dirty' = [dirty EXCEPT ![p] = TRUE]
    /\ data' = [data EXCEPT ![p] = v]
    /\ Goto(p, "call")
    /\ UNCHANGED <<sdlock, sdque, hwVars, ipc>>

\* sdrw(): acquire(&sdlock), list_push_back; start it only if it is the first.
SdrwEnter(p) ==
    /\ pc[p] = "call"
    /\ sdlock = Nobody
    /\ sdlock' = p
    /\ sdque' = Append(sdque, p)
    /\ Goto(p, IF sdque = <<>> THEN "start" ELSE "sleep")
    /\ UNCHANGED <<bufVars, hwVars, ipc>>

\* sd_start(b); its assert on *EMMC_INTERRUPT stops the machine.
SdrwStart(p) ==
    /\ pc[p] = "start"
    /\ IF ints = {} THEN hw' = Started(p) /\ Goto(p, "sleep")
                ELSE UNCHANGED hw /\ Goto(p, "panic")
    /\ UNCHANGED <<sdlock, sdque, bufVars, disk, ints, ipc>>

\* sleep(b, &sdlock).
SdrwSleep(p) ==
    /\ pc[p] = "sleep"
    /\ sdlock' = Nobody
    /\ Goto(p, "asleep")
    /\ UNCHANGED <<sdque, bufVars, hwVars, ipc>>

\* sleep() takes sdlock back, sdrw() releases it and returns.
SdrwReturn(p) ==
    /\ pc[p] = "woken"
    /\ sdlock = Nobody
    /\ Goto(p, "done")
    /\ UNCHANGED <<sdlock, sdque, bufVars, hwVars, ipc>>

\* The caller is finished with the buffer.
Finish(p) ==
    /\ pc[p] = "done"
    /\ Goto(p, "out")
    /\ UNCHANGED <<sdlock, sdque, bufVars, hwVars, ipc>>

-----------------------------------------------------------------------------
(* The controller and the card.                                            *)

\* The block has been read from the card into the FIFO: INT_READ_RDY.
HwReadReady ==
    /\ hw.kind = "read"
    /\ hw' = [kind |-> "ready", block |-> hw.block, fifo |-> disk[hw.block]]
    /\ ints' = ints \cup {"READ_RDY"}
    /\ UNCHANGED <<sdlock, sdque, bufVars, disk, pc, ipc>>

\* The FIFO has been drained: INT_DATA_DONE.
HwReadDone ==
    /\ hw.kind = "drained"
    /\ hw' = Idle
    /\ ints' = ints \cup {"DATA_DONE"}
    /\ UNCHANGED <<sdlock, sdque, bufVars, disk, pc, ipc>>

\* The FIFO has been written to the card: INT_DATA_DONE.
HwWriteDone ==
    /\ hw.kind = "write"
    /\ disk' = [disk EXCEPT ![hw.block] = hw.fifo]
    /\ hw' = Idle
    /\ ints' = ints \cup {"DATA_DONE"}
    /\ UNCHANGED <<sdlock, sdque, bufVars, pc, ipc>>

-----------------------------------------------------------------------------
(* sd_intr()                                                               *)

\* Core 0 takes the interrupt and spins for sdlock.
IntrTaken ==
    /\ ipc = "out"
    /\ ints # {}
    /\ ipc' = "spin"
    /\ UNCHANGED <<sdlock, sdque, bufVars, hwVars, pc>>

IntrEnter ==
    /\ ipc = "spin"
    /\ sdlock = Nobody
    /\ sdlock' = Intr
    /\ ipc' = "handle"
    /\ UNCHANGED <<sdque, bufVars, hwVars, pc>>

\* The queue is empty: "redundent interrupt, omitted" and left uncleared.
OmitIntr == sdlock' = Nobody /\ ipc' = "out" /\ UNCHANGED <<data, hw, ints>>

\* A read: drain the FIFO, whatever the interrupt was (the condition
\* "!write && INT_READ_RDY" does not look at it).
TakeFifo(b) ==
    /\ ints' = {}
    /\ data' = [data EXCEPT ![b] = IF hw.kind = "ready" THEN hw.fifo ELSE @]
    /\ hw' = [kind |-> "drained"]
    /\ ipc' = "drain"
    /\ UNCHANGED sdlock

\* Bug: the interrupt of a finished write is not cleared.
Bug_WriteNotCleared == ipc' = "finish" /\ UNCHANGED <<sdlock, data, hw, ints>>

\* asserts(INT_DATA_DONE or INT_READ_RDY).
Unexpected == ipc' = "panic" /\ UNCHANGED <<sdlock, data, hw, ints>>

\* A write that is done; one that is not is started again.
WriteDone  == ints' = {} /\ ipc' = "finish" /\ UNCHANGED <<sdlock, data, hw>>
Restart(b) == ints' = {} /\ hw' = Started(b) /\ ipc' = "out" /\ sdlock' = Nobody /\ UNCHANGED data

IntrHandle ==
    /\ ipc = "handle"
    /\ IF sdque = <<>>                      THEN OmitIntr
       ELSE IF ints = {}                    THEN Unexpected
       ELSE IF ~dirty[Head(sdque)]          THEN TakeFifo(Head(sdque))
       ELSE IF ints = {"DATA_DONE"}         THEN WriteDone
                                            ELSE Restart(Head(sdque))
    /\ UNCHANGED <<sdque, blockno, valid, dirty, disk, pc>>

\* sdWaitForInterrupt(INT_DATA_DONE): wait for it, clear it.
IntrDrained ==
    /\ ipc = "drain"
    /\ "DATA_DONE" \in ints
    /\ ints' = ints \ {"DATA_DONE"}
    /\ ipc' = "finish"
    /\ UNCHANGED <<sdlock, sdque, bufVars, disk, hw, pc>>

\* Bug: the next request of the queue is not started.
Bug_NextNotStarted ==
    /\ ipc = "finish"
    /\ LET b == Head(sdque) IN
         /\ valid' = [valid EXCEPT ![b] = TRUE]
         /\ dirty' = [dirty EXCEPT ![b] = FALSE]
         /\ pc' = [pc EXCEPT ![b] = IF @ = "asleep" THEN "woken" ELSE @]
    /\ sdque' = Tail(sdque)
    /\ ipc' = "out"
    /\ sdlock' = Nobody
    /\ UNCHANGED <<blockno, data, disk, hw, ints>>

\* Bug: the buffer taken off the queue stays dirty.
Bug_StaysDirty ==
    /\ ipc = "finish"
    /\ LET b == Head(sdque) IN
         /\ valid' = [valid EXCEPT ![b] = TRUE]
         /\ pc' = [pc EXCEPT ![b] = IF @ = "asleep" THEN "woken" ELSE @]
    /\ sdque' = Tail(sdque)
    /\ ipc' = IF Tail(sdque) = <<>> THEN "out" ELSE "next"
    /\ sdlock' = IF Tail(sdque) = <<>> THEN Nobody ELSE sdlock
    /\ UNCHANGED <<blockno, dirty, data, disk, hw, ints>>

\* B_VALID, ~B_DIRTY, wakeup(b), list_pop_front.
IntrFinish ==
    /\ ipc = "finish"
    /\ LET b == Head(sdque) IN
         /\ valid' = [valid EXCEPT ![b] = TRUE]
         /\ dirty' = [dirty EXCEPT ![b] = FALSE]
         /\ pc' = [pc EXCEPT ![b] = IF @ = "asleep" THEN "woken" ELSE @]
    /\ sdque' = Tail(sdque)
    /\ ipc' = IF Tail(sdque) = <<>> THEN "out" ELSE "next"
    /\ sdlock' = IF Tail(sdque) = <<>> THEN Nobody ELSE sdlock
    /\ UNCHANGED <<blockno, data, disk, hw, ints>>

\* The queue is not empty: sd_start(head), release(&sdlock).
IntrNext ==
    /\ ipc = "next"
    /\ IF ints = {} THEN hw' = Started(Head(sdque)) /\ ipc' = "out" /\ sdlock' = Nobody
                ELSE ipc' = "panic" /\ UNCHANGED <<hw, sdlock>>
    /\ UNCHANGED <<sdque, bufVars, disk, ints, pc>>

-----------------------------------------------------------------------------
SdrwStep(p) == SdrwEnter(p) \/ SdrwStart(p) \/ SdrwSleep(p) \/ SdrwReturn(p)
IntrStep    == IntrTaken \/ IntrEnter \/ IntrHandle \/ IntrDrained \/ IntrFinish \/ IntrNext
HwStep      == HwReadReady \/ HwReadDone \/ HwWriteDone

Next ==
    \/ \E p \in Procs : \/ SdrwStep(p) \/ Finish(p)
                        \/ \E n \in Blocks : \/ ReadRequest(p, n)
                                             \/ \E v \in Vals : WriteRequest(p, n, v)
    \/ IntrStep
    \/ HwStep

\* The card answers, core 0 comes to user mode and takes its interrupts, and a
\* process in sdrw() goes on when it can.
Fairness == WF_vars(IntrStep) /\ WF_vars(HwStep) /\ \A p \in Procs : WF_vars(SdrwStep(p))

Spec     == Init /\ [][Next]_vars
FairSpec == Spec /\ Fairness

-----------------------------------------------------------------------------
\* The contract of sdrw() ("If B_DIRTY is set, write buf to disk, clear B_DIRTY,
\* set B_VALID. Else ... read buf from disk, set B_VALID"): when it returns, the
\* flags are so and the buffer and its block agree.  sdrw() sleeps once, without
\* a loop, so this is also that it is woken for its own request only.
SdrwSynced ==
    \A p \in Procs : pc[p] = "done" => valid[p] /\ ~dirty[p] /\ data[p] = disk[blockno[p]]

\* The queue and the controller stay in step.  While nobody is inside sdlock,
\* the first request of a non-empty queue, and no other, is in the controller or
\* signalled by it; sd_start() finds a quiet controller, as it asserts; and
\* sd_intr() the interrupt of the request at the head of the queue.
ControllerInStep ==
    /\ sdlock = Nobody =>
          /\ sdque = <<>> => Quiet
          /\ sdque # <<>> => LET b == Head(sdque) IN
               \/ hw.kind \in {"read", "write", "ready"} /\ hw.block = blockno[b]
                    /\ (hw.kind = "write" <=> dirty[b])
               \/ hw = Idle /\ ints = {"DATA_DONE"} /\ dirty[b]
    /\ \A p \in Procs : pc[p] = "start" => Quiet
    /\ ipc = "next" => Quiet
    /\ ipc = "handle" =>
          /\ sdque # <<>>
          /\ ints = IF dirty[Head(sdque)] THEN {"DATA_DONE"} ELSE {"READ_RDY"}

\* Every process that waits for its request is woken with it served, however
\* many requests others add (which of the CPUs spinning for sdlock gets it is
\* left open).
RequestServed == \A p \in Procs : pc[p] = "asleep" ~> pc[p] = "woken" /\ ~dirty[p]
=============================================================================
