----------------------------- MODULE SleepLock ------------------------------
(***************************************************************************)
(* acquiresleep(), releasesleep() and holdingsleep() of kern/sleeplock.c,  *)
(* on top of the scheduler of module Proc: every step of a CPU is a step   *)
(* of Proc, a step of a sleeplock operation, or both.                      *)
(*                                                                         *)
(* There is one sleeplock; its address, SlChan, is the channel its waiters *)
(* sleep on.  A process that is inside the operations, or has the lock, is *)
(* in the kernel, with interrupts masked: it takes no timer interrupt.     *)
(* Except that filewrite() and execve() may return without releasing the   *)
(* lock of an inode: then nobody ever does.                                *)
(***************************************************************************)
EXTENDS Proc

CONSTANT SlChan \* the address of the sleeplock

ASSUME SlAssumption == SlChan \in KChans

VARIABLES
    lk,     \* the CPU that holds the spinlock lk->lk, or NoCpu
    locked, \* lk->locked
    lpid,   \* lk->pid
    kept,   \* the process that returned to user mode with the lock: its slot, its pid
    spc     \* where each process is in the use of the lock: "out", does not use
            \* it; "test", at while (lk->locked) with lk->lk held; "dosleep",
            \* about to call sleep(); "asleep", in sleep(); "held", has it;
            \* "wake", in releasesleep(), about to call wakeup(); "woken",
            \* wakeup() called

slVars == <<lk, locked, lpid, kept, spc>>
vars   == <<procVars, slVars>>

SlInit ==
    /\ ProcInit
    /\ lk = NoCpu
    /\ locked = 0
    /\ lpid = 0
    /\ kept = <<NULL, 0>>
    /\ spc = [p \in Slots |-> "out"]

\* The process of CPU c runs, outside ptablelock, at point l.
At(c, l) == InUser(c) /\ spc[cproc[c]] = l
Go(c, l) == spc' = [spc EXCEPT ![cproc[c]] = l]

\* acquire(&lk->lk), at the start of acquiresleep() or when sleep() ends.
AcquireLk(c) ==
    /\ At(c, "out") \/ At(c, "asleep")
    /\ cproc[c] \notin Loopers
    /\ lk = NoCpu
    /\ lk' = c
    /\ Go(c, "test")
    /\ UNCHANGED <<procVars, locked, lpid, kept>>

\* Bug: lk->lk is released before sleep() has taken ptablelock.
Bug_UnlockBeforeSleep(c) ==
    /\ At(c, "test")
    /\ locked = 1
    /\ lk' = NoCpu
    /\ Go(c, "dosleep")
    /\ UNCHANGED <<procVars, locked, lpid, kept>>

\* while (lk->locked): it is, call sleep(lk, &lk->lk).
TestLocked(c) ==
    /\ At(c, "test")
    /\ locked = 1
    /\ Go(c, "dosleep")
    /\ UNCHANGED <<procVars, lk, locked, lpid, kept>>

\* sleep() takes ptablelock, then releases lk->lk.
SleepOnLock(c) ==
    /\ At(c, "dosleep")
    /\ SleepEnter(c, SlChan)
    /\ lk' = NoCpu
    /\ Go(c, "asleep")
    /\ UNCHANGED <<locked, lpid, kept>>

\* Bug: acquiresleep() tests lk->locked with if instead of while.
Bug_NoRetest(c) ==
    /\ At(c, "test") \/ At(c, "asleep")
    /\ At(c, "test") => locked = 0
    /\ lk \in {NoCpu, c}
    /\ locked' = 1
    /\ lpid' = pid[cproc[c]]
    /\ lk' = NoCpu
    /\ Go(c, "held")
    /\ UNCHANGED <<procVars, kept>>

\* The lock is free: lk->locked = 1, lk->pid, release(&lk->lk).
TakeLock(c) ==
    /\ At(c, "test")
    /\ locked = 0
    /\ locked' = 1
    /\ lpid' = pid[cproc[c]]
    /\ lk' = NoCpu
    /\ Go(c, "held")
    /\ UNCHANGED <<procVars, kept>>

\* releasesleep(): acquire(&lk->lk), lk->locked = 0, lk->pid = 0.
ClearLocked(c) ==
    /\ At(c, "held")
    /\ lk = NoCpu
    /\ lk' = c
    /\ locked' = 0
    /\ lpid' = 0
    /\ Go(c, "wake")
    /\ UNCHANGED <<procVars, kept>>

\* releasesleep() calls wakeup(lk) with lk->lk held.
CallWakeup(c) ==
    /\ At(c, "wake")
    /\ WakeupEnter(c, SlChan)
    /\ Go(c, "woken")
    /\ UNCHANGED <<lk, locked, lpid, kept>>

\* wakeup() has returned: release(&lk->lk).
ReleaseLk(c) ==
    /\ At(c, "woken")
    /\ lk' = NoCpu
    /\ Go(c, "out")
    /\ UNCHANGED <<procVars, locked, lpid, kept>>

\* A system call returns an error without releasesleep(): writei() of filewrite()
\* failed, or execve() could not read the file.
LeaveWithLock(c) ==
    /\ At(c, "held")
    /\ kept' = <<cproc[c], pid[cproc[c]]>>
    /\ Go(c, "out")
    /\ UNCHANGED <<procVars, lk, locked, lpid>>

LockStep(c) ==
    \/ AcquireLk(c) \/ TestLocked(c) \/ SleepOnLock(c) \/ TakeLock(c)
    \/ ClearLocked(c) \/ CallWakeup(c) \/ ReleaseLk(c) \/ LeaveWithLock(c)

\* A process that does not use the lock, or has left the kernel with it, may do
\* anything Proc allows (that kalloc() may fail and stop its CPU is left to Proc);
\* one that has the lock may sleep on other channels (the disk).
OtherStep(c) ==
    /\ \/ KernelStep(c)
       \/ At(c, "out") /\ (Timer(c) \/ ForkAlloc(c) \/ WaitEnter(c) \/ ExitEnter(c))
       \/ At(c, "held") /\ \E ch \in KChans \ {SlChan} : SleepEnter(c, ch)
       \/ At(c, "out") /\ \E ch \in KChans \ {SlChan} : WakeupEnter(c, ch)
    /\ UNCHANGED slVars

SlNext == \E c \in CPUs : LockStep(c) \/ OtherStep(c)

SlSpec == SlInit /\ [][SlNext]_vars

-----------------------------------------------------------------------------
\* holdingsleep(), as process p computes it.
holdingsleep(p) == locked = 1 /\ lpid = pid[p]

\* The process that has the lock, in the kernel or after it left with it.
Has(p) == spc[p] = "held" \/ kept = <<p, pid[p]>>

\* holdingsleep() is true of exactly the process that has the lock, wherever it
\* went to sleep and whatever CPU it came back on; and of no later process in the
\* slot of one that exited with it.
HolderKnown == \A p \in Slots : state[p] \notin {"UNUSED", "EMBRYO"} => (Has(p) <=> holdingsleep(p))

\* No wakeup is lost between the test of lk->locked and sleep(): when the lock
\* is free and a process sleeps on it, or is inside sleep(), the releasesleep()
\* that freed it has yet to wake that process.
NoLostWakeup ==
    locked = 0 /\ (\/ \E p \in Slots : state[p] = "SLEEPING" /\ chan[p] = SlChan
                   \/ \E c \in CPUs : cpc[c] = "sleep" /\ wch[c] = SlChan)
        => \E c \in CPUs : \/ At(c, "wake")
                           \/ cpc[c] = "wakeup" /\ wch[c] = SlChan

SlHolder == IF \E p \in Slots : spc[p] = "held"
              THEN CHOOSE p \in Slots : spc[p] = "held" ELSE kept[1]

SlAbstract == INSTANCE Mutex WITH Agents <- Slots, Nobody <- NULL, holder <- SlHolder

\* The sleeplock implements the abstract mutex, with processes as agents.
SlImplementsMutex == SlAbstract!Spec
=============================================================================
