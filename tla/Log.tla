--------------------------------- MODULE Log --------------------------------
(***************************************************************************)
(* The file system log, kern/log.c: begin_op(), log_write(), end_op(),     *)
(* commit() and the recovery at boot, with crashes between any two writes  *)
(* to the disk of the recovery and between the parts of a commit.          *)
(*                                                                         *)
(* What is done under log.lock is one step.  The buffer cache is seen as   *)
(* one contents per block (module BCache shows that this is what its users *)
(* see), lost in a crash.                                                  *)
(***************************************************************************)
EXTENDS Integers, Sequences, FiniteSets

CONSTANTS Procs,       \* processes in file system calls
          Blocks,      \* blocks outside the log
          LOGSIZE, MAXOPBLOCKS,
          Heads,       \* headers the log on disk may have at the first boot
          MaxWrites,   \* bound: number of new contents
          MaxCrashes   \* bound: number of crashes

Entries == 1..LOGSIZE

ASSUME LogAssumption ==
    /\ LOGSIZE \in Nat /\ MAXOPBLOCKS \in Nat \ {0}
    /\ MaxWrites \in Nat /\ MaxCrashes \in Nat
    /\ \A h \in Heads : h \in Seq(Blocks) /\ Len(h) <= LOGSIZE

VARIABLES
    outstanding, committing, lh, \* struct log
    pc,       \* where each process is
    boot,     \* where recover_from_log() is, "up" when it has ended
    i,        \* the loop variable of install_trans() in recovery
    cache,    \* contents of the blocks in the buffer cache
    home, logblk, head, \* on disk: the blocks, the log's blocks, its header
    writes, crashes,
    first,    \* history: the header at the first boot
    left      \* history: operations that a failed call has left open

memVars  == <<outstanding, committing, lh, pc, boot, i, cache, left>>
diskVars == <<home, logblk, head>>
vars     == <<outstanding, committing, lh, pc, boot, i, cache, home, logblk,
              head, writes, crashes, first, left>>

\* The j-th block of a log found at boot holds contents of its own.
Logged(j) == MaxWrites + j

Init ==
    /\ outstanding = 0 /\ committing = 0 /\ lh = <<>>
    /\ pc = [p \in Procs |-> "out"]
    /\ boot = "read_head" /\ i = 1
    /\ cache = [n \in Blocks |-> 0]
    /\ home = [n \in Blocks |-> 0]
    /\ logblk = [j \in Entries |-> Logged(j)]
    /\ head \in Heads
    /\ first = head
    /\ writes = 0 /\ crashes = 0 /\ left = 0

Goto(p, l) == pc' = [pc EXCEPT ![p] = l]

-----------------------------------------------------------------------------
(* recover_from_log()                                                      *)

\* read_head().
ReadHead ==
    /\ boot = "read_head"
    /\ lh' = head
    /\ boot' = "install"
    /\ i' = 1
    /\ UNCHANGED <<outstanding, committing, pc, cache, diskVars, writes, crashes, first, left>>

\* One turn of install_trans(): bread, bread, memcpy, bwrite.
InstallOne ==
    /\ boot = "install"
    /\ i <= Len(lh)
    /\ home' = [home EXCEPT ![lh[i]] = logblk[i]]
    /\ cache' = [cache EXCEPT ![lh[i]] = logblk[i]]
    /\ i' = i + 1
    /\ UNCHANGED <<outstanding, committing, lh, pc, boot, logblk, head, writes, crashes, first, left>>

\* Bug: the header is cleared before the blocks are installed.
Bug_ClearFirst ==
    /\ boot = "install"
    /\ IF head # <<>> THEN head' = <<>> /\ UNCHANGED <<lh, boot>>
                      ELSE i > Len(lh) /\ lh' = <<>> /\ boot' = "up" /\ UNCHANGED head
    /\ UNCHANGED <<outstanding, committing, pc, i, cache, home, logblk, writes, crashes, first, left>>

\* log.lh.n = 0; write_head().
ClearHead ==
    /\ boot = "install"
    /\ i > Len(lh)
    /\ lh' = <<>>
    /\ head' = <<>>
    /\ boot' = "up"
    /\ UNCHANGED <<outstanding, committing, pc, i, cache, home, logblk, writes, crashes, first, left>>

\* Power is lost: memory is gone, the disk stays.
Crash ==
    /\ crashes < MaxCrashes
    /\ crashes' = crashes + 1
    /\ outstanding' = 0 /\ committing' = 0 /\ lh' = <<>> /\ left' = 0
    /\ pc' = [p \in Procs |-> "out"]
    /\ boot' = "read_head" /\ i' = 1
    /\ cache' = home
    /\ UNCHANGED <<diskVars, writes, first>>

-----------------------------------------------------------------------------
(* begin_op(), log_write(), end_op()                                       *)

Full == Len(lh) + (outstanding + 1) * MAXOPBLOCKS > LOGSIZE

\* begin_op() goes ahead.
BeginOp(p) ==
    /\ boot = "up" /\ pc[p] = "out"
    /\ committing = 0 /\ ~Full
    /\ outstanding' = outstanding + 1
    /\ Goto(p, "op")
    /\ UNCHANGED <<committing, lh, boot, i, cache, diskVars, writes, crashes, first, left>>

\* begin_op() sleeps on &log, during a commit or with the log reserved.
BeginSleep(p) ==
    /\ boot = "up" /\ pc[p] = "out"
    /\ committing = 1 \/ Full
    /\ Goto(p, "asleep")
    /\ UNCHANGED <<outstanding, committing, lh, boot, i, cache, diskVars, writes, crashes, first, left>>

\* The block's number is appended only if it is already in the header
\* (if (p != -1)).
Recorded(n) == IF \E j \in 1..Len(lh) : lh[j] = n THEN Append(lh, n) ELSE lh

\* The operation changes block n in its buffer and calls log_write().
LogWrite(p, n) ==
    /\ pc[p] = "op"
    /\ writes < MaxWrites
    /\ writes' = writes + 1
    /\ cache' = [cache EXCEPT ![n] = writes + 1]
    /\ lh' = Recorded(n)
    /\ UNCHANGED <<outstanding, committing, pc, boot, i, diskVars, crashes, first, left>>

\* Bug: end_op() commits although other operations are in progress.
Bug_CommitAnyway(p) ==
    /\ pc[p] = "op"
    /\ outstanding' = outstanding - 1
    /\ committing' = 1
    /\ Goto(p, "write_log")
    /\ UNCHANGED <<lh, boot, i, cache, diskVars, writes, crashes, first, left>>

\* end_op(): the last operation commits.
EndOp(p) ==
    /\ pc[p] = "op"
    /\ outstanding' = outstanding - 1
    /\ IF outstanding = 1 THEN committing' = 1 /\ Goto(p, "write_log")
                          ELSE UNCHANGED committing /\ Goto(p, "out")
    /\ UNCHANGED <<lh, boot, i, cache, diskVars, writes, crashes, first, left>>

\* filewrite() and execve() return an error with the operation open: no end_op()
\* will come for it, and the process makes its next call.
LeaveOpen(p) ==
    /\ pc[p] = "op"
    /\ left' = left + 1
    /\ Goto(p, "out")
    /\ UNCHANGED <<outstanding, committing, lh, boot, i, cache, diskVars, writes, crashes, first>>

-----------------------------------------------------------------------------
(* commit()                                                                *)

\* write_log(): cache to log.  The loops of write_log() and install_trans()
\* are one step each: with what log_write() records, lh is empty here and they
\* make no turn.
CommitLog(p) ==
    /\ pc[p] = "write_log"
    /\ logblk' = [j \in Entries |-> IF j <= Len(lh) THEN cache[lh[j]] ELSE logblk[j]]
    /\ Goto(p, "write_head")
    /\ UNCHANGED <<outstanding, committing, lh, boot, i, cache, home, head, writes, crashes, first, left>>

\* write_head().
CommitHead(p) ==
    /\ pc[p] = "write_head"
    /\ head' = lh
    /\ Goto(p, "install")
    /\ UNCHANGED <<outstanding, committing, lh, boot, i, cache, home, logblk, writes, crashes, first, left>>

\* The last entry of the header for block n.
LastEntry(n) == CHOOSE j \in 1..Len(lh) : lh[j] = n /\ \A k \in 1..Len(lh) : lh[k] = n => k <= j

\* install_trans(), with no bunpin() for the same reason.
CommitInstall(p) ==
    /\ pc[p] = "install"
    /\ home' = [n \in Blocks |-> IF \E j \in 1..Len(lh) : lh[j] = n
                                   THEN logblk[LastEntry(n)] ELSE home[n]]
    /\ Goto(p, "clear")
    /\ UNCHANGED <<outstanding, committing, lh, boot, i, cache, logblk, head, writes, crashes, first, left>>

\* log.lh.n = 0; write_head().
CommitClear(p) ==
    /\ pc[p] = "clear"
    /\ lh' = <<>>
    /\ head' = <<>>
    /\ Goto(p, "committed")
    /\ UNCHANGED <<outstanding, committing, boot, i, cache, home, logblk, writes, crashes, first, left>>

\* end_op() after commit(): committing = 0.  Nobody is woken.
CommitEnd(p) ==
    /\ pc[p] = "committed"
    /\ committing' = 0
    /\ Goto(p, "out")
    /\ UNCHANGED <<outstanding, lh, boot, i, cache, diskVars, writes, crashes, first, left>>

CommitStep(p) == \/ CommitLog(p) \/ CommitHead(p) \/ CommitInstall(p)
                 \/ CommitClear(p) \/ CommitEnd(p)
Recovery      == ReadHead \/ InstallOne \/ ClearHead

Next ==
    \/ Recovery \/ Crash
    \/ \E p \in Procs : \/ BeginOp(p) \/ BeginSleep(p) \/ EndOp(p) \/ LeaveOpen(p) \/ CommitStep(p)
                        \/ \E n \in Blocks : LogWrite(p, n)

Spec == Init /\ [][Next]_vars

-----------------------------------------------------------------------------
Committing == {"write_log", "write_head", "install", "clear", "committed"}

\* struct log, the header and the blocks keep their types: outstanding, which
\* end_op() decrements without a test, never goes below zero.
TypeOK ==
    /\ outstanding \in Nat /\ committing \in {0, 1}
    /\ lh \in Seq(Blocks) /\ head \in Seq(Blocks) /\ first \in Seq(Blocks)
    /\ pc \in [Procs -> {"out", "asleep", "op"} \cup Committing]
    /\ boot \in {"read_head", "install", "up"} /\ i \in 1..(LOGSIZE + 1)
    /\ cache \in [Blocks -> Nat] /\ home \in [Blocks -> Nat]
    /\ logblk \in [Entries -> Nat]
    /\ writes \in Nat /\ crashes \in Nat /\ left \in Nat

\* "The logging system only commits when there are no FS system calls active":
\* outstanding counts the operations in progress and those that failed calls have
\* left open, they leave room for MAXOPBLOCKS each, and a commit, of which there is
\* one, excludes them all: no commit comes after an operation was left open.
CommitsAlone ==
    /\ TypeOK
    /\ LET ops  == {p \in Procs : pc[p] = "op"}
           coms == {p \in Procs : pc[p] \in Committing} IN
       /\ outstanding = Cardinality(ops) + left
       /\ Len(lh) + outstanding * MAXOPBLOCKS <= LOGSIZE \/ boot # "up"
       /\ committing = Cardinality(coms)
       /\ coms # {} => ops = {} /\ left = 0

\* What the log found at the first boot says about block n.
InLog(n)    == \E j \in 1..Len(first) : first[j] = n
FromLog(n)  == Logged(CHOOSE j \in 1..Len(first) :
                          first[j] = n /\ \A k \in 1..Len(first) : first[k] = n => k <= j)

\* Recovery installs every block of the log it finds, the last entry of a block
\* winning, even when it is itself cut short by crashes; the log stays on disk
\* until they are all in place.
RecoveryComplete ==
    \A n \in Blocks : InLog(n) =>
        \/ home[n] = FromLog(n)
        \/ boot # "up" /\ head = first /\ \A j \in 1..Len(first) : logblk[j] = Logged(j)

\* "commit()/write_log() will do the disk write" (comment of log_write()): when
\* no operation is active and no commit in progress, the disk has what the
\* operations wrote.
CommittedOnDisk ==
    (boot = "up" /\ outstanding = 0 /\ committing = 0) => home = cache

=============================================================================
