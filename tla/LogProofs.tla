------------------------------ MODULE LogProofs -----------------------------
(***************************************************************************)
(* Proofs about the log: CommitsAlone and RecoveryComplete hold for any    *)
(* number of processes and blocks, any size of the log and any header      *)
(* found at the first boot, under LogAssumption alone.                     *)
(*                                                                         *)
(* RecoveryComplete needs to know how far install_trans() has come         *)
(* (Installing): the loop itself shows, turn by turn, that every block     *)
(* with an entry behind it has a last entry and holds its contents.  After *)
(* the recovery the header stays empty (UpEmpty), because log_write()      *)
(* appends only blocks that are already there, so no commit writes over    *)
(* what was recovered.                                                     *)
(***************************************************************************)
EXTENDS Log, FiniteSetTheorems, TLAPS

Ops  == {p \in Procs : pc[p] = "op"}
Coms == {p \in Procs : pc[p] \in Committing}

\* outstanding and committing count, and a commit is alone: there is none once an
\* operation has been left open.
Counts ==
    /\ IsFiniteSet(Ops) /\ outstanding = Cardinality(Ops) + left
    /\ \/ committing = 0 /\ Coms = {}
       \/ committing = 1 /\ Ops = {} /\ left = 0 /\ \E p \in Procs : Coms = {p}

\* begin_op() has reserved MAXOPBLOCKS entries for each operation.
Reserved == outstanding * MAXOPBLOCKS <= LOGSIZE

\* No operation runs during the recovery, and none has been left open.
BootQuiet == boot # "up" => left = 0 /\ \A p \in Procs : pc[p] = "out"

\* After the recovery the log is empty, in memory and on disk.
UpEmpty == boot = "up" => lh = <<>> /\ head = <<>>

\* j is the last of the first m entries of the log found at the first boot
\* that is about n.
IsLast(j, n, m) == j \in 1..m /\ first[j] = n /\ \A k \in 1..m : first[k] = n => k <= j

\* The log found at the first boot is still on disk.
Untouched == boot # "up" /\ head = first /\ \A j \in 1..Len(first) : logblk[j] = Logged(j)

\* Every block of that log is in its place, and the header is cleared.
Installed ==
    head = <<>> /\ \A n \in Blocks : InLog(n) => \E j \in 1..Len(first) :
                                        IsLast(j, n, Len(first)) /\ home[n] = Logged(j)

\* The blocks of the entries that install_trans() has passed are in place.
Installing ==
    boot = "install" =>
        /\ lh = head /\ i \in 1..(Len(lh) + 1)
        /\ Untouched => \A n \in Blocks :
              (\E j \in 1..(i - 1) : first[j] = n) =>
                  \E j \in 1..(i - 1) : IsLast(j, n, i - 1) /\ home[n] = Logged(j)

\* Headers fit the log.
Fits == Len(head) <= LOGSIZE /\ Len(first) <= LOGSIZE

IInv == /\ TypeOK /\ Fits /\ Counts /\ Reserved /\ BootQuiet /\ UpEmpty
        /\ Untouched \/ Installed
        /\ Installing
-----------------------------------------------------------------------------
(* Processes and counts.                                                   *)

\* A process starts an operation.
LEMMA OpAdded ==
    ASSUME TypeOK, Counts, NEW p \in Procs, committing = 0, pc[p] = "out",
           Goto(p, "op"), outstanding' = outstanding + 1, UNCHANGED <<committing, left>>
    PROVE  Counts'
<1>1. IsFiniteSet(Ops) /\ outstanding = Cardinality(Ops) + left /\ left \in Nat /\ Coms = {} /\ p \notin Ops
  BY DEF Counts, Ops, TypeOK
<1>4. Cardinality(Ops) \in Nat
  BY <1>1, FS_CardinalityType
<1>2. Ops' = Ops \cup {p} /\ Coms' = {}
  BY <1>1 DEF TypeOK, Goto, Ops, Coms, Committing
<1>3. IsFiniteSet(Ops \cup {p}) /\ Cardinality(Ops \cup {p}) = Cardinality(Ops) + 1
  BY <1>1, FS_AddElement
<1> QED
  BY <1>1, <1>2, <1>3, <1>4 DEF Counts

\* A process ends its operation, and goes on to commit if it was the last.
LEMMA OpRemoved ==
    ASSUME TypeOK, Counts, NEW p \in Procs, pc[p] = "op", outstanding' = outstanding - 1, UNCHANGED left,
           IF outstanding = 1 THEN committing' = 1 /\ Goto(p, "write_log")
                              ELSE UNCHANGED committing /\ Goto(p, "out")
    PROVE  outstanding # 0 /\ outstanding' \in Nat /\ Counts'
<1>1. IsFiniteSet(Ops) /\ outstanding = Cardinality(Ops) + left /\ left \in Nat /\ p \in Ops
  BY DEF Counts, Ops, TypeOK
<1>2. Coms = {} /\ committing = 0
  BY <1>1 DEF Counts
<1>3. IsFiniteSet(Ops \ {p}) /\ Cardinality(Ops \ {p}) = Cardinality(Ops) - 1
  BY <1>1, FS_RemoveElement
<1>4. Cardinality(Ops \ {p}) \in Nat /\ Cardinality(Ops) \in Nat
  BY <1>1, <1>3, FS_CardinalityType
<1>5. Ops' = Ops \ {p} /\ outstanding' = Cardinality(Ops') + left' /\ IsFiniteSet(Ops')
  <2>1. Ops' = Ops \ {p}
    BY <1>1, <1>3 DEF TypeOK, Goto, Ops
  <2>2. outstanding' = Cardinality(Ops \ {p}) + left
    BY <1>1, <1>3, <1>4
  <2> QED
    BY <1>3, <2>1, <2>2
<1>6. outstanding # 0 /\ outstanding' \in Nat
  BY <1>1, <1>3, <1>4 DEF TypeOK
<1>7. CASE outstanding = 1
  <2>1. Ops' = {} /\ left' = 0
    <3>1. Cardinality(Ops \ {p}) = 0 /\ left = 0
      BY <1>1, <1>3, <1>4, <1>7
    <3> QED
      BY <1>3, <1>5, <3>1, FS_EmptySet
  <2>2. Coms' = {p}
    BY <1>2, <1>7 DEF TypeOK, Goto, Coms, Committing
  <2> QED
    BY <1>5, <1>6, <1>7, <2>1, <2>2 DEF Counts
<1>8. CASE outstanding # 1
  <2>1. Coms' = {}
    BY <1>2, <1>8 DEF TypeOK, Goto, Coms, Committing
  <2> QED
    BY <1>2, <1>5, <1>6, <1>8, <2>1 DEF Counts
<1> QED
  BY <1>7, <1>8

\* A process leaves its operation open.
LEMMA OpLeft ==
    ASSUME TypeOK, Counts, NEW p \in Procs, pc[p] = "op", Goto(p, "out"), left' = left + 1,
           UNCHANGED <<outstanding, committing>>
    PROVE  Counts'
<1>1. IsFiniteSet(Ops) /\ outstanding = Cardinality(Ops) + left /\ left \in Nat /\ p \in Ops
  BY DEF Counts, Ops, TypeOK
<1>2. Coms = {} /\ committing = 0
  BY <1>1 DEF Counts
<1>3. IsFiniteSet(Ops \ {p}) /\ Cardinality(Ops \ {p}) = Cardinality(Ops) - 1 /\ Cardinality(Ops) \in Nat
  BY <1>1, FS_RemoveElement, FS_CardinalityType
<1>4. Ops' = Ops \ {p} /\ Coms' = {}
  BY <1>2 DEF TypeOK, Goto, Ops, Coms, Committing
<1>5. outstanding' = Cardinality(Ops \ {p}) + left'
  BY <1>1, <1>3
<1> QED
  BY <1>2, <1>3, <1>4, <1>5 DEF Counts

\* A step of a process that neither starts nor ends an operation or a commit.
LEMMA CountsKept ==
    ASSUME TypeOK, Counts, UNCHANGED <<outstanding, committing, left>>, NEW p \in Procs, NEW l, Goto(p, l),
           \/ pc[p] \in {"out", "asleep"} /\ l \in {"out", "asleep"}
           \/ pc[p] \in Committing /\ l \in Committing
    PROVE  Counts'
<1>1. Ops' = Ops /\ Coms' = Coms
  BY DEF TypeOK, Goto, Ops, Coms, Committing
<1> QED
  BY <1>1 DEF Counts

\* Nobody is anywhere.
LEMMA CountsZero ==
    ASSUME outstanding = 0, committing = 0, left = 0, \A p \in Procs : pc[p] = "out"
    PROVE  Counts
<1>1. Ops = {} /\ Coms = {}
  BY DEF Ops, Coms, Committing
<1> QED
  BY <1>1, FS_EmptySet DEF Counts

\* What the disk has to say about the first boot's log only depends on these.
LEMMA DiskKept ==
    ASSUME UNCHANGED <<home, logblk, head, first>>, Untouched \/ Installed,
           boot # "up" => boot' # "up"
    PROVE  Untouched' \/ Installed'
  BY DEF Untouched, Installed, IsLast, InLog, Logged
-----------------------------------------------------------------------------
LEMMA InitIInv == Init => IInv
<1> SUFFICES ASSUME Init PROVE IInv
  OBVIOUS
<1>1. TypeOK /\ Fits
  BY LogAssumption DEF Init, TypeOK, Fits, Entries, Logged
<1>2. Counts
  BY CountsZero DEF Init
<1>3. Reserved /\ BootQuiet /\ UpEmpty /\ Installing
  BY LogAssumption DEF Init, Reserved, BootQuiet, UpEmpty, Installing
<1>4. Untouched
  BY LogAssumption DEF Init, Untouched, Entries
<1> QED
  BY <1>1, <1>2, <1>3, <1>4 DEF IInv
-----------------------------------------------------------------------------
(* The recovery and the crash.                                             *)

LEMMA ReadHeadStep == ASSUME IInv, ReadHead PROVE IInv'
<1> USE DEF diskVars
<1>1. TypeOK' /\ Fits'
  BY LogAssumption DEF IInv, TypeOK, Fits, ReadHead
<1>2. Counts'
  BY DEF IInv, Counts, Ops, Coms, ReadHead
<1>3. Reserved' /\ BootQuiet' /\ UpEmpty'
  BY DEF IInv, Reserved, BootQuiet, UpEmpty, ReadHead
<1>4. Untouched' \/ Installed'
  BY DiskKept DEF IInv, ReadHead
<1>5. Installing'
  BY DEF IInv, TypeOK, Installing, ReadHead
<1> QED
  BY <1>1, <1>2, <1>3, <1>4, <1>5 DEF IInv

\* One more entry is behind the loop: it is the last one about its block so
\* far, and the other blocks keep theirs.
LEMMA InstallOneStep == ASSUME IInv, InstallOne PROVE IInv'
<1>1. lh = head /\ i \in 1..Len(head) /\ Len(head) \in Nat /\ head # <<>>
  BY DEF IInv, TypeOK, Installing, InstallOne
<1>2. Untouched
  BY <1>1 DEF IInv, Installed
<1>3. i \in 1..Len(first) /\ head = first /\ first[i] \in Blocks /\ logblk[i] = Logged(i) /\ i \in Entries
  BY <1>1, <1>2, LogAssumption DEF Untouched, IInv, TypeOK, Fits, Entries
<1>4. /\ home' = [home EXCEPT ![first[i]] = Logged(i)]
      /\ cache' = [cache EXCEPT ![first[i]] = Logged(i)]
      /\ i' = i + 1 /\ boot' = "install" /\ boot = "install"
      /\ UNCHANGED <<outstanding, committing, lh, pc, boot, logblk, head, writes, crashes, first, left>>
  BY <1>1, <1>3 DEF InstallOne
<1>5. Logged(i) \in Nat
  BY <1>3, LogAssumption DEF Logged, Entries
<1>6. TypeOK' /\ Fits'
  BY <1>1, <1>3, <1>4, <1>5, LogAssumption, SMTT(30) DEF IInv, TypeOK, Fits, Entries
<1>7. Counts'
  BY <1>4 DEF IInv, Counts, Ops, Coms
<1>8. Reserved' /\ BootQuiet' /\ UpEmpty'
  BY <1>4 DEF IInv, Reserved, BootQuiet, UpEmpty
<1>9. Untouched'
  BY <1>2, <1>4 DEF Untouched, Logged
<1>10. Installing'
  <2>1. lh' = head' /\ i' \in 1..(Len(lh') + 1)
    BY <1>1, <1>4
  <2>2. ASSUME NEW n \in Blocks, NEW j \in 1..i, first[j] = n
        PROVE  \E k \in 1..i : IsLast(k, n, i) /\ home'[n] = Logged(k)
    <3>1. CASE n = first[i]
      <4>1. IsLast(i, n, i)
        BY <1>3, <1>4, <3>1 DEF IsLast
      <4>2. home'[n] = Logged(i)
        BY <1>3, <1>4, <3>1 DEF IInv, TypeOK
      <4> QED
        BY <1>3, <4>1, <4>2
    <3>2. CASE n # first[i]
      <4>1. j \in 1..(i - 1)
        BY <1>3, <2>2, <3>2
      <4> PICK k \in 1..(i - 1) : IsLast(k, n, i - 1) /\ home[n] = Logged(k)
        BY <1>2, <1>4, <2>2, <4>1 DEF IInv, Installing
      <4>2. IsLast(k, n, i)
        BY <1>3, <1>4, <3>2 DEF IsLast
      <4>3. home'[n] = Logged(k)
        BY <1>3, <1>4, <3>2 DEF IInv, TypeOK
      <4> QED
        BY <1>3, <4>2, <4>3
    <3> QED
      BY <3>1, <3>2
  <2>3. i' - 1 = i
    BY <1>3, <1>4
  <2> QED
    BY <1>4, <2>1, <2>2, <2>3 DEF Installing, Logged, IsLast
<1> QED
  BY <1>6, <1>7, <1>8, <1>9, <1>10 DEF IInv

LEMMA ClearHeadStep == ASSUME IInv, ClearHead PROVE IInv'
<1>1. lh = head /\ i = Len(head) + 1 /\ Len(head) \in Nat
  <2>1. boot = "install" /\ i > Len(lh)
    BY DEF ClearHead
  <2>2. lh = head /\ i \in 1..(Len(lh) + 1)
    BY <2>1 DEF IInv, Installing
  <2>3. Len(head) \in Nat
    BY DEF IInv, TypeOK
  <2> QED
    BY <2>1, <2>2, <2>3
<1>2. TypeOK' /\ Fits'
  BY LogAssumption DEF IInv, TypeOK, Fits, ClearHead
<1>3. outstanding = 0
  <2>1. Ops = {} /\ left = 0
    BY DEF IInv, BootQuiet, ClearHead, Ops
  <2> QED
    BY <2>1, FS_EmptySet DEF IInv, Counts
<1>4. Counts'
  BY DEF IInv, Counts, Ops, Coms, ClearHead
<1>5. Reserved' /\ BootQuiet' /\ UpEmpty' /\ Installing'
  BY <1>3, LogAssumption DEF IInv, Reserved, BootQuiet, UpEmpty, Installing, ClearHead
<1>6. Installed'
  <2>1. CASE Untouched
    <3>1. first = head /\ i - 1 = Len(first)
      BY <1>1, <2>1 DEF Untouched
    <3>2. ASSUME NEW n \in Blocks, InLog(n)
          PROVE  \E j \in 1..Len(first) : IsLast(j, n, Len(first)) /\ home[n] = Logged(j)
      BY <2>1, <3>1, <3>2 DEF IInv, Installing, ClearHead, InLog
    <3> QED
      BY <3>2 DEF Installed, ClearHead, InLog, IsLast, Logged
  <2>2. CASE Installed
    BY <2>2 DEF Installed, ClearHead, InLog, IsLast, Logged
  <2> QED
    BY <2>1, <2>2 DEF IInv
<1> QED
  BY <1>2, <1>4, <1>5, <1>6 DEF IInv

LEMMA CrashStep == ASSUME IInv, Crash PROVE IInv'
<1> USE DEF diskVars
<1>1. TypeOK' /\ Fits'
  BY LogAssumption DEF IInv, TypeOK, Fits, Crash
<1>2. Counts'
  BY CountsZero, FS_EmptySet DEF Counts, Ops, Coms, Committing, Crash
<1>3. Reserved' /\ BootQuiet' /\ UpEmpty' /\ Installing'
  BY LogAssumption DEF Reserved, BootQuiet, UpEmpty, Installing, Crash
<1>4. Untouched' \/ Installed'
  BY DiskKept DEF IInv, Crash
<1> QED
  BY <1>1, <1>2, <1>3, <1>4 DEF IInv
-----------------------------------------------------------------------------
(* begin_op(), log_write() and end_op().                                   *)

LEMMA BeginOpStep == ASSUME IInv, NEW p \in Procs, BeginOp(p) PROVE IInv'
<1> USE DEF diskVars
<1>1. TypeOK' /\ Fits'
  BY LogAssumption DEF IInv, TypeOK, Fits, BeginOp, Goto, Committing
<1>2. Counts'
  BY OpAdded DEF IInv, BeginOp
<1>3. Reserved'
  <2>1. lh = <<>> /\ outstanding' = outstanding + 1
    BY DEF IInv, UpEmpty, BeginOp
  <2>2. ~ (0 + (outstanding + 1) * MAXOPBLOCKS > LOGSIZE)
    BY <2>1 DEF BeginOp, Full
  <2>3. (outstanding + 1) * MAXOPBLOCKS \in Int /\ LOGSIZE \in Int
    BY LogAssumption DEF IInv, TypeOK
  <2> QED
    BY <2>1, <2>2, <2>3 DEF Reserved
<1>4. BootQuiet' /\ UpEmpty' /\ Installing'
  BY DEF IInv, BootQuiet, UpEmpty, Installing, BeginOp
<1>5. Untouched' \/ Installed'
  BY DiskKept DEF IInv, BeginOp
<1> QED
  BY <1>1, <1>2, <1>3, <1>4, <1>5 DEF IInv

LEMMA BeginSleepStep == ASSUME IInv, NEW p \in Procs, BeginSleep(p) PROVE IInv'
<1> USE DEF diskVars
<1>1. TypeOK' /\ Fits'
  BY LogAssumption DEF IInv, TypeOK, Fits, BeginSleep, Goto, Committing
<1>2. Counts'
  BY CountsKept DEF IInv, BeginSleep
<1>3. Reserved' /\ BootQuiet' /\ UpEmpty' /\ Installing'
  BY DEF IInv, Reserved, BootQuiet, UpEmpty, Installing, BeginSleep
<1>4. Untouched' \/ Installed'
  BY DiskKept DEF IInv, BeginSleep
<1> QED
  BY <1>1, <1>2, <1>3, <1>4 DEF IInv

\* The header is empty, so nothing is appended to it.
LEMMA LogWriteStep == ASSUME IInv, NEW p \in Procs, NEW n \in Blocks, LogWrite(p, n) PROVE IInv'
<1> USE DEF diskVars
<1>0. boot = "up" /\ lh = <<>> /\ lh' = <<>>
  <2>1. boot = "up"
    BY DEF IInv, BootQuiet, LogWrite
  <2>2. lh = <<>> /\ Len(lh) = 0
    BY <2>1 DEF IInv, UpEmpty
  <2>3. Recorded(n) = lh
    BY <2>2 DEF Recorded
  <2> QED
    BY <2>1, <2>2, <2>3 DEF LogWrite
<1>1. TypeOK' /\ Fits'
  BY <1>0, LogAssumption DEF IInv, TypeOK, Fits, LogWrite
<1>2. Counts'
  BY DEF IInv, Counts, Ops, Coms, LogWrite
<1>3. Reserved' /\ BootQuiet' /\ UpEmpty' /\ Installing'
  BY <1>0 DEF IInv, Reserved, BootQuiet, UpEmpty, Installing, LogWrite
<1>4. Untouched' \/ Installed'
  BY DiskKept DEF IInv, LogWrite
<1> QED
  BY <1>1, <1>2, <1>3, <1>4 DEF IInv

LEMMA EndOpStep == ASSUME IInv, NEW p \in Procs, EndOp(p) PROVE IInv'
<1> USE DEF diskVars
<1>1. outstanding # 0 /\ outstanding' \in Nat /\ Counts'
  BY OpRemoved DEF IInv, EndOp
<1>2. TypeOK' /\ Fits'
  BY <1>1, LogAssumption DEF IInv, TypeOK, Fits, EndOp, Goto, Committing
<1>3. Reserved'
  <2>1. outstanding \in Nat /\ MAXOPBLOCKS \in Nat /\ outstanding' = outstanding - 1 /\ LOGSIZE \in Nat
    BY LogAssumption DEF IInv, TypeOK, EndOp
  <2>2. (outstanding - 1) * MAXOPBLOCKS = outstanding * MAXOPBLOCKS - MAXOPBLOCKS
    BY <2>1
  <2>3. outstanding * MAXOPBLOCKS <= LOGSIZE /\ outstanding * MAXOPBLOCKS \in Int
    BY <2>1 DEF IInv, Reserved
  <2> QED
    BY <2>1, <2>2, <2>3 DEF Reserved
<1>4. BootQuiet' /\ UpEmpty' /\ Installing'
  BY DEF IInv, BootQuiet, UpEmpty, Installing, EndOp
<1>5. Untouched' \/ Installed'
  BY DiskKept DEF IInv, EndOp
<1> QED
  BY <1>1, <1>2, <1>3, <1>4, <1>5 DEF IInv

LEMMA LeaveOpenStep == ASSUME IInv, NEW p \in Procs, LeaveOpen(p) PROVE IInv'
<1> USE DEF diskVars
<1>1. TypeOK' /\ Fits'
  BY LogAssumption DEF IInv, TypeOK, Fits, LeaveOpen, Goto, Committing
<1>2. Counts'
  BY OpLeft DEF IInv, LeaveOpen
<1>3. Reserved' /\ BootQuiet' /\ UpEmpty' /\ Installing'
  BY DEF IInv, Reserved, BootQuiet, UpEmpty, Installing, LeaveOpen
<1>4. Untouched' \/ Installed'
  BY DiskKept DEF IInv, LeaveOpen
<1> QED
  BY <1>1, <1>2, <1>3, <1>4 DEF IInv
-----------------------------------------------------------------------------
(* commit()                                                                *)

\* A commit runs after the recovery, on an empty log.
LEMMA CommitOnEmpty ==
    ASSUME IInv, NEW p \in Procs, pc[p] \in Committing
    PROVE  boot = "up" /\ lh = <<>> /\ Len(lh) = 0 /\ head = <<>>
  BY DEF IInv, BootQuiet, UpEmpty, Committing

\* The parts of commit() leave the disk as it is.
LEMMA CommitNoop ==
    ASSUME IInv, NEW p \in Procs, CommitLog(p) \/ CommitHead(p) \/ CommitInstall(p) \/ CommitClear(p)
    PROVE  /\ UNCHANGED <<outstanding, committing, lh, boot, i, cache, home, logblk, head,
                          writes, crashes, first, left>>
           /\ \E l \in Committing : Goto(p, l)
           /\ pc[p] \in Committing
<1>1. pc[p] \in Committing /\ \E l \in Committing : Goto(p, l)
  BY DEF CommitLog, CommitHead, CommitInstall, CommitClear, Committing
<1>2. lh = <<>> /\ Len(lh) = 0 /\ head = <<>>
  BY <1>1, CommitOnEmpty
<1>3. CASE CommitLog(p)
  <2>1. \A j \in Entries : ~ (j <= Len(lh))
    BY <1>2 DEF Entries
  <2>2. logblk' = logblk
    BY <1>3, <2>1 DEF CommitLog, IInv, TypeOK
  <2> QED
    BY <1>1, <1>3, <2>2 DEF CommitLog
<1>4. CASE CommitHead(p)
  BY <1>1, <1>2, <1>4 DEF CommitHead
<1>5. CASE CommitInstall(p)
  <2>1. home' = home
    BY <1>2, <1>5 DEF CommitInstall, IInv, TypeOK
  <2> QED
    BY <1>1, <1>5, <2>1 DEF CommitInstall
<1>6. CASE CommitClear(p)
  BY <1>1, <1>2, <1>6 DEF CommitClear
<1> QED
  BY <1>3, <1>4, <1>5, <1>6

LEMMA CommitEndStep == ASSUME IInv, NEW p \in Procs, CommitEnd(p) PROVE IInv'
<1> USE DEF diskVars
<1>0. Coms = {p} /\ Ops = {} /\ boot = "up"
  <2>1. p \in Coms
    BY DEF Coms, CommitEnd, Committing
  <2> QED
    BY <2>1 DEF IInv, Counts, BootQuiet, CommitEnd
<1>1. TypeOK' /\ Fits'
  BY LogAssumption DEF IInv, TypeOK, Fits, CommitEnd, Goto, Committing
<1>2. Counts'
  <2>1. \A q \in Procs : q # p => pc[q] \notin Committing
    BY <1>0 DEF Coms
  <2>2. Ops' = Ops /\ Coms' = {}
    BY <2>1 DEF IInv, TypeOK, CommitEnd, Goto, Ops, Coms, Committing
  <2> QED
    BY <2>2 DEF IInv, Counts, CommitEnd
<1>3. Reserved' /\ BootQuiet' /\ UpEmpty' /\ Installing'
  BY <1>0 DEF IInv, Reserved, BootQuiet, UpEmpty, Installing, CommitEnd
<1>4. Untouched' \/ Installed'
  BY DiskKept DEF IInv, CommitEnd
<1> QED
  BY <1>1, <1>2, <1>3, <1>4 DEF IInv

LEMMA CommitStepStep == ASSUME IInv, NEW p \in Procs, CommitStep(p) PROVE IInv'
<1>1. CASE CommitEnd(p)
  BY <1>1, CommitEndStep
<1>2. CASE CommitLog(p) \/ CommitHead(p) \/ CommitInstall(p) \/ CommitClear(p)
  <2>0. /\ UNCHANGED <<outstanding, committing, lh, boot, i, cache, home, logblk, head,
                       writes, crashes, first, left>>
        /\ pc[p] \in Committing
    BY <1>2, CommitNoop
  <2> PICK l \in Committing : Goto(p, l)
    BY <1>2, CommitNoop
  <2>a. boot = "up"
    BY <2>0, CommitOnEmpty
  <2>1. TypeOK' /\ Fits'
    BY <2>0 DEF IInv, TypeOK, Fits, Goto
  <2>2. Counts'
    BY <2>0, CountsKept DEF IInv
  <2>3. Reserved' /\ BootQuiet' /\ UpEmpty' /\ Installing'
    BY <2>0, <2>a DEF IInv, Reserved, BootQuiet, UpEmpty, Installing
  <2>4. Untouched' \/ Installed'
    BY <2>0, DiskKept DEF IInv
  <2> QED
    BY <2>1, <2>2, <2>3, <2>4 DEF IInv
<1> QED
  BY <1>1, <1>2 DEF CommitStep
-----------------------------------------------------------------------------
(* The theorems.                                                           *)

LEMMA NextIInv == IInv /\ [Next]_vars => IInv'
<1> SUFFICES ASSUME IInv, [Next]_vars PROVE IInv'
  OBVIOUS
<1>1. CASE Next
  BY <1>1, ReadHeadStep, InstallOneStep, ClearHeadStep, CrashStep, BeginOpStep, BeginSleepStep,
     EndOpStep, LeaveOpenStep, CommitStepStep, LogWriteStep DEF Next, Recovery
<1>2. CASE UNCHANGED vars
  <2>1. TypeOK' /\ Fits' /\ Counts' /\ Reserved' /\ BootQuiet' /\ UpEmpty'
    BY <1>2 DEF vars, IInv, TypeOK, Fits, Counts, Ops, Coms, Reserved, BootQuiet, UpEmpty
  <2>2. Untouched' \/ Installed'
    BY <1>2, DiskKept DEF vars, IInv
  <2>3. Installing'
    BY <1>2 DEF vars, IInv, Installing, Untouched, IsLast, Logged
  <2> QED
    BY <2>1, <2>2, <2>3 DEF IInv
<1> QED
  BY <1>1, <1>2

\* IInv holds in every reachable state.
THEOREM SpecIInv == Spec => []IInv
  BY InitIInv, NextIInv, PTL DEF Spec

\* begin_op() and end_op() of log.c: with any number of processes, a commit is
\* alone, outstanding counts the operations in progress and those left open, and
\* the log has room for MAXOPBLOCKS blocks of each of them.
THEOREM SpecCommitsAlone == Spec => []CommitsAlone
<1>1. IInv => CommitsAlone
  <2> SUFFICES ASSUME IInv PROVE CommitsAlone
    OBVIOUS
  <2>1. outstanding = Cardinality(Ops) + left /\ (Coms # {} => Ops = {} /\ left = 0)
    BY DEF IInv, Counts
  <2>2. committing = Cardinality(Coms)
    BY FS_EmptySet, FS_Singleton DEF IInv, Counts
  <2>3. Len(lh) + outstanding * MAXOPBLOCKS <= LOGSIZE \/ boot # "up"
    <3>1. outstanding * MAXOPBLOCKS \in Int /\ LOGSIZE \in Int
      BY LogAssumption DEF IInv, TypeOK
    <3>2. boot = "up" => Len(lh) = 0
      BY DEF IInv, UpEmpty
    <3> QED
      BY <3>1, <3>2 DEF IInv, Reserved
  <2> QED
    BY <2>1, <2>2, <2>3 DEF IInv, CommitsAlone, Ops, Coms
<1> QED
  BY <1>1, SpecIInv, PTL

\* recover_from_log(): whatever header the first boot finds, and however often
\* the recovery is cut short, every block of that log ends up with its last
\* entry, and the log stays on disk until then.
THEOREM SpecRecoveryComplete == Spec => []RecoveryComplete
<1>1. IInv => RecoveryComplete
  <2> SUFFICES ASSUME IInv, NEW n \in Blocks, InLog(n)
               PROVE  \/ home[n] = FromLog(n)
                      \/ boot # "up" /\ head = first /\ \A j \in 1..Len(first) : logblk[j] = Logged(j)
    BY DEF RecoveryComplete
  <2>1. CASE Untouched
    BY <2>1 DEF Untouched
  <2>2. CASE Installed
    <3> PICK j \in 1..Len(first) : IsLast(j, n, Len(first)) /\ home[n] = Logged(j)
      BY <2>2 DEF Installed
    <3> DEFINE P(k) == first[k] = n /\ \A m \in 1..Len(first) : first[m] = n => m <= k
    <3>1. \A k \in 1..Len(first) : P(k) => k = j
      <4>1. Len(first) \in Nat
        BY DEF IInv, TypeOK
      <4> QED
        BY <4>1 DEF IsLast
    <3>2. P(j)
      BY DEF IsLast
    <3>3. (CHOOSE k \in 1..Len(first) : P(k)) = j
      BY <3>1, <3>2
    <3> QED
      BY <3>3 DEF FromLog
  <2> QED
    BY <2>1, <2>2 DEF IInv
<1> QED
  BY <1>1, SpecIInv, PTL
=============================================================================
