---------------------------- MODULE FileSysProofs ---------------------------
(***************************************************************************)
(* Theorems about FileSys: reference counts are exact, the inode cache     *)
(* agrees with the disk, the directories agree with the inodes, iput()     *)
(* never has to free an inode, and locks of inodes are not waited for in a *)
(* circle.  They follow from one inductive invariant, Inv, whose parts     *)
(* need one another: that the last reference to an inode is not dropped    *)
(* under a call needs the counts, that the entry of a new inode is known   *)
(* to its creator only needs the counts and the inodes on disk, and that   *)
(* create() finds its directory as it left it needs the locks.             *)
(***************************************************************************)
EXTENDS FileSys, FiniteSetTheorems, WellFoundedInduction, TLAPS

\* The types of the tables.
Dinodes == [type : Types, nlink : Nat, size : 0..MAXFILE]
Inodes  == [inum : Inums \cup {0}, ref : Nat, valid : BOOLEAN, type : Types, nlink : Nat, size : 0..MAXFILE]
OpenFiles == [ref : Nat, type : {"none", "inode"}, ip : Slots \cup {0}, off : Nat]

Typed ==
    /\ dinode \in [Inums -> Dinodes]
    /\ ents \in [Inums -> SUBSET (Elems \X Inums)]
    /\ icache \in [Slots -> Inodes]
    /\ holder \in [Slots -> Procs \cup {None}]
    /\ ftable \in [Files -> OpenFiles]
    /\ ofile \in [Procs -> [Fds -> Files \cup {0}]]
    /\ cwd \in [Procs -> Slots \cup {0}] /\ pc \in [Procs -> Points]
    /\ kind \in [Procs -> Kinds \cup {"none", "read", "write"}]
    /\ elems \in [Procs -> Seq(Elems)]
    /\ ip \in [Procs -> Slots \cup {0}] /\ nxt \in [Procs -> Nat]
    /\ io \in [Procs -> [file : Files \cup {0}, n : Nat, fin : Nat]]
    /\ leaked \in [Slots -> Nat] /\ kept \subseteq Slots

\* Where a process works on the inode in ip.
Walking == {"walk", "step", "parent", "exists", "new", "link", "linked", "locked", "chdir", "put", "fail", "halt"}

\* The inodes of a call are there where it uses them.
ProcOK(p) ==
    /\ pc[p] = "unused" => cwd[p] = 0 /\ ofile[p] = [d \in Fds |-> 0]
    /\ pc[p] # "unused" => cwd[p] \in Slots
    /\ pc[p] \in Walking => ip[p] \in Slots
    /\ pc[p] \notin Walking \cup {"panic"} => ip[p] = 0
    /\ pc[p] \in {"step", "link", "linked"} => nxt[p] \in Slots
    /\ pc[p] = "new" => nxt[p] \in Inums
    /\ pc[p] \notin {"step", "new", "link", "linked"} => nxt[p] = 0
    /\ pc[p] \in {"parent", "exists", "new", "link", "linked"} => kind[p] \in WantsParent
    /\ pc[p] \in {"parent", "new", "link"} => Len(elems[p]) = 1
    /\ pc[p] = "step" => elems[p] # <<>>
    /\ pc[p] \in {"io", "dev"} => io[p].file \in Files /\ \E d \in Fds : ofile[p][d] = io[p].file

\* The counts of the inode cache and of the table of open files are exact.
RefsOK == \A s \in Slots : icache[s].ref = Pointers(s) + leaked[s]

FilesOK ==
    \A f \in Files :
          /\ ftable[f].ref = Cardinality({x \in Procs \X Fds : ofile[x[1]][x[2]] = f})
          /\ ftable[f].ref > 0 <=> ftable[f].type = "inode"

\* Cache ic has one entry for an inode, which is not free on disk dn, and says
\* of it what the disk says.
CacheOK(ic, dn) ==
    /\ ic \in [Slots -> Inodes]
    /\ \A s \in Slots : ic[s].ref > 0 =>
         /\ ic[s].inum \in Inums /\ dn[ic[s].inum].type # "free"
         /\ ic[s].valid => dn[ic[s].inum] = [type |-> ic[s].type, nlink |-> ic[s].nlink, size |-> ic[s].size]
    /\ \A s, t \in Slots : ic[s].ref > 0 /\ ic[t].ref > 0 /\ ic[s].inum = ic[t].inum => s = t

\* The inode of an open file is in the cache, and reaches to its offset.
OpenOK ==
    \A f \in Files : ftable[f].type = "inode" =>
        /\ ftable[f].ip \in Slots /\ icache[ftable[f].ip].valid
        /\ icache[ftable[f].ip].type = "file" => ftable[f].off <= icache[ftable[f].ip].size

\* The entries that count as links to inode i.
Counted(i) == {x \in Inums \X (Names \cup {".."}) : <<x[2], i>> \in ents[x[1]]}

\* Directories and inodes agree; an inode without links is in no directory and
\* has no entries.
TreeOK ==
    /\ \A i \in Inums : \A e, g \in ents[i] : e[1] = g[1] => e = g
    /\ \A i \in Inums : \A e \in ents[i] : dinode[e[2]].type # "free" /\ (e[1] = "." => e[2] = i)
    /\ \A i \in Inums : dinode[i].nlink = Cardinality(Counted(i))
    /\ \A i \in Inums : dinode[i].nlink = 0 => ents[i] = {}
    /\ \A i \in Inums : dinode[i].type = "free" => dinode[i].nlink = 0
    /\ \A i \in Inums : dinode[i].type = "dir" /\ dinode[i].nlink > 0 =>
          \A n \in {".", ".."} : \E e \in ents[i] : e[1] = n
    /\ dinode[ROOTINO].type = "dir" /\ dinode[ROOTINO].nlink > 0

\* What ialloc() has written for process p.
NewDinode(p) == [type |-> NewType[kind[p]], nlink |-> 0, size |-> 0]

\* What process p may rely on between two steps of its call.
Known(p) ==
    /\ pc[p] \in {"parent", "new", "link"} => icache[ip[p]].valid /\ icache[ip[p]].type = "dir"
    /\ pc[p] \in {"new", "link"} => \A e \in ents[icache[ip[p]].inum] : e[1] # elems[p][1]
    /\ pc[p] = "new" => /\ dinode[nxt[p]] = NewDinode(p)
                        /\ \A s \in Slots : icache[s].ref > 0 => icache[s].inum # nxt[p]
    /\ pc[p] = "link" => /\ icache[nxt[p]].ref = 1 /\ ~ icache[nxt[p]].valid
                         /\ dinode[icache[nxt[p]].inum] = NewDinode(p)
    /\ pc[p] = "linked" => icache[nxt[p]].valid
    /\ pc[p] = "locked" => icache[ip[p]].valid
    /\ pc[p] = "dev" => Inode(p).type = "dev"

\* Two calls of ialloc() do not find the same inode.
NewApart == \A p, q \in Procs : pc[p] = "new" /\ pc[q] = "new" /\ nxt[p] = nxt[q] => p = q

\* A referenced inode has links, or is about to get its first one.
Reach ==
    \A s \in Slots : icache[s].ref > 0 =>
        dinode[icache[s].inum].nlink > 0 \/ \E p \in Procs : pc[p] = "link" /\ nxt[p] = s

\* Where process p holds the lock of entry s.
Holding(p, s) ==
    \/ pc[p] \in {"new", "link", "locked", "panic", "halt"} /\ ip[p] = s
    \/ pc[p] = "linked" /\ nxt[p] = s

\* Locks are held there and nowhere else, but for those that a failed call has
\* kept, whose entries are referenced for ever.
HoldOK ==
    /\ \A s \in Slots \ kept : \A p \in Procs : holder[s] = p => Holding(p, s)
    /\ \A s \in Slots, p \in Procs : Holding(p, s) /\ pc[p] # "panic" => holder[s] = p /\ s \notin kept
    /\ \A s \in kept : holder[s] # None /\ (leaked[s] > 0 \/ \E f \in Files : ftable[f].type = "inode" /\ ftable[f].ip = s)

\* The inductive invariant.
Inv ==
    /\ Typed /\ (\A p \in Procs : ProcOK(p)) /\ RefsOK /\ FilesOK
    /\ CacheOK(icache, dinode) /\ OpenOK /\ TreeOK /\ (\A p \in Procs : Known(p)) /\ NewApart /\ Reach /\ HoldOK

-----------------------------------------------------------------------------
(* Numbers and counting.                                                   *)

\* The sizes of the tables are positive.
LEMMA Sizes ==
    /\ initproc \in Procs /\ None \notin Procs /\ IsFiniteSet(Procs) /\ IsFiniteSet(Names)
    /\ NINODES \in Nat /\ NINODES > 0 /\ NINODE \in Nat /\ NINODE > 0 /\ NFILE \in Nat /\ NFILE > 0
    /\ NOFILE \in Nat /\ NOFILE > 0 /\ MAXFILE \in Nat /\ MAXFILE > 0 /\ LIM \in Nat /\ LIM > 0
    /\ Lengths \subseteq Nat /\ "." \notin Names /\ ".." \notin Names
  BY FileSysAssumption

\* The numbers 0 and 1 count nothing and something in tables.
LEMMA Ranges ==
    /\ ROOTINO \in Inums /\ 1 \in Slots /\ 1 \in Files /\ 1 \in Fds
    /\ 0 \notin Inums /\ 0 \notin Slots /\ 0 \notin Files /\ 0 \notin Fds
    /\ Inums \subseteq Nat /\ Slots \subseteq Nat /\ Files \subseteq Nat /\ Fds \subseteq Nat
    /\ 0 \in 0..MAXFILE
  BY Sizes DEF ROOTINO, Inums, Slots, Files, Fds

LEMMA Finite ==
    /\ IsFiniteSet(Procs) /\ IsFiniteSet(Files) /\ IsFiniteSet(Slots) /\ IsFiniteSet(Fds)
    /\ IsFiniteSet(Procs \X Fds) /\ IsFiniteSet(Inums \X (Names \cup {".."}))
<1>1. IsFiniteSet(1..NFILE) /\ IsFiniteSet(1..NINODE) /\ IsFiniteSet(1..NOFILE) /\ IsFiniteSet(1..NINODES)
  BY FS_Interval, Sizes
<1>2. IsFiniteSet(Names \cup {".."})
  BY FS_AddElement, Sizes
<1> QED
  BY <1>1, <1>2, FS_Product, Sizes DEF Files, Slots, Fds, Inums

\* A set of natural numbers has a least element.
LEMMA Lowest ==
    ASSUME NEW T \in SUBSET Nat, T # {}
    PROVE  Min(T) \in T /\ \A y \in T : Min(T) <= y
<1> DEFINE R == OpToRel(<, Nat)
<1>1. IsWellFoundedOn(R, Nat)
  BY NatLessThanWellFounded, Zenon
<1>2. \A x, y \in Nat : x < y => <<x, y>> \in R
  BY DEF OpToRel
<1> HIDE DEF R
<1>3. PICK x \in T : \A y \in T : ~ (<<y, x>> \in R)
  BY <1>1, WFMin
<1>4. ASSUME NEW y \in T PROVE x <= y
  <2>1. x \in Nat /\ y \in Nat /\ ~ (y < x)
    BY <1>2, <1>3
  <2> QED
    BY <2>1
<1> QED
  BY <1>4 DEF Min

\* The lower and the higher of two numbers.
LEMMA MinOfTwo ==
    ASSUME NEW a \in Nat, NEW b \in Nat
    PROVE  Min({a, b}) \in {a, b} /\ Min({a, b}) <= a /\ Min({a, b}) <= b
  BY Lowest

LEMMA MaxOfTwo ==
    ASSUME NEW a \in Nat, NEW b \in Nat
    PROVE  Max({a, b}) \in {a, b} /\ Max({a, b}) >= a /\ Max({a, b}) >= b
<1>1. \E x \in {a, b} : \A y \in {a, b} : x >= y
  OBVIOUS
<1> QED
  BY <1>1 DEF Max

One(b) == IF b THEN 1 ELSE 0

\* Two sets that differ in one element at most.
LEMMA OneChange ==
    ASSUME NEW S, IsFiniteSet(S), NEW A \in SUBSET S, NEW B \in SUBSET S, NEW x \in S,
           \A y \in S : y # x => (y \in A <=> y \in B)
    PROVE  /\ Cardinality(A) \in Nat /\ Cardinality(B) \in Nat
           /\ Cardinality(B) = Cardinality(A) + One(x \in B) - One(x \in A)
<1>1. IsFiniteSet(A) /\ IsFiniteSet(B)
  BY FS_Subset
<1>2. Cardinality(A) \in Nat /\ Cardinality(B) \in Nat
  BY <1>1, FS_CardinalityType
<1>3. CASE x \in A <=> x \in B
  <2>1. A = B
    BY <1>3
  <2> QED
    BY <1>2, <2>1 DEF One
<1>4. CASE x \in A /\ x \notin B
  <2>1. B = A \ {x}
    BY <1>4
  <2>2. Cardinality(B) = Cardinality(A) - 1
    BY <1>1, <1>4, <2>1, FS_RemoveElement
  <2> QED
    BY <1>2, <1>4, <2>2 DEF One
<1>5. CASE x \notin A /\ x \in B
  <2>1. B = A \cup {x}
    BY <1>5
  <2>2. Cardinality(B) = Cardinality(A) + 1
    BY <1>1, <1>5, <2>1, FS_AddElement
  <2> QED
    BY <1>2, <1>5, <2>2 DEF One
<1> QED
  BY <1>3, <1>4, <1>5

\* A finite set that has an element, and a second one.
LEMMA AtLeastOne ==
    ASSUME NEW S, IsFiniteSet(S), NEW A \in SUBSET S
    PROVE  /\ Cardinality(A) \in Nat
           /\ A # {} <=> Cardinality(A) > 0
           /\ \A x, y \in A : Cardinality(A) = 1 => x = y
<1>1. IsFiniteSet(A)
  BY FS_Subset
<1>2. Cardinality(A) \in Nat
  BY <1>1, FS_CardinalityType
<1>3. Cardinality(A) = 0 <=> A = {}
  BY <1>1, FS_EmptySet
<1>4. ASSUME NEW x \in A, NEW y \in A, Cardinality(A) = 1 PROVE x = y
  <2>1. Cardinality(A \ {x}) = Cardinality(A) - 1 /\ IsFiniteSet(A \ {x})
    BY <1>1, <1>4, FS_RemoveElement
  <2>2. A \ {x} = {}
    BY <1>4, <2>1, FS_EmptySet
  <2> QED
    BY <2>2
<1> QED
  BY <1>2, <1>3, <1>4

-----------------------------------------------------------------------------
(* The pointers to an entry of the inode cache.                            *)

Dirs(s)   == {p \in Procs : cwd[p] = s}
Opens(s)  == {f \in Files : ftable[f].type = "inode" /\ ftable[f].ip = s}
Paths(s)  == {p \in Procs : ip[p] = s}
Nexts(s)  == {p \in Procs : pc[p] # "new" /\ nxt[p] = s}

LEMMA PointersAre ==
    ASSUME NEW s
    PROVE  /\ Pointers(s) = Cardinality(Dirs(s)) + Cardinality(Opens(s)) + Cardinality(Paths(s)) + Cardinality(Nexts(s))
           /\ Cardinality(Dirs(s)) \in Nat /\ Cardinality(Opens(s)) \in Nat
           /\ Cardinality(Paths(s)) \in Nat /\ Cardinality(Nexts(s)) \in Nat
<1>1. Dirs(s) \in SUBSET Procs /\ Opens(s) \in SUBSET Files /\ Paths(s) \in SUBSET Procs /\ Nexts(s) \in SUBSET Procs
  BY DEF Dirs, Opens, Paths, Nexts
<1>2. /\ Cardinality(Dirs(s)) \in Nat /\ Cardinality(Opens(s)) \in Nat
      /\ Cardinality(Paths(s)) \in Nat /\ Cardinality(Nexts(s)) \in Nat
  BY <1>1, Finite, AtLeastOne
<1> QED
  BY <1>2 DEF Pointers, Dirs, Opens, Paths, Nexts

\* A step of one process, on one open file at most, changes the number of
\* pointers by what it does to its own.
LEMMA PointersStep ==
    ASSUME NEW p \in Procs, NEW f \in Files, NEW s,
           \A q \in Procs \ {p} : cwd'[q] = cwd[q] /\ ip'[q] = ip[q] /\ nxt'[q] = nxt[q] /\ pc'[q] = pc[q],
           \A g \in Files \ {f} : ftable'[g].type = ftable[g].type /\ ftable'[g].ip = ftable[g].ip
    PROVE  /\ Pointers(s) \in Nat /\ Pointers(s)' \in Nat
           /\ Pointers(s)' = Pointers(s)
                + (One(cwd'[p] = s) - One(cwd[p] = s)) + (One(ip'[p] = s) - One(ip[p] = s))
                + (One(pc'[p] # "new" /\ nxt'[p] = s) - One(pc[p] # "new" /\ nxt[p] = s))
                + (One(ftable'[f].type = "inode" /\ ftable'[f].ip = s) - One(ftable[f].type = "inode" /\ ftable[f].ip = s))
<1> DEFINE D == {q \in Procs : cwd'[q] = s}
           O == {g \in Files : ftable'[g].type = "inode" /\ ftable'[g].ip = s}
           P == {q \in Procs : ip'[q] = s}
           N == {q \in Procs : pc'[q] # "new" /\ nxt'[q] = s}
<1>1. Pointers(s)' = Cardinality(D) + Cardinality(O) + Cardinality(P) + Cardinality(N)
  BY DEF Pointers
<1>2. PICK a2 \in {0, 1}, b2 \in {0, 1} :
           /\ a2 = One(cwd'[p] = s) /\ b2 = One(cwd[p] = s)
           /\ Cardinality(D) \in Nat /\ Cardinality(D) = Cardinality(Dirs(s)) + a2 - b2
  <2>1. D \in SUBSET Procs /\ Dirs(s) \in SUBSET Procs /\ \A y \in Procs : y # p => (y \in Dirs(s) <=> y \in D)
    BY DEF Dirs
  <2>2. /\ Cardinality(D) \in Nat /\ Cardinality(Dirs(s)) \in Nat
        /\ Cardinality(D) = Cardinality(Dirs(s)) + One(p \in D) - One(p \in Dirs(s))
    BY <2>1, Finite, OneChange
  <2>3. (p \in D <=> cwd'[p] = s) /\ (p \in Dirs(s) <=> cwd[p] = s)
    BY DEF Dirs
  <2> HIDE DEF D
  <2> QED
    BY <2>2, <2>3 DEF One
<1>3. PICK a3 \in {0, 1}, b3 \in {0, 1} :
           /\ a3 = One(ip'[p] = s) /\ b3 = One(ip[p] = s)
           /\ Cardinality(P) \in Nat /\ Cardinality(P) = Cardinality(Paths(s)) + a3 - b3
  <2>1. P \in SUBSET Procs /\ Paths(s) \in SUBSET Procs /\ \A y \in Procs : y # p => (y \in Paths(s) <=> y \in P)
    BY DEF Paths
  <2>2. /\ Cardinality(P) \in Nat /\ Cardinality(Paths(s)) \in Nat
        /\ Cardinality(P) = Cardinality(Paths(s)) + One(p \in P) - One(p \in Paths(s))
    BY <2>1, Finite, OneChange
  <2>3. (p \in P <=> ip'[p] = s) /\ (p \in Paths(s) <=> ip[p] = s)
    BY DEF Paths
  <2> HIDE DEF P
  <2> QED
    BY <2>2, <2>3 DEF One
<1>4. PICK a4 \in {0, 1}, b4 \in {0, 1} :
           /\ a4 = One((pc'[p] # "new" /\ nxt'[p] = s)) /\ b4 = One((pc[p] # "new" /\ nxt[p] = s))
           /\ Cardinality(N) \in Nat /\ Cardinality(N) = Cardinality(Nexts(s)) + a4 - b4
  <2>1. N \in SUBSET Procs /\ Nexts(s) \in SUBSET Procs /\ \A y \in Procs : y # p => (y \in Nexts(s) <=> y \in N)
    BY DEF Nexts
  <2>2. /\ Cardinality(N) \in Nat /\ Cardinality(Nexts(s)) \in Nat
        /\ Cardinality(N) = Cardinality(Nexts(s)) + One(p \in N) - One(p \in Nexts(s))
    BY <2>1, Finite, OneChange
  <2>3. (p \in N <=> (pc'[p] # "new" /\ nxt'[p] = s)) /\ (p \in Nexts(s) <=> (pc[p] # "new" /\ nxt[p] = s))
    BY DEF Nexts
  <2> HIDE DEF N
  <2> QED
    BY <2>2, <2>3 DEF One
<1>5. PICK a5 \in {0, 1}, b5 \in {0, 1} :
           /\ a5 = One((ftable'[f].type = "inode" /\ ftable'[f].ip = s)) /\ b5 = One((ftable[f].type = "inode" /\ ftable[f].ip = s))
           /\ Cardinality(O) \in Nat /\ Cardinality(O) = Cardinality(Opens(s)) + a5 - b5
  <2>1. O \in SUBSET Files /\ Opens(s) \in SUBSET Files /\ \A y \in Files : y # f => (y \in Opens(s) <=> y \in O)
    BY DEF Opens
  <2>2. /\ Cardinality(O) \in Nat /\ Cardinality(Opens(s)) \in Nat
        /\ Cardinality(O) = Cardinality(Opens(s)) + One(f \in O) - One(f \in Opens(s))
    BY <2>1, Finite, OneChange
  <2>3. (f \in O <=> (ftable'[f].type = "inode" /\ ftable'[f].ip = s)) /\ (f \in Opens(s) <=> (ftable[f].type = "inode" /\ ftable[f].ip = s))
    BY DEF Opens
  <2> HIDE DEF O
  <2> QED
    BY <2>2, <2>3 DEF One
<1> HIDE DEF D, O, P, N
<1>6. /\ Pointers(s) \in Nat /\ Pointers(s)' \in Nat
      /\ Pointers(s)' = Pointers(s) + (a2 - b2) + (a3 - b3) + (a4 - b4) + (a5 - b5)
  <2>1. PICK m \in Nat : m = Pointers(s)'
    BY <1>1, <1>2, <1>3, <1>4, <1>5
  <2>2. PICK n2 \in Nat, n3 \in Nat, n4 \in Nat, n5 \in Nat :
             /\ n2 = Cardinality(Dirs(s)) /\ n3 = Cardinality(Paths(s))
             /\ n4 = Cardinality(Nexts(s)) /\ n5 = Cardinality(Opens(s))
    BY PointersAre
  <2>3. Pointers(s) = n2 + n5 + n3 + n4
    BY <2>2, PointersAre
  <2>4. m = (n2 + a2 - b2) + (n5 + a5 - b5) + (n3 + a3 - b3) + (n4 + a4 - b4)
    BY <1>1, <1>2, <1>3, <1>4, <1>5, <2>1, <2>2
  <2> QED
    BY <2>1, <2>3, <2>4
<1> QED
  BY <1>2, <1>3, <1>4, <1>5, <1>6

\* Whoever has a pointer to an entry has it referenced.
LEMMA Referenced ==
    ASSUME Inv, NEW s \in Slots
    PROVE  /\ \A p \in Procs : cwd[p] = s \/ ip[p] = s \/ (pc[p] # "new" /\ nxt[p] = s) => icache[s].ref > 0
           /\ \A f \in Files : ftable[f].type = "inode" /\ ftable[f].ip = s => icache[s].ref > 0
           /\ leaked[s] > 0 => icache[s].ref > 0
<1>1. Dirs(s) \in SUBSET Procs /\ Opens(s) \in SUBSET Files /\ Paths(s) \in SUBSET Procs /\ Nexts(s) \in SUBSET Procs
  BY DEF Dirs, Opens, Paths, Nexts
<1>2. /\ Dirs(s) # {} => Cardinality(Dirs(s)) > 0
      /\ Opens(s) # {} => Cardinality(Opens(s)) > 0
      /\ Paths(s) # {} => Cardinality(Paths(s)) > 0
      /\ Nexts(s) # {} => Cardinality(Nexts(s)) > 0
  BY <1>1, Finite, AtLeastOne
<1>3. icache[s].ref = Pointers(s) + leaked[s] /\ leaked[s] \in Nat
  BY DEF Inv, RefsOK, Typed
<1>4. (Dirs(s) # {} \/ Opens(s) # {} \/ Paths(s) # {} \/ Nexts(s) # {} \/ leaked[s] > 0) => icache[s].ref > 0
  BY <1>2, <1>3, PointersAre
<1> QED
  BY <1>4 DEF Dirs, Opens, Paths, Nexts

\* Nobody but the process that creates it knows a new inode.
LEMMA Lonely ==
    ASSUME Inv, NEW p \in Procs, pc[p] = "link"
    PROVE  /\ nxt[p] \in Slots /\ icache[nxt[p]].ref = 1 /\ leaked[nxt[p]] = 0
           /\ \A q \in Procs : cwd[q] # nxt[p] /\ ip[q] # nxt[p]
           /\ \A q \in Procs : q # p /\ pc[q] # "new" => nxt[q] # nxt[p]
           /\ \A f \in Files : ~ (ftable[f].type = "inode" /\ ftable[f].ip = nxt[p])
<1>1. PICK s \in Slots : s = nxt[p]
  BY DEF Inv, ProcOK
<1>2. icache[s].ref = 1
  BY <1>1 DEF Inv, Known
<1>3. Dirs(s) \in SUBSET Procs /\ Opens(s) \in SUBSET Files /\ Paths(s) \in SUBSET Procs /\ Nexts(s) \in SUBSET Procs
  BY DEF Dirs, Opens, Paths, Nexts
<1>4. /\ Dirs(s) # {} => Cardinality(Dirs(s)) > 0
      /\ Opens(s) # {} => Cardinality(Opens(s)) > 0
      /\ Paths(s) # {} => Cardinality(Paths(s)) > 0
      /\ Nexts(s) # {} => Cardinality(Nexts(s)) > 0
      /\ \A x, y \in Nexts(s) : Cardinality(Nexts(s)) = 1 => x = y
  BY <1>3, Finite, AtLeastOne
<1>5. icache[s].ref = Pointers(s) + leaked[s] /\ leaked[s] \in Nat
  BY DEF Inv, RefsOK, Typed
<1>6. p \in Nexts(s)
  BY <1>1 DEF Nexts
<1>7. /\ Cardinality(Nexts(s)) = 1 /\ leaked[s] = 0
      /\ Cardinality(Dirs(s)) = 0 /\ Cardinality(Opens(s)) = 0 /\ Cardinality(Paths(s)) = 0
  BY <1>2, <1>4, <1>5, <1>6, PointersAre
<1>8. Dirs(s) = {} /\ Opens(s) = {} /\ Paths(s) = {} /\ \A x \in Nexts(s) : x = p
  BY <1>4, <1>6, <1>7
<1> QED
  BY <1>1, <1>2, <1>7, <1>8 DEF Dirs, Opens, Paths, Nexts

-----------------------------------------------------------------------------
(* What the operations of the inode cache do.                              *)

\* Entries that are referenced stand for the same inode, and valid ones say the
\* same of it, but that it may have grown.
Keeps(ic, jc) ==
    \A s \in Slots : ic[s].ref > 0 =>
        /\ jc[s].inum = ic[s].inum
        /\ ic[s].valid => jc[s].valid /\ jc[s].type = ic[s].type /\ jc[s].size >= ic[s].size

\* An operation of process p on the cache that leaves the entries alone that
\* others are about to link, and takes entries for linked inodes only.
CacheStep(p, jc) ==
    /\ CacheOK(jc, dinode) /\ Keeps(icache, jc)
    /\ \A q \in Procs : q # p /\ pc[q] = "link" => jc[nxt[q]] = icache[nxt[q]]
    /\ \A s \in Slots : jc[s].ref > 0 => icache[s].ref > 0 \/ dinode[jc[s].inum].nlink > 0

\* iget() finds the entry of the inode, or takes an empty one.
LEMMA EntryOf ==
    ASSUME NEW ic \in [Slots -> Inodes], NEW i \in Inums, CanGet(ic, i)
    PROVE  /\ Entry(ic, i) \in Slots
           /\ ic[Entry(ic, i)].ref > 0 => ic[Entry(ic, i)].inum = i /\ Hits(ic, i) # {}
           /\ ic[Entry(ic, i)].ref = 0 => Hits(ic, i) = {}
<1>1. Hits(ic, i) \in SUBSET Nat /\ Empty(ic) \in SUBSET Nat
  BY Ranges DEF Hits, Empty
<1>2. CASE Hits(ic, i) # {}
  <2>1. Entry(ic, i) \in Hits(ic, i)
    BY <1>1, <1>2, Lowest DEF Entry
  <2> QED
    BY <1>2, <2>1 DEF Hits
<1>3. CASE Hits(ic, i) = {}
  <2>1. Entry(ic, i) \in Empty(ic)
    BY <1>1, <1>3, Lowest DEF Entry, CanGet
  <2> QED
    BY <1>3, <2>1 DEF Empty
<1> QED
  BY <1>2, <1>3

\* The cache after iget(): one reference more.
LEMMA GotIs ==
    ASSUME NEW ic \in [Slots -> Inodes], NEW i \in Inums, CanGet(ic, i)
    PROVE  LET e == Entry(ic, i)  g == Got(ic, i) IN
           /\ e \in Slots /\ g \in [Slots -> Inodes]
           /\ \A s \in Slots : s # e => g[s] = ic[s]
           /\ g[e].inum = i /\ g[e].ref = ic[e].ref + 1
           /\ ic[e].ref > 0 => /\ ic[e].inum = i /\ g[e].valid = ic[e].valid
                               /\ g[e].type = ic[e].type /\ g[e].nlink = ic[e].nlink /\ g[e].size = ic[e].size
           /\ ic[e].ref = 0 => ~ g[e].valid /\ \A s \in Slots : ic[s].ref > 0 => ic[s].inum # i
<1>1. PICK e \in Slots : e = Entry(ic, i)
  BY EntryOf
<1>2. PICK g : g = Got(ic, i)
  OBVIOUS
<1>3. /\ ic[e].ref > 0 => ic[e].inum = i /\ Hits(ic, i) # {}
      /\ ic[e].ref = 0 => Hits(ic, i) = {}
      /\ ic[e] \in Inodes /\ ic[e].ref \in Nat
  BY <1>1, EntryOf DEF Inodes
<1>4. CASE ic[e].ref > 0
  <2>1. PICK n : n = [ic[e] EXCEPT !.ref = ic[e].ref + 1]
    OBVIOUS
  <2>2. g = [ic EXCEPT ![e] = n]
    <3>1. Hits(ic, i) # {}
      BY <1>3, <1>4
    <3>2. Got(ic, i) = [ic EXCEPT ![e] = [ic[e] EXCEPT !.ref = ic[e].ref + 1]]
      BY <1>1, <3>1 DEF Got
    <3> QED
      BY <1>2, <2>1, <3>2
  <2>3. /\ n \in Inodes /\ n.ref = ic[e].ref + 1 /\ n.inum = ic[e].inum /\ n.valid = ic[e].valid
        /\ n.type = ic[e].type /\ n.nlink = ic[e].nlink /\ n.size = ic[e].size
    BY <1>3, <2>1 DEF Inodes
  <2>4. g \in [Slots -> Inodes] /\ g[e] = n /\ \A s \in Slots : s # e => g[s] = ic[s]
    BY <2>2, <2>3
  <2> QED
    BY <1>1, <1>2, <1>3, <1>4, <2>3, <2>4
<1>5. CASE ic[e].ref = 0
  <2>1. PICK n : n = [ic[e] EXCEPT !.inum = i, !.ref = 1, !.size = 0, !.valid = FALSE]
    OBVIOUS
  <2>2. g = [ic EXCEPT ![e] = n]
    BY <1>1, <1>2, <1>3, <1>5, <2>1 DEF Got
  <2>3. n \in Inodes /\ n.ref = 1 /\ n.inum = i /\ ~ n.valid
    BY <1>3, <2>1, Ranges DEF Inodes
  <2>4. g \in [Slots -> Inodes] /\ g[e] = n /\ \A s \in Slots : s # e => g[s] = ic[s]
    BY <2>2, <2>3
  <2>5. \A s \in Slots : ic[s].ref > 0 => ic[s].inum # i
    BY <1>3, <1>5 DEF Hits
  <2> QED
    BY <1>1, <1>2, <1>3, <1>5, <2>3, <2>4, <2>5
<1> QED
  BY <1>3, <1>4, <1>5

\* The cache after ilock() of an entry that is referenced.
LEMMA LoadedIs ==
    ASSUME Inv, NEW s \in Slots, icache[s].ref > 0
    PROVE  /\ Loaded(s) \in [Slots -> Inodes]
           /\ \A t \in Slots : t # s => Loaded(s)[t] = icache[t]
           /\ Loaded(s)[s].inum = icache[s].inum /\ Loaded(s)[s].ref = icache[s].ref /\ Loaded(s)[s].valid
           /\ dinode[icache[s].inum] = [type |-> Loaded(s)[s].type, nlink |-> Loaded(s)[s].nlink, size |-> Loaded(s)[s].size]
           /\ icache[s].valid => Loaded(s) = icache
<1>1. PICK i \in Inums : i = icache[s].inum
  BY DEF Inv, CacheOK
<1>2. dinode[i] \in Dinodes /\ icache[s] \in Inodes /\ icache \in [Slots -> Inodes]
  BY DEF Inv, Typed
<1>3. CASE icache[s].valid
  <2>1. Loaded(s) = icache
    BY <1>3 DEF Loaded
  <2> QED
    BY <1>2, <1>3, <2>1 DEF Inv, CacheOK
<1>4. CASE ~ icache[s].valid
  <2>1. PICK n : n = [inum |-> icache[s].inum, ref |-> icache[s].ref, valid |-> TRUE,
                      type |-> dinode[i].type, nlink |-> dinode[i].nlink, size |-> dinode[i].size]
    OBVIOUS
  <2>2. Loaded(s) = [icache EXCEPT ![s] = n]
    BY <1>1, <1>4, <2>1 DEF Loaded
  <2>3. n \in Inodes /\ n.valid
    BY <1>2, <2>1 DEF Inodes, Dinodes
  <2>4. dinode[i] = [type |-> n.type, nlink |-> n.nlink, size |-> n.size]
    BY <1>2, <2>1 DEF Dinodes
  <2>5. Loaded(s) \in [Slots -> Inodes] /\ Loaded(s)[s] = n /\ \A t \in Slots : t # s => Loaded(s)[t] = icache[t]
    BY <1>2, <2>2, <2>3
  <2> QED
    BY <1>1, <1>4, <2>1, <2>3, <2>4, <2>5
<1> QED
  BY <1>3, <1>4

\* One reference more, and one less, to an entry.
LEMMA DupPutIs ==
    ASSUME NEW ic \in [Slots -> Inodes], NEW s \in Slots, NEW jc,
           jc = idup(ic, s) \/ (jc = iput(ic, s) /\ ic[s].ref > 0)
    PROVE  /\ jc \in [Slots -> Inodes]
           /\ \A t \in Slots : t # s => jc[t] = ic[t]
           /\ jc[s].inum = ic[s].inum /\ jc[s].valid = ic[s].valid /\ jc[s].type = ic[s].type
           /\ jc[s].nlink = ic[s].nlink /\ jc[s].size = ic[s].size
           /\ jc = idup(ic, s) => jc[s].ref = ic[s].ref + 1
           /\ jc = iput(ic, s) /\ ic[s].ref > 0 => jc[s].ref = ic[s].ref - 1
<1>1. ic[s] \in Inodes /\ ic[s].ref \in Nat
  BY DEF Inodes
<1>2. PICK r \in Nat : /\ jc = [ic EXCEPT ![s] = [ic[s] EXCEPT !.ref = r]]
                       /\ jc = idup(ic, s) => r = ic[s].ref + 1
                       /\ jc = iput(ic, s) /\ ic[s].ref > 0 => r = ic[s].ref - 1
  <2>1. jc = idup(ic, s) => jc = [ic EXCEPT ![s] = [ic[s] EXCEPT !.ref = ic[s].ref + 1]]
    BY DEF idup
  <2>2. jc = iput(ic, s) => jc = [ic EXCEPT ![s] = [ic[s] EXCEPT !.ref = ic[s].ref - 1]]
    BY DEF iput
  <2>3. idup(ic, s) # iput(ic, s)
    <3>1. idup(ic, s)[s].ref = ic[s].ref + 1 /\ iput(ic, s)[s].ref = ic[s].ref - 1
      BY <1>1 DEF idup, iput, Inodes
    <3> QED
      BY <1>1, <3>1
  <2>4. CASE jc = idup(ic, s)
    BY <1>1, <2>1, <2>3, <2>4
  <2>5. CASE jc = iput(ic, s) /\ ic[s].ref > 0
    <3>1. ic[s].ref - 1 \in Nat
      BY <1>1, <2>5
    <3> QED
      BY <2>2, <2>3, <2>5, <3>1
  <2> QED
    BY <2>4, <2>5
<1>3. PICK n : n = [ic[s] EXCEPT !.ref = r]
  OBVIOUS
<1>4. /\ n \in Inodes /\ n.ref = r /\ n.inum = ic[s].inum /\ n.valid = ic[s].valid
      /\ n.type = ic[s].type /\ n.nlink = ic[s].nlink /\ n.size = ic[s].size
  BY <1>1, <1>3 DEF Inodes
<1>5. jc \in [Slots -> Inodes] /\ jc[s] = n /\ \A t \in Slots : t # s => jc[t] = ic[t]
  BY <1>2, <1>3, <1>4
<1> QED
  BY <1>2, <1>4, <1>5

-----------------------------------------------------------------------------
(* The operations of one process keep the cache coherent.                  *)

\* Nothing changes.
LEMMA StepNone ==
    ASSUME Inv, NEW p \in Procs
    PROVE  CacheStep(p, icache)
<1>1. \A s \in Slots : icache[s].size \in Nat
  BY Sizes DEF Inv, Typed, Inodes
<1>2. \A s \in Slots : icache[s].size >= icache[s].size
  BY <1>1
<1>3. Keeps(icache, icache)
  BY <1>2 DEF Keeps
<1> QED
  BY <1>3 DEF Inv, CacheStep

\* ilock() of an entry a process points to.
LEMMA StepLoaded ==
    ASSUME Inv, NEW p \in Procs, NEW s \in Slots, icache[s].ref > 0,
           \A q \in Procs : q # p /\ pc[q] = "link" => nxt[q] # s
    PROVE  CacheStep(p, Loaded(s))
<1>1. PICK jc : jc = Loaded(s)
  OBVIOUS
<1>2. /\ jc \in [Slots -> Inodes]
      /\ \A t \in Slots : t # s => jc[t] = icache[t]
      /\ jc[s].inum = icache[s].inum /\ jc[s].ref = icache[s].ref /\ jc[s].valid
      /\ dinode[icache[s].inum] = [type |-> jc[s].type, nlink |-> jc[s].nlink, size |-> jc[s].size]
      /\ icache[s].valid => jc = icache
  BY <1>1, LoadedIs
<1>3. CacheOK(icache, dinode) /\ \A t \in Slots : icache[t].size \in Nat
  BY Sizes DEF Inv, Typed, Inodes
<1>4. CacheOK(jc, dinode)
  <2>1. \A t \in Slots : jc[t].ref = icache[t].ref /\ jc[t].inum = icache[t].inum
    BY <1>2
  <2>2. \A t \in Slots : jc[t].ref > 0 =>
         /\ jc[t].inum \in Inums /\ dinode[jc[t].inum].type # "free"
         /\ jc[t].valid => dinode[jc[t].inum] = [type |-> jc[t].type, nlink |-> jc[t].nlink, size |-> jc[t].size]
    <3> SUFFICES ASSUME NEW t \in Slots, jc[t].ref > 0
                 PROVE  /\ jc[t].inum \in Inums /\ dinode[jc[t].inum].type # "free"
                        /\ jc[t].valid => dinode[jc[t].inum] = [type |-> jc[t].type, nlink |-> jc[t].nlink, size |-> jc[t].size]
      OBVIOUS
    <3>1. icache[t].ref > 0 /\ jc[t].inum = icache[t].inum
      BY <2>1
    <3>2. icache[t].inum \in Inums /\ dinode[icache[t].inum].type # "free"
      BY <1>3, <3>1 DEF CacheOK
    <3>3. CASE t = s
      BY <1>2, <3>1, <3>2, <3>3
    <3>4. CASE t # s
      <4>1. jc[t] = icache[t]
        BY <1>2, <3>4
      <4> QED
        BY <1>3, <3>1, <3>2, <4>1 DEF CacheOK
    <3> QED
      BY <3>3, <3>4
  <2>3. \A t, u \in Slots : jc[t].ref > 0 /\ jc[u].ref > 0 /\ jc[t].inum = jc[u].inum => t = u
    BY <1>3, <2>1 DEF CacheOK
  <2> QED
    BY <1>2, <2>2, <2>3 DEF CacheOK
<1>5. Keeps(icache, jc)
  BY <1>2, <1>3 DEF Keeps
<1>6. \A q \in Procs : q # p /\ pc[q] = "link" => jc[nxt[q]] = icache[nxt[q]]
  BY <1>2, Lonely
<1>7. \A t \in Slots : jc[t].ref > 0 => icache[t].ref > 0
  BY <1>2
<1> QED
  BY <1>1, <1>4, <1>5, <1>6, <1>7 DEF CacheStep

\* idup() or iput() of an entry a process points to.
LEMMA StepDupPut ==
    ASSUME Inv, NEW p \in Procs, NEW s \in Slots, icache[s].ref > 0, NEW jc, jc = idup(icache, s) \/ jc = iput(icache, s),
           \A q \in Procs : q # p /\ pc[q] = "link" => nxt[q] # s
    PROVE  CacheStep(p, jc)
<1>1. icache \in [Slots -> Inodes] /\ CacheOK(icache, dinode) /\ \A t \in Slots : icache[t].size \in Nat
  <2>1. icache \in [Slots -> Inodes]
    BY DEF Inv, Typed
  <2>2. \A t \in Slots : icache[t].size \in 0..MAXFILE
    BY <2>1 DEF Inodes
  <2> QED
    BY <2>1, <2>2, Sizes DEF Inv
<1>2. /\ jc \in [Slots -> Inodes]
      /\ \A t \in Slots : t # s => jc[t] = icache[t]
      /\ jc[s].inum = icache[s].inum /\ jc[s].valid = icache[s].valid /\ jc[s].type = icache[s].type
      /\ jc[s].nlink = icache[s].nlink /\ jc[s].size = icache[s].size
  BY <1>1, DupPutIs
<1>3. \A t \in Slots : jc[t].ref > 0 => icache[t].ref > 0
  BY <1>2
<1>4. \A t \in Slots : jc[t].inum = icache[t].inum /\ jc[t].valid = icache[t].valid /\ jc[t].type = icache[t].type
                       /\ jc[t].nlink = icache[t].nlink /\ jc[t].size = icache[t].size
  BY <1>2
<1>5. CacheOK(jc, dinode)
  BY <1>1, <1>2, <1>3, <1>4 DEF CacheOK
<1>6. Keeps(icache, jc)
  BY <1>1, <1>4 DEF Keeps
<1>7. \A q \in Procs : q # p /\ pc[q] = "link" => jc[nxt[q]] = icache[nxt[q]]
  BY <1>2, Lonely
<1> QED
  BY <1>3, <1>5, <1>6, <1>7 DEF CacheStep

\* iget() of a linked inode, after what has been done to the cache before.
LEMMA StepGot ==
    ASSUME Inv, NEW p \in Procs, NEW ic, CacheStep(p, ic), NEW i \in Inums, CanGet(ic, i),
           dinode[i].nlink > 0, dinode[i].type # "free",
           \A s \in Slots : ic[s].ref = icache[s].ref
    PROVE  CacheStep(p, Got(ic, i))
<1>1. ic \in [Slots -> Inodes] /\ CacheOK(ic, dinode)
  BY DEF CacheStep, CacheOK
<1>2. PICK e, g : e = Entry(ic, i) /\ g = Got(ic, i)
  OBVIOUS
<1>3. /\ e \in Slots /\ g \in [Slots -> Inodes]
      /\ \A s \in Slots : s # e => g[s] = ic[s]
      /\ g[e].inum = i /\ g[e].ref = ic[e].ref + 1
      /\ ic[e].ref > 0 => /\ ic[e].inum = i /\ g[e].valid = ic[e].valid
                          /\ g[e].type = ic[e].type /\ g[e].nlink = ic[e].nlink /\ g[e].size = ic[e].size
      /\ ic[e].ref = 0 => ~ g[e].valid /\ \A s \in Slots : ic[s].ref > 0 => ic[s].inum # i
  BY <1>1, <1>2, GotIs
<1>4. \A s \in Slots : ic[s].ref \in Nat /\ ic[s].size \in Nat
  BY <1>1, Sizes DEF Inodes
<1>5. CASE ic[e].ref > 0
  <2>1. \A s \in Slots : g[s].ref > 0 => ic[s].ref > 0
    BY <1>3, <1>5
  <2>2. \A s \in Slots : g[s].inum = ic[s].inum /\ g[s].valid = ic[s].valid /\ g[s].type = ic[s].type
                         /\ g[s].nlink = ic[s].nlink /\ g[s].size = ic[s].size
    BY <1>3, <1>5
  <2>3. CacheOK(g, dinode)
    BY <1>1, <1>3, <2>1, <2>2 DEF CacheOK
  <2>4. Keeps(icache, g)
    BY <2>2 DEF CacheStep, Keeps
  <2>5. \A q \in Procs : q # p /\ pc[q] = "link" => g[nxt[q]] = icache[nxt[q]]
    <3> SUFFICES ASSUME NEW q \in Procs, q # p, pc[q] = "link" PROVE g[nxt[q]] = icache[nxt[q]]
      OBVIOUS
    <3>1. nxt[q] \in Slots /\ ic[nxt[q]] = icache[nxt[q]]
      BY Lonely DEF CacheStep
    <3>2. dinode[icache[nxt[q]].inum].nlink = 0
      <4>1. dinode[icache[nxt[q]].inum] = NewDinode(q)
        BY DEF Inv, Known
      <4> QED
        BY <4>1 DEF NewDinode
    <3>3. nxt[q] # e
      BY <1>3, <1>5, <3>1, <3>2
    <3> QED
      BY <1>3, <3>1, <3>3
  <2>6. \A s \in Slots : g[s].ref > 0 => icache[s].ref > 0 \/ dinode[g[s].inum].nlink > 0
    BY <2>1
  <2> QED
    BY <1>2, <2>3, <2>4, <2>5, <2>6 DEF CacheStep
<1>6. CASE ic[e].ref = 0
  <2>1. \A s \in Slots : g[s].ref > 0 => s = e \/ (ic[s].ref > 0 /\ g[s] = ic[s])
    BY <1>3
  <2>2. CacheOK(g, dinode)
    <3>1. ASSUME NEW s \in Slots, g[s].ref > 0
          PROVE  /\ g[s].inum \in Inums /\ dinode[g[s].inum].type # "free"
                 /\ g[s].valid => dinode[g[s].inum] = [type |-> g[s].type, nlink |-> g[s].nlink, size |-> g[s].size]
      BY <1>1, <1>3, <1>6, <2>1, <3>1 DEF CacheOK
    <3>2. \A s, t \in Slots : g[s].ref > 0 /\ g[t].ref > 0 /\ g[s].inum = g[t].inum => s = t
      BY <1>1, <1>3, <1>6, <2>1 DEF CacheOK
    <3> QED
      BY <1>3, <3>1, <3>2 DEF CacheOK
  <2>3. Keeps(icache, g)
    BY <1>3, <1>6 DEF CacheStep, Keeps
  <2>4. \A q \in Procs : q # p /\ pc[q] = "link" => g[nxt[q]] = icache[nxt[q]]
    <3> SUFFICES ASSUME NEW q \in Procs, q # p, pc[q] = "link" PROVE g[nxt[q]] = icache[nxt[q]]
      OBVIOUS
    <3>1. nxt[q] \in Slots /\ ic[nxt[q]] = icache[nxt[q]] /\ icache[nxt[q]].ref = 1
      BY Lonely DEF CacheStep
    <3>2. nxt[q] # e
      BY <1>6, <3>1
    <3> QED
      BY <1>3, <3>1, <3>2
  <2>5. \A s \in Slots : g[s].ref > 0 => icache[s].ref > 0 \/ dinode[g[s].inum].nlink > 0
    BY <1>3, <2>1
  <2> QED
    BY <1>2, <2>2, <2>3, <2>4, <2>5 DEF CacheStep
<1> QED
  BY <1>3, <1>4, <1>5, <1>6

-----------------------------------------------------------------------------
(* A step of one process, and what it leaves alone.                        *)

\* Only process p moves.
Alone(p) ==
    \A q \in Procs : q # p =>
        /\ pc'[q] = pc[q] /\ kind'[q] = kind[q] /\ elems'[q] = elems[q] /\ ip'[q] = ip[q]
        /\ nxt'[q] = nxt[q] /\ io'[q] = io[q] /\ cwd'[q] = cwd[q] /\ ofile'[q] = ofile[q]

\* Open files stay open, with the same inode, or are leaked.
FilesStay ==
    /\ \A s \in Slots : leaked[s] > 0 => leaked'[s] > 0
    /\ \A f \in Files : ftable[f].type = "inode" =>
          /\ ftable'[f].ip = ftable[f].ip
          /\ ftable'[f].type = "inode" \/ leaked'[ftable[f].ip] > 0

LEMMA ProcOthers ==
    ASSUME Inv, NEW p \in Procs, Alone(p), NEW q \in Procs, q # p
    PROVE  ProcOK(q)'
  BY DEF Inv, ProcOK, Alone

\* The open files of a process that reads or writes are open.
LEMMA IoFile ==
    ASSUME Inv, NEW p \in Procs, pc[p] \in {"io", "dev"}
    PROVE  /\ io[p].file \in Files /\ ftable[io[p].file].type = "inode"
           /\ ftable[io[p].file].ip \in Slots /\ icache[ftable[io[p].file].ip].valid
           /\ icache[ftable[io[p].file].ip].ref > 0
<1>1. PICK d \in Fds : io[p].file \in Files /\ ofile[p][d] = io[p].file
  BY DEF Inv, ProcOK
<1>2. PICK f \in Files : f = io[p].file
  BY <1>1
<1>3. ftable[f].ref > 0
  <2> DEFINE A == {x \in Procs \X Fds : ofile[x[1]][x[2]] = f}
  <2>1. A \in SUBSET (Procs \X Fds) /\ <<p, d>> \in A
    BY <1>1, <1>2
  <2>2. ftable[f].ref = Cardinality(A)
    BY DEF Inv, FilesOK
  <2> HIDE DEF A
  <2> QED
    BY <2>1, <2>2, Finite, AtLeastOne
<1>4. ftable[f].type = "inode"
  BY <1>3 DEF Inv, FilesOK
<1>5. ftable[f].ip \in Slots /\ icache[ftable[f].ip].valid
  BY <1>4 DEF Inv, OpenOK
<1> QED
  BY <1>2, <1>4, <1>5, Referenced

\* What a process that does not move knows stays true.
LEMMA KnownOthers ==
    ASSUME Inv, NEW p \in Procs, Alone(p), NEW q \in Procs, q # p, Keeps(icache, icache'), FilesStay,
           pc[q] = "link" => /\ icache'[nxt[q]] = icache[nxt[q]]
                             /\ dinode'[icache[nxt[q]].inum] = dinode[icache[nxt[q]].inum],
           pc[q] = "new" => /\ dinode'[nxt[q]] = dinode[nxt[q]]
                            /\ \A s \in Slots : icache'[s].ref > 0 => icache'[s].inum # nxt[q],
           pc[q] \in {"new", "link"} => ents'[icache[ip[q]].inum] = ents[icache[ip[q]].inum]
    PROVE  Known(q)'
<1>1. /\ pc'[q] = pc[q] /\ kind'[q] = kind[q] /\ elems'[q] = elems[q] /\ ip'[q] = ip[q]
      /\ nxt'[q] = nxt[q] /\ io'[q] = io[q]
  BY DEF Alone
<1>2. Known(q) /\ ProcOK(q)
  BY DEF Inv
<1>3. pc[q] \in Walking => ip[q] \in Slots /\ icache[ip[q]].ref > 0
  BY <1>2, Referenced DEF ProcOK
<1>4. pc[q] \in Walking /\ icache[ip[q]].valid =>
         icache'[ip[q]].valid /\ icache'[ip[q]].type = icache[ip[q]].type /\ icache'[ip[q]].inum = icache[ip[q]].inum
  BY <1>3 DEF Keeps
<1>5. pc[q] \in {"parent", "new", "link"} => icache'[ip[q]].valid /\ icache'[ip[q]].type = "dir"
  BY <1>2, <1>4 DEF Known, Walking
<1>6. pc[q] \in {"new", "link"} => \A e \in ents'[icache'[ip[q]].inum] : e[1] # elems[q][1]
  BY <1>2, <1>4 DEF Known, Walking
<1>7. pc[q] = "new" => dinode'[nxt[q]] = NewDinode(q)
  BY <1>2 DEF Known
<1>8. pc[q] = "link" => /\ icache'[nxt[q]].ref = 1 /\ ~ icache'[nxt[q]].valid
                        /\ dinode'[icache'[nxt[q]].inum] = NewDinode(q)
  BY <1>2 DEF Known
<1>9. pc[q] = "linked" => icache'[nxt[q]].valid
  <2> SUFFICES ASSUME pc[q] = "linked" PROVE icache'[nxt[q]].valid
    OBVIOUS
  <2>1. nxt[q] \in Slots /\ icache[nxt[q]].valid
    BY <1>2 DEF ProcOK, Known
  <2>2. icache[nxt[q]].ref > 0
    BY <2>1, Referenced
  <2> QED
    BY <2>1, <2>2 DEF Keeps
<1>10. pc[q] = "locked" => icache'[ip[q]].valid
  BY <1>2, <1>4 DEF Known, Walking
<1>11. pc[q] = "dev" => icache'[ftable'[io[q].file].ip].type = "dev"
  <2> SUFFICES ASSUME pc[q] = "dev" PROVE icache'[ftable'[io[q].file].ip].type = "dev"
    OBVIOUS
  <2>1. /\ io[q].file \in Files /\ ftable[io[q].file].type = "inode"
        /\ ftable[io[q].file].ip \in Slots /\ icache[ftable[io[q].file].ip].valid
        /\ icache[ftable[io[q].file].ip].ref > 0
    BY IoFile
  <2>2. ftable'[io[q].file].ip = ftable[io[q].file].ip
    BY <2>1 DEF FilesStay
  <2>3. icache[ftable[io[q].file].ip].type = "dev"
    BY <1>2 DEF Known, Inode, File
  <2> QED
    BY <2>1, <2>2, <2>3 DEF Keeps
<1>12. NewDinode(q)' = NewDinode(q)
  BY <1>1 DEF NewDinode, NewType
<1> QED
  BY <1>1, <1>5, <1>6, <1>7, <1>8, <1>9, <1>10, <1>11, <1>12 DEF Known, Inode, File

\* Open files keep standing within the size of their inode.
LEMMA OpenKept ==
    ASSUME Inv, Typed', NEW f \in Files, Keeps(icache, icache'), ftable[f].type = "inode",
           ftable'[f].type = "inode", ftable'[f].ip = ftable[f].ip, ftable'[f].off = ftable[f].off
    PROVE  /\ ftable'[f].ip \in Slots /\ icache'[ftable'[f].ip].valid
           /\ icache'[ftable'[f].ip].type = "file" => ftable'[f].off <= icache'[ftable'[f].ip].size
<1>1. PICK s \in Slots : s = ftable[f].ip
  BY DEF Inv, OpenOK
<1>2. icache[s].ref > 0 /\ icache[s].valid /\ (icache[s].type = "file" => ftable[f].off <= icache[s].size)
  BY <1>1, Referenced DEF Inv, OpenOK
<1>3. icache'[s].valid /\ icache'[s].type = icache[s].type /\ icache'[s].size >= icache[s].size
  BY <1>2 DEF Keeps
<1>4. ftable[f].off \in Nat /\ icache[s].size \in Nat /\ icache'[s].size \in Nat
  <2>1. ftable[f] \in OpenFiles /\ icache[s] \in Inodes
    BY DEF Inv, Typed
  <2>2. icache'[s] \in Inodes
    BY DEF Typed
  <2> QED
    BY <2>1, <2>2, Sizes DEF OpenFiles, Inodes
<1> QED
  BY <1>1, <1>2, <1>3, <1>4

LEMMA OpenSame ==
    ASSUME Inv, Typed', ftable' = ftable, Keeps(icache, icache')
    PROVE  OpenOK'
<1> SUFFICES ASSUME NEW f \in Files, ftable'[f].type = "inode"
             PROVE  /\ ftable'[f].ip \in Slots /\ icache'[ftable'[f].ip].valid
                    /\ icache'[ftable'[f].ip].type = "file" => ftable'[f].off <= icache'[ftable'[f].ip].size
  BY DEF OpenOK
<1> QED
  BY OpenKept

-----------------------------------------------------------------------------
(* Who holds the locks of inodes.                                          *)

\* Locks change hands only between nobody and p.
LEMMA HoldStep ==
    ASSUME Inv, Typed', NEW p \in Procs, Alone(p), FilesStay, kept \subseteq kept',
           \A s \in Slots : holder'[s] # holder[s] =>
               /\ holder[s] \in {None, p} /\ s \notin kept /\ holder'[s] \in {None, p},
           \A s \in Slots : s \notin kept' /\ holder'[s] = p => Holding(p, s)',
           \A s \in Slots : Holding(p, s)' /\ pc'[p] # "panic" => holder'[s] = p /\ s \notin kept',
           \A s \in Slots : s \in kept' /\ s \notin kept =>
               /\ holder[s] = None /\ holder'[s] = p
               /\ leaked'[s] > 0 \/ \E f \in Files : ftable'[f].type = "inode" /\ ftable'[f].ip = s
    PROVE  HoldOK'
<1>1. \A q \in Procs : q # p => \A s \in Slots : Holding(q, s)' <=> Holding(q, s)
  BY DEF Alone, Holding
<1>2. HoldOK /\ kept \subseteq Slots /\ kept' \subseteq Slots /\ None \notin Procs
      /\ holder \in [Slots -> Procs \cup {None}] /\ holder' \in [Slots -> Procs \cup {None}]
  BY Sizes DEF Inv, Typed
<1>3. ASSUME NEW s \in Slots, s \notin kept', NEW q \in Procs, holder'[s] = q PROVE Holding(q, s)'
  <2>1. CASE q = p
    BY <1>3, <2>1
  <2>2. CASE q # p
    <3>1. holder[s] = q /\ s \notin kept
      BY <1>2, <1>3, <2>2
    <3>2. Holding(q, s)
      BY <1>2, <3>1 DEF HoldOK
    <3> QED
      BY <1>1, <2>2, <3>2
  <2> QED
    BY <2>1, <2>2
<1>4. ASSUME NEW s \in Slots, NEW q \in Procs, Holding(q, s)', pc'[q] # "panic" PROVE holder'[s] = q /\ s \notin kept'
  <2>1. CASE q = p
    BY <1>4, <2>1
  <2>2. CASE q # p
    <3>1. Holding(q, s) /\ pc[q] # "panic"
      BY <1>1, <1>4, <2>2 DEF Alone
    <3>2. holder[s] = q /\ s \notin kept
      BY <1>2, <3>1 DEF HoldOK
    <3> QED
      BY <1>2, <2>2, <3>2
  <2> QED
    BY <2>1, <2>2
<1>5. ASSUME NEW s \in kept'
      PROVE  /\ holder'[s] # None
             /\ leaked'[s] > 0 \/ \E f \in Files : ftable'[f].type = "inode" /\ ftable'[f].ip = s
  <2>1. s \in Slots
    BY <1>2
  <2>2. CASE s \in kept
    <3>1. holder[s] # None /\ holder'[s] = holder[s]
      BY <1>2, <2>1, <2>2 DEF HoldOK
    <3>2. leaked[s] > 0 \/ \E f \in Files : ftable[f].type = "inode" /\ ftable[f].ip = s
      BY <1>2, <2>2 DEF HoldOK
    <3>3. CASE leaked[s] > 0
      BY <2>1, <3>1, <3>3 DEF FilesStay
    <3>4. CASE \E f \in Files : ftable[f].type = "inode" /\ ftable[f].ip = s
      BY <3>1, <3>4 DEF FilesStay
    <3> QED
      BY <3>2, <3>3, <3>4
  <2>3. CASE s \notin kept
    BY <1>2, <1>5, <2>1, <2>3
  <2> QED
    BY <2>2, <2>3
<1> QED
  BY <1>3, <1>4, <1>5 DEF HoldOK

NoHold == {"user", "unused", "walk", "step", "parent", "exists", "chdir", "put", "fail", "io", "dev", "exit"}

\* A process that holds nothing takes nothing.
LEMMA HoldSame ==
    ASSUME Inv, Typed', NEW p \in Procs, Alone(p), FilesStay, UNCHANGED <<holder, kept>>,
           pc[p] \in NoHold, pc'[p] \in NoHold \/ (pc'[p] = "panic" /\ ip'[p] = 0)
    PROVE  HoldOK'
<1>1. \A s \in Slots : ~ Holding(p, s) /\ ~ Holding(p, s)'
  BY Ranges DEF Holding, NoHold
<1>2. \A s \in Slots : s \notin kept /\ holder[s] = p => FALSE
  BY <1>1, Sizes DEF Inv, HoldOK
<1> QED
  BY <1>1, <1>2, HoldStep

\* A process that holds nothing takes the lock of entry x.
LEMMA HoldTake ==
    ASSUME Inv, Typed', NEW p \in Procs, Alone(p), FilesStay, kept' = kept, NEW x \in Slots,
           Free(x), holder' = Set(holder, x, p), pc[p] \in NoHold,
           pc'[p] \in {"new", "link", "locked", "panic", "halt"}, ip'[p] = x
    PROVE  HoldOK'
<1>1. \A s \in Slots : Holding(p, s)' <=> s = x
  BY DEF Holding
<1>2. \A s \in Slots : ~ Holding(p, s)
  BY DEF Holding, NoHold
<1>3. \A s \in Slots : s \notin kept /\ holder[s] = p => FALSE
  BY <1>2, Sizes DEF Inv, HoldOK
<1>4. holder'[x] = p /\ \A s \in Slots : s # x => holder'[s] = holder[s]
  BY DEF Inv, Typed, Set
<1>5. x \notin kept /\ holder[x] = None
  BY DEF Inv, HoldOK, Free
<1>6. \A s \in Slots : holder'[s] # holder[s] => holder[s] \in {None, p} /\ s \notin kept /\ holder'[s] \in {None, p}
  BY <1>4, <1>5
<1>7. \A s \in Slots : s \notin kept' /\ holder'[s] = p => Holding(p, s)'
  BY <1>1, <1>3, <1>4
<1>8. \A s \in Slots : Holding(p, s)' /\ pc'[p] # "panic" => holder'[s] = p /\ s \notin kept'
  BY <1>1, <1>4, <1>5
<1> QED
  BY <1>6, <1>7, <1>8, HoldStep

\* A process releases the lock it holds.
LEMMA HoldDrop ==
    ASSUME Inv, Typed', NEW p \in Procs, Alone(p), FilesStay, kept' = kept, NEW x \in Slots,
           holder' = Set(holder, x, None), Holding(p, x), pc[p] # "panic", pc'[p] \in NoHold
    PROVE  HoldOK'
<1>1. \A s \in Slots : ~ Holding(p, s)'
  BY DEF Holding, NoHold
<1>2. \A s \in Slots : Holding(p, s) => s = x
  BY DEF Holding
<1>3. \A s \in Slots : s \notin kept /\ holder[s] = p => s = x
  BY <1>2, Sizes DEF Inv, HoldOK
<1>4. holder'[x] = None /\ \A s \in Slots : s # x => holder'[s] = holder[s]
  BY DEF Inv, Typed, Set
<1>5. x \notin kept /\ holder[x] = p
  BY DEF Inv, HoldOK
<1>6. \A s \in Slots : holder'[s] # holder[s] => holder[s] \in {None, p} /\ s \notin kept /\ holder'[s] \in {None, p}
  BY <1>4, <1>5
<1>7. \A s \in Slots : s \notin kept' /\ holder'[s] = p => FALSE
  BY <1>3, <1>4, Sizes
<1> QED
  BY <1>1, <1>6, <1>7, HoldStep

\* A process goes on with the lock it holds.
LEMMA HoldMove ==
    ASSUME Inv, Typed', NEW p \in Procs, Alone(p), FilesStay, UNCHANGED <<holder, kept>>, NEW x \in Slots,
           Holding(p, x), pc[p] # "panic", Holding(p, x)'
    PROVE  HoldOK'
<1>1. \A s \in Slots : Holding(p, s)' <=> s = x
  BY DEF Holding
<1>2. \A s \in Slots : Holding(p, s) => s = x
  BY DEF Holding
<1>3. \A s \in Slots : s \notin kept /\ holder[s] = p => s = x
  BY <1>2, Sizes DEF Inv, HoldOK
<1>4. x \notin kept /\ holder[x] = p
  BY DEF Inv, HoldOK
<1> QED
  BY <1>1, <1>3, <1>4, HoldStep

\* A call returns with the lock of entry x taken for good.
LEMMA HoldKeep ==
    ASSUME Inv, Typed', NEW p \in Procs, Alone(p), FilesStay, NEW x \in Slots,
           Free(x), holder' = Set(holder, x, p), kept' = kept \cup {x}, pc[p] \in NoHold, pc'[p] \in NoHold,
           leaked'[x] > 0 \/ \E f \in Files : ftable'[f].type = "inode" /\ ftable'[f].ip = x
    PROVE  HoldOK'
<1>1. \A s \in Slots : ~ Holding(p, s) /\ ~ Holding(p, s)'
  BY DEF Holding, NoHold
<1>2. \A s \in Slots : s \notin kept /\ holder[s] = p => FALSE
  BY <1>1, Sizes DEF Inv, HoldOK
<1>3. holder'[x] = p /\ \A s \in Slots : s # x => holder'[s] = holder[s]
  BY DEF Inv, Typed, Set
<1>4. x \notin kept /\ holder[x] = None
  BY DEF Inv, HoldOK, Free
<1>5. \A s \in Slots : holder'[s] # holder[s] => holder[s] \in {None, p} /\ s \notin kept /\ holder'[s] \in {None, p}
  BY <1>3, <1>4
<1>6. \A s \in Slots : s \notin kept' /\ holder'[s] = p => FALSE
  BY <1>2, <1>3
<1>7. \A s \in Slots : s \in kept' /\ s \notin kept =>
               /\ holder[s] = None /\ holder'[s] = p
               /\ leaked'[s] > 0 \/ \E f \in Files : ftable'[f].type = "inode" /\ ftable'[f].ip = s
  BY <1>3, <1>4
<1> QED
  BY <1>1, <1>5, <1>6, <1>7, HoldStep

-----------------------------------------------------------------------------
(* The frame of a step that leaves the disk alone.                         *)

LEMMA ReachStays ==
    ASSUME Inv, NEW p \in Procs, Alone(p), pc[p] # "link", CacheStep(p, icache'), dinode' = dinode
    PROVE  Reach'
<1> SUFFICES ASSUME NEW s \in Slots, icache'[s].ref > 0
             PROVE  dinode[icache'[s].inum].nlink > 0 \/ \E q \in Procs : pc'[q] = "link" /\ nxt'[q] = s
  BY DEF Reach
<1>1. CASE icache[s].ref > 0
  <2>1. icache'[s].inum = icache[s].inum
    BY <1>1 DEF CacheStep, Keeps
  <2>2. dinode[icache[s].inum].nlink > 0 \/ \E q \in Procs : pc[q] = "link" /\ nxt[q] = s
    BY <1>1 DEF Inv, Reach
  <2>3. \A q \in Procs : pc[q] = "link" => pc'[q] = "link" /\ nxt'[q] = nxt[q]
    BY DEF Alone
  <2> QED
    BY <2>1, <2>2, <2>3
<1>2. CASE ~ icache[s].ref > 0
  BY <1>2 DEF CacheStep
<1> QED
  BY <1>1, <1>2

LEMMA KnownStays ==
    ASSUME Inv, NEW p \in Procs, Alone(p), CacheStep(p, icache'), FilesStay, UNCHANGED <<dinode, ents>>,
           NEW q \in Procs, q # p
    PROVE  Known(q)'
<1>1. Known(q) /\ Keeps(icache, icache')
  BY DEF Inv, CacheStep
<1>2. pc[q] = "link" => icache'[nxt[q]] = icache[nxt[q]]
  BY DEF CacheStep
<1>3. ASSUME pc[q] = "new", NEW s \in Slots, icache'[s].ref > 0 PROVE icache'[s].inum # nxt[q]
  <2>1. CASE icache[s].ref > 0
    BY <1>1, <1>3, <2>1 DEF Known, Keeps
  <2>2. CASE ~ icache[s].ref > 0
    <3>1. dinode[nxt[q]].nlink = 0
      BY <1>1, <1>3 DEF Known, NewDinode
    <3> QED
      BY <1>3, <2>2, <3>1 DEF CacheStep
  <2> QED
    BY <2>1, <2>2
<1> QED
  BY <1>1, <1>2, <1>3, KnownOthers

LEMMA TreeStays ==
    ASSUME Inv, UNCHANGED <<dinode, ents>>
    PROVE  TreeOK'
<1>1. \A i \in Inums : Counted(i)' = Counted(i)
  BY DEF Counted
<1> QED
  BY <1>1 DEF Inv, TreeOK

LEMMA ApartStays ==
    ASSUME Inv, NEW p \in Procs, Alone(p), pc'[p] # "new"
    PROVE  NewApart'
  BY DEF Inv, NewApart, Alone

\* A step of process p is correct when its own part is.
LEMMA Frame ==
    ASSUME Inv, NEW p \in Procs, Alone(p), UNCHANGED <<dinode, ents>>, CacheStep(p, icache'), FilesStay,
           Typed', RefsOK', FilesOK', OpenOK', HoldOK', ProcOK(p)', Known(p)', pc[p] # "link", pc'[p] # "new"
    PROVE  Inv'
<1>1. \A q \in Procs : ProcOK(q)'
  BY ProcOthers
<1>2. \A q \in Procs : Known(q)'
  BY KnownStays
<1>3. CacheOK(icache, dinode)'
  BY DEF CacheStep, CacheOK
<1>4. TreeOK' /\ NewApart' /\ Reach'
  BY TreeStays, ApartStays, ReachStays
<1> QED
  BY <1>1, <1>2, <1>3, <1>4 DEF Inv

\* The number of pointers to entry s changes by what p does to its own
\* directory and to the inodes of its call.
LEMMA RefsStep ==
    ASSUME Inv, NEW p \in Procs, Alone(p), ftable' = ftable, NEW s \in Slots
    PROVE  /\ icache[s].ref = Pointers(s) + leaked[s] /\ Pointers(s) \in Nat /\ Pointers(s)' \in Nat
           /\ leaked[s] \in Nat /\ icache[s].ref \in Nat
           /\ Pointers(s)' = Pointers(s)
                + (One(cwd'[p] = s) - One(cwd[p] = s)) + (One(ip'[p] = s) - One(ip[p] = s))
                + (One(pc'[p] # "new" /\ nxt'[p] = s) - One(pc[p] # "new" /\ nxt[p] = s))
<1>1. /\ \A q \in Procs \ {p} : cwd'[q] = cwd[q] /\ ip'[q] = ip[q] /\ nxt'[q] = nxt[q] /\ pc'[q] = pc[q]
      /\ \A g \in Files \ {1} : ftable'[g].type = ftable[g].type /\ ftable'[g].ip = ftable[g].ip
      /\ 1 \in Files
  BY Ranges DEF Alone
<1>2. /\ Pointers(s) \in Nat /\ Pointers(s)' \in Nat
      /\ Pointers(s)' = Pointers(s)
           + (One(cwd'[p] = s) - One(cwd[p] = s)) + (One(ip'[p] = s) - One(ip[p] = s))
           + (One(pc'[p] # "new" /\ nxt'[p] = s) - One(pc[p] # "new" /\ nxt[p] = s))
           + (One(ftable'[1].type = "inode" /\ ftable'[1].ip = s) - One(ftable[1].type = "inode" /\ ftable[1].ip = s))
  BY <1>1, PointersStep
<1>3. icache[s].ref = Pointers(s) + leaked[s] /\ leaked[s] \in Nat
  BY DEF Inv, RefsOK, Typed
<1>4. icache[s].ref \in Nat
  BY DEF Inv, Typed, Inodes
<1>5. One(ftable'[1].type = "inode" /\ ftable'[1].ip = s) - One(ftable[1].type = "inode" /\ ftable[1].ip = s) = 0
  BY DEF One
<1>6. /\ One(cwd'[p] = s) \in {0, 1} /\ One(cwd[p] = s) \in {0, 1} /\ One(ip'[p] = s) \in {0, 1} /\ One(ip[p] = s) \in {0, 1}
      /\ One(pc'[p] # "new" /\ nxt'[p] = s) \in {0, 1} /\ One(pc[p] # "new" /\ nxt[p] = s) \in {0, 1}
  BY DEF One
<1> QED
  BY <1>2, <1>3, <1>4, <1>5, <1>6

\* The counts of a step that moves no pointer.
LEMMA RefsSame ==
    ASSUME Inv, Typed', NEW p \in Procs, Alone(p), UNCHANGED <<ftable, leaked>>, cwd'[p] = cwd[p], ip'[p] = ip[p],
           nxt'[p] = nxt[p], pc[p] # "new", pc'[p] # "new",
           \A s \in Slots : icache'[s].ref = icache[s].ref
    PROVE  RefsOK'
<1> SUFFICES ASSUME NEW s \in Slots PROVE icache'[s].ref = Pointers(s)' + leaked'[s]
  BY DEF RefsOK
<1>1. Pointers(s)' = Pointers(s)
  <2>1. /\ Pointers(s) \in Nat
        /\ Pointers(s)' = Pointers(s)
                + (One(cwd'[p] = s) - One(cwd[p] = s)) + (One(ip'[p] = s) - One(ip[p] = s))
                + (One(pc'[p] # "new" /\ nxt'[p] = s) - One(pc[p] # "new" /\ nxt[p] = s))
    BY RefsStep
  <2>2. /\ One(cwd'[p] = s) - One(cwd[p] = s) = 0 /\ One(ip'[p] = s) - One(ip[p] = s) = 0
        /\ One(pc'[p] # "new" /\ nxt'[p] = s) - One(pc[p] # "new" /\ nxt[p] = s) = 0
    BY DEF One
  <2> QED
    BY <2>1, <2>2
<1> QED
  BY <1>1 DEF Inv, RefsOK

LEMMA FilesSame ==
    ASSUME Inv, UNCHANGED <<ftable, ofile>>
    PROVE  FilesOK' /\ (leaked' = leaked => FilesStay)
<1>1. FilesOK'
  BY DEF Inv, FilesOK
<1> QED
  BY <1>1 DEF FilesStay

-----------------------------------------------------------------------------
(* Path names.                                                             *)

\* The inode a process works on, and its directory, are linked ones.
LEMMA Pointed ==
    ASSUME Inv, NEW p \in Procs, NEW s \in Slots, cwd[p] = s \/ ip[p] = s
    PROVE  /\ icache[s].ref > 0 /\ icache[s].inum \in Inums
           /\ dinode[icache[s].inum].nlink > 0 /\ dinode[icache[s].inum].type # "free"
           /\ \A q \in Procs : pc[q] = "link" => nxt[q] # s
<1>1. icache[s].ref > 0
  BY Referenced
<1>2. \A q \in Procs : pc[q] = "link" => nxt[q] # s
  BY Lonely
<1>3. icache[s].inum \in Inums /\ dinode[icache[s].inum].type # "free"
  BY <1>1 DEF Inv, CacheOK
<1>4. dinode[icache[s].inum].nlink > 0
  BY <1>1, <1>2 DEF Inv, Reach
<1> QED
  BY <1>1, <1>2, <1>3, <1>4

\* A step that changes the point of a process, locks and copies of inodes only.
LEMMA MoveFrame ==
    ASSUME Inv, NEW p \in Procs, NEW l \in Points, Goto(p, l), icache' \in [Slots -> Inodes],
           UNCHANGED <<diskVars, fileVars, cwd, walkVars, ip, nxt, io, leaked>>,
           holder' \in [Slots -> Procs \cup {None}], kept' \subseteq Slots
    PROVE  Typed' /\ Alone(p) /\ FilesStay /\ FilesOK' /\ pc'[p] = l
<1>1. pc' \in [Procs -> Points] /\ pc'[p] = l /\ \A q \in Procs : q # p => pc'[q] = pc[q]
  BY DEF Goto, Inv, Typed
<1>2. Typed'
  BY <1>1 DEF Inv, Typed, diskVars, fileVars, walkVars
<1>3. Alone(p)
  BY <1>1 DEF Alone, walkVars, fileVars
<1> QED
  BY <1>1, <1>2, <1>3, FilesSame DEF fileVars

LEMMA Moves ==
    ASSUME Inv, NEW p \in Procs, NEW l \in Points \ {"new"}, Goto(p, l), pc[p] \notin {"new", "link"},
           UNCHANGED <<diskVars, fileVars, cwd, walkVars, ip, nxt, io, leaked>>,
           holder' \in [Slots -> Procs \cup {None}], kept' \subseteq Slots,
           CacheStep(p, icache'), \A s \in Slots : icache'[s].ref = icache[s].ref,
           OpenOK', HoldOK', ProcOK(p)', Known(p)'
    PROVE  Inv'
<1>1. icache' \in [Slots -> Inodes]
  BY DEF CacheStep, CacheOK
<1>2. Typed' /\ Alone(p) /\ FilesStay /\ FilesOK' /\ pc'[p] = l
  BY <1>1, MoveFrame
<1>3. RefsOK'
  BY <1>2, RefsSame DEF fileVars
<1> QED
  BY <1>2, <1>3, Frame DEF diskVars

Walked == {"fail", "parent", "put", "chdir", "locked"}

\* ilock(ip) and what the call does next.
LEMMA Locks ==
    ASSUME Inv, NEW p \in Procs, pc[p] \in {"walk", "exists"}, Free(ip[p]), icache' = Loaded(ip[p]),
           NEW l \in Walked, Goto(p, l),
           UNCHANGED <<diskVars, fileVars, cwd, walkVars, ip, nxt, io, leaked, kept>>,
           l = "locked" => holder' = Set(holder, ip[p], p),
           l # "locked" => holder' = holder,
           l = "parent" => kind[p] \in WantsParent /\ Len(elems[p]) = 1 /\ icache'[ip[p]].type = "dir"
    PROVE  Inv'
<1>1. ip[p] \in Slots
  BY DEF Inv, ProcOK, Walking
<1>2. icache[ip[p]].ref > 0 /\ \A q \in Procs : pc[q] = "link" => nxt[q] # ip[p]
  BY <1>1, Pointed
<1>3. CacheStep(p, icache')
  BY <1>1, <1>2, StepLoaded
<1>4. /\ icache' \in [Slots -> Inodes] /\ icache'[ip[p]].valid
      /\ \A s \in Slots : icache'[s].ref = icache[s].ref
  <2>1. PICK x, jc : x = ip[p] /\ jc = Loaded(x)
    OBVIOUS
  <2>2. /\ jc \in [Slots -> Inodes] /\ \A t \in Slots : t # x => jc[t] = icache[t]
        /\ jc[x].ref = icache[x].ref /\ jc[x].valid
    BY <1>1, <1>2, <2>1, LoadedIs
  <2>3. icache' = jc
    BY <2>1
  <2> QED
    BY <2>1, <2>2, <2>3
<1>5. holder' \in [Slots -> Procs \cup {None}] /\ kept' \subseteq Slots
  BY <1>1 DEF Inv, Typed, Set
<1>6. l \in Points \ {"new"}
  BY DEF Walked, Points
<1>7. Typed' /\ Alone(p) /\ FilesStay /\ pc'[p] = l
  BY <1>4, <1>5, <1>6, MoveFrame
<1>8. OpenOK'
  BY <1>3, <1>7, OpenSame DEF CacheStep, fileVars
<1>9. HoldOK'
  <2>1. CASE l = "locked"
    BY <1>1, <1>7, <2>1, HoldTake DEF NoHold
  <2>2. CASE l # "locked"
    <3>1. pc[p] \in NoHold /\ pc'[p] \in NoHold
      BY <1>7, <2>2 DEF NoHold, Walked
    <3> QED
      BY <1>7, <2>2, <3>1, HoldSame
  <2> QED
    BY <2>1, <2>2
<1>10. ProcOK(p)'
  <2>1. /\ pc'[p] = l /\ ip'[p] = ip[p] /\ cwd'[p] = cwd[p] /\ nxt'[p] = nxt[p] /\ kind'[p] = kind[p] /\ elems'[p] = elems[p]
        /\ cwd[p] \in Slots /\ nxt[p] = 0
    BY <1>7 DEF walkVars, Inv, ProcOK
  <2> QED
    BY <1>1, <2>1 DEF ProcOK, Walked, Walking
<1>11. Known(p)'
  BY <1>4, <1>7 DEF Known, Walked
<1> QED
  BY <1>3, <1>4, <1>5, <1>6, <1>8, <1>9, <1>10, <1>11, Moves

\* ilock() gives the copy that the guards of the actions read.
LEMMA NamexParentOK ==
    ASSUME Inv, NEW p \in Procs, NamexParent(p)
    PROVE  Inv'
<1>1. PICK l \in {"parent", "fail"} : Goto(p, l) /\ (l = "parent" => icache'[ip[p]].type = "dir")
  BY DEF NamexParent
<1> QED
  BY <1>1, Locks DEF NamexParent, Walked

LEMMA OpenLockOK ==
    ASSUME Inv, NEW p \in Procs, OpenLock(p)
    PROVE  Inv'
<1>1. CASE kind[p] = "openw" /\ icache'[ip[p]].type = "dir"
  BY <1>1, Locks DEF OpenLock, Named, Walked
<1>2. CASE ~ (kind[p] = "openw" /\ icache'[ip[p]].type = "dir")
  BY <1>2, Locks DEF OpenLock, Named, Walked
<1> QED
  BY <1>1, <1>2

LEMMA StatOK ==
    ASSUME Inv, NEW p \in Procs, Stat(p)
    PROVE  Inv'
  BY Locks DEF Stat, Named, Walked

LEMMA ChdirLookOK ==
    ASSUME Inv, NEW p \in Procs, ChdirLook(p)
    PROVE  Inv'
<1>1. PICK l \in {"chdir", "fail"} : Goto(p, l)
  BY DEF ChdirLook
<1> QED
  BY <1>1, Locks DEF ChdirLook, Named, Walked

LEMMA ExecLoadOK ==
    ASSUME Inv, NEW p \in Procs, ExecLoad(p)
    PROVE  Inv'
  BY Locks DEF ExecLoad, Named, Walked

-----------------------------------------------------------------------------
(* References taken and dropped by a call.                                 *)

LEMMA RefsBalance ==
    ASSUME Inv, Typed', NEW p \in Procs, Alone(p), ftable' = ftable,
           \A s \in Slots : icache'[s].ref - icache[s].ref =
                (One(cwd'[p] = s) - One(cwd[p] = s)) + (One(ip'[p] = s) - One(ip[p] = s))
                + (One(pc'[p] # "new" /\ nxt'[p] = s) - One(pc[p] # "new" /\ nxt[p] = s))
                + (leaked'[s] - leaked[s])
    PROVE  RefsOK'
<1> SUFFICES ASSUME NEW s \in Slots PROVE icache'[s].ref = Pointers(s)' + leaked'[s]
  BY DEF RefsOK
<1>1. leaked'[s] \in Nat
  BY DEF Typed
<1>2. icache'[s].ref \in Nat
  <2>1. icache'[s] \in Inodes
    BY DEF Typed
  <2> QED
    BY <2>1 DEF Inodes
<1>3. PICK a1 \in {0, 1}, a2 \in {0, 1}, b1 \in {0, 1}, b2 \in {0, 1}, c1 \in {0, 1}, c2 \in {0, 1} :
           /\ a1 = One(cwd'[p] = s) /\ a2 = One(cwd[p] = s) /\ b1 = One(ip'[p] = s) /\ b2 = One(ip[p] = s)
           /\ c1 = One(pc'[p] # "new" /\ nxt'[p] = s) /\ c2 = One(pc[p] # "new" /\ nxt[p] = s)
  BY DEF One
<1>4. icache'[s].ref - icache[s].ref = (a1 - a2) + (b1 - b2) + (c1 - c2) + (leaked'[s] - leaked[s])
  BY <1>3
<1>5. /\ icache[s].ref = Pointers(s) + leaked[s] /\ Pointers(s) \in Nat /\ Pointers(s)' \in Nat
      /\ leaked[s] \in Nat /\ icache[s].ref \in Nat /\ Pointers(s)' = Pointers(s) + (a1 - a2) + (b1 - b2) + (c1 - c2)
  BY <1>3, RefsStep
<1>6. PICK m \in Nat, m1 \in Nat, r \in Nat, r1 \in Nat, k \in Nat, k1 \in Nat :
           /\ m = Pointers(s) /\ m1 = Pointers(s)' /\ r = icache[s].ref /\ r1 = icache'[s].ref
           /\ k = leaked[s] /\ k1 = leaked'[s]
  BY <1>1, <1>2, <1>5
<1>7. r1 - r = (a1 - a2) + (b1 - b2) + (c1 - c2) + (k1 - k) /\ r = m + k /\ m1 = m + (a1 - a2) + (b1 - b2) + (c1 - c2)
  BY <1>4, <1>5, <1>6
<1>8. r1 = m1 + k1
  BY <1>7
<1> QED
  BY <1>6, <1>8

\* A reference is taken for ip or for next.
LEMMA RefsTake ==
    ASSUME Inv, Typed', NEW p \in Procs, Alone(p), UNCHANGED <<ftable, leaked>>, cwd'[p] = cwd[p],
           pc[p] # "new", pc'[p] # "new", NEW e \in Slots, icache'[e].ref = icache[e].ref + 1,
           \A s \in Slots : s # e => icache'[s].ref = icache[s].ref,
           \/ ip[p] = 0 /\ ip'[p] = e /\ nxt'[p] = nxt[p]
           \/ ip'[p] = ip[p] /\ nxt[p] = 0 /\ nxt'[p] = e
    PROVE  RefsOK'
<1>1. \A s \in Slots : leaked[s] \in Nat /\ icache[s].ref \in Nat
  <2>1. \A s \in Slots : icache[s] \in Inodes
    BY DEF Inv, Typed
  <2> QED
    BY <2>1 DEF Inv, Typed, Inodes
<1>2. \A s \in Slots : icache'[s].ref - icache[s].ref =
                (One(cwd'[p] = s) - One(cwd[p] = s)) + (One(ip'[p] = s) - One(ip[p] = s))
                + (One(pc'[p] # "new" /\ nxt'[p] = s) - One(pc[p] # "new" /\ nxt[p] = s))
                + (leaked'[s] - leaked[s])
  BY <1>1, Ranges DEF One
<1> QED
  BY <1>2, RefsBalance

\* A reference is dropped: of ip, or of the directory.
LEMMA RefsPut ==
    ASSUME Inv, Typed', NEW p \in Procs, Alone(p), UNCHANGED <<ftable, leaked>>,
           pc[p] # "new", pc'[p] # "new", NEW e \in Slots, icache'[e].ref = icache[e].ref - 1,
           \A s \in Slots : s # e => icache'[s].ref = icache[s].ref,
           \/ ip[p] = e /\ ip'[p] = 0 /\ nxt'[p] = nxt[p] /\ cwd'[p] = cwd[p]
           \/ ip[p] = e /\ ip'[p] = nxt[p] /\ nxt'[p] = 0 /\ cwd'[p] = cwd[p]
           \/ cwd[p] = e /\ cwd'[p] = ip[p] /\ ip'[p] = 0 /\ nxt'[p] = nxt[p]
           \/ cwd[p] = e /\ cwd'[p] = 0 /\ ip'[p] = ip[p] /\ nxt'[p] = nxt[p]
    PROVE  RefsOK'
<1>1. \A s \in Slots : leaked[s] \in Nat /\ icache[s].ref \in Nat
  <2>1. \A s \in Slots : icache[s] \in Inodes
    BY DEF Inv, Typed
  <2> QED
    BY <2>1 DEF Inv, Typed, Inodes
<1>2. ASSUME NEW s \in Slots
      PROVE  icache'[s].ref - icache[s].ref =
                (One(cwd'[p] = s) - One(cwd[p] = s)) + (One(ip'[p] = s) - One(ip[p] = s))
                + (One(pc'[p] # "new" /\ nxt'[p] = s) - One(pc[p] # "new" /\ nxt[p] = s))
                + (leaked'[s] - leaked[s])
  <2>1. icache'[s].ref - icache[s].ref = IF s = e THEN -1 ELSE 0
    BY <1>1
  <2>2. leaked'[s] - leaked[s] = 0
    BY <1>1
  <2>3. (One(cwd'[p] = s) - One(cwd[p] = s)) + (One(ip'[p] = s) - One(ip[p] = s))
                + (One(pc'[p] # "new" /\ nxt'[p] = s) - One(pc[p] # "new" /\ nxt[p] = s)) = IF s = e THEN -1 ELSE 0
    BY Ranges DEF One
  <2> QED
    BY <2>1, <2>2, <2>3
<1> QED
  BY <1>2, RefsBalance

\* One more reference to entry e; none when e = 0.
Gains(e) == \A s \in Slots : icache'[s].ref = icache[s].ref + One(s = e)

\* A reference is forgotten: ip's, when the call returns or goes on with the
\* entry e it has taken.
LEMMA RefsForget ==
    ASSUME Inv, Typed', NEW p \in Procs, Alone(p), ftable' = ftable, cwd'[p] = cwd[p],
           pc[p] # "new", pc'[p] # "new", nxt'[p] = nxt[p], ip[p] \in Slots,
           leaked' = [leaked EXCEPT ![ip[p]] = @ + 1], NEW e,
           Gains(e), ip'[p] = e
    PROVE  RefsOK'
<1>1. \A s \in Slots : leaked[s] \in Nat /\ icache[s].ref \in Nat
  <2>1. \A s \in Slots : icache[s] \in Inodes
    BY DEF Inv, Typed
  <2> QED
    BY <2>1 DEF Inv, Typed, Inodes
<1>2. \A s \in Slots : leaked'[s] = leaked[s] + One(s = ip[p])
  BY <1>1 DEF Inv, Typed, One
<1>3. \A s \in Slots : icache'[s].ref - icache[s].ref =
                (One(cwd'[p] = s) - One(cwd[p] = s)) + (One(ip'[p] = s) - One(ip[p] = s))
                + (One(pc'[p] # "new" /\ nxt'[p] = s) - One(pc[p] # "new" /\ nxt[p] = s))
                + (leaked'[s] - leaked[s])
  BY <1>1, <1>2 DEF One, Gains
<1> QED
  BY <1>3, RefsBalance

\* A step that changes what process p is doing and leaves the open files alone.
LEMMA CallFrame ==
    ASSUME Inv, NEW p \in Procs,
           pc' \in [Procs -> Points], kind' \in [Procs -> Kinds \cup {"none", "read", "write"}], elems' \in [Procs -> Seq(Elems)],
           ip' \in [Procs -> Slots \cup {0}], nxt' \in [Procs -> Nat], cwd' \in [Procs -> Slots \cup {0}],
           \A q \in Procs : q # p => /\ pc'[q] = pc[q] /\ kind'[q] = kind[q] /\ elems'[q] = elems[q]
                                     /\ ip'[q] = ip[q] /\ nxt'[q] = nxt[q] /\ cwd'[q] = cwd[q],
           UNCHANGED <<ents, fileVars, io>>, icache' \in [Slots -> Inodes], dinode' \in [Inums -> Dinodes],
           holder' \in [Slots -> Procs \cup {None}], kept' \subseteq Slots,
           leaked' \in [Slots -> Nat], \A s \in Slots : leaked'[s] >= leaked[s]
    PROVE  Typed' /\ Alone(p) /\ FilesStay /\ FilesOK'
<1>1. Typed'
  BY DEF Inv, Typed, diskVars, fileVars
<1>2. Alone(p)
  BY DEF Alone, fileVars
<1>3. FilesOK'
  BY FilesSame DEF fileVars
<1>4. \A s \in Slots : leaked[s] \in Nat /\ leaked'[s] \in Nat
  BY DEF Inv, Typed
<1>5. FilesStay
  BY <1>4 DEF FilesStay, fileVars
<1> QED
  BY <1>1, <1>2, <1>3, <1>5

\* What an entry of a directory stands for is a linked inode.
LEMMA EntryTarget ==
    ASSUME Inv, NEW d \in Inums, NEW e \in ents[d]
    PROVE  e[2] \in Inums /\ dinode[e[2]].nlink > 0 /\ dinode[e[2]].type # "free" /\ dinode[d].nlink > 0
<1>1. e \in Elems \X Inums /\ dinode \in [Inums -> Dinodes]
  BY DEF Inv, Typed
<1>2. PICK n \in Elems, i \in Inums : e = <<n, i>>
  BY <1>1
<1>3. dinode[d].nlink \in Nat /\ dinode[i].nlink \in Nat
  BY <1>1 DEF Dinodes
<1>4. dinode[i].type # "free" /\ dinode[d].nlink # 0 /\ (n = "." => i = d)
  BY <1>2 DEF Inv, TreeOK
<1>5. n # "." => dinode[i].nlink > 0
  <2> SUFFICES ASSUME n # "." PROVE dinode[i].nlink > 0
    OBVIOUS
  <2>1. n \in Names \cup {".."}
    BY DEF Elems
  <2>2. <<d, n>> \in Counted(i)
    BY <1>2, <2>1 DEF Counted
  <2>3. Counted(i) \in SUBSET (Inums \X (Names \cup {".."}))
    BY DEF Counted
  <2>4. Cardinality(Counted(i)) > 0
    BY <2>2, <2>3, Finite, AtLeastOne
  <2> QED
    BY <2>4 DEF Inv, TreeOK
<1> QED
  BY <1>2, <1>3, <1>4, <1>5

\* What dirlookup() finds.
LEMMA Found ==
    ASSUME Inv, NEW d \in Inums, NEW name, dirlookup(d, name) # {}
    PROVE  LET i == Min(dirlookup(d, name)) IN i \in Inums /\ dinode[i].nlink > 0 /\ dinode[i].type # "free"
<1>1. \A i \in dirlookup(d, name) : i \in Inums /\ dinode[i].nlink > 0 /\ dinode[i].type # "free"
  <2> SUFFICES ASSUME NEW i \in dirlookup(d, name) PROVE i \in Inums /\ dinode[i].nlink > 0 /\ dinode[i].type # "free"
    OBVIOUS
  <2>1. PICK e \in ents[d] : i = e[2]
    BY DEF dirlookup
  <2> QED
    BY <2>1, EntryTarget
<1>2. dirlookup(d, name) \in SUBSET Nat
  BY <1>1, Ranges
<1>3. Min(dirlookup(d, name)) \in dirlookup(d, name)
  BY <1>2, Lowest
<1> QED
  BY <1>1, <1>3

-----------------------------------------------------------------------------
(* namex().                                                                *)

\* The references after iget().
LEMMA GotRefs ==
    ASSUME NEW ic \in [Slots -> Inodes], NEW i \in Inums, CanGet(ic, i)
    PROVE  LET e == Entry(ic, i)  g == Got(ic, i) IN
           /\ e \in Slots /\ g[e].ref = ic[e].ref + 1 /\ \A s \in Slots : s # e => g[s].ref = ic[s].ref
  BY GotIs

LEMMA NoEntry ==
    ASSUME NEW ic, NEW i, ~ CanGet(ic, i)
    PROVE  Entry(ic, i) = 0
  BY DEF CanGet, Entry

\* A call begins with a reference, or with a panic.
LEMMA Starts ==
    ASSUME Inv, NEW p \in Procs, NEW c \in Calls, NamexStart(p, c), NEW a \in Slots \cup {0}, NEW l \in {"walk", "panic"},
           Goto(p, l), ip' = Set(ip, p, a), CacheStep(p, icache'),
           l = "panic" => a = 0 /\ \A s \in Slots : icache'[s].ref = icache[s].ref,
           l = "walk" => a \in Slots /\ icache'[a].ref = icache[a].ref + 1 /\ \A s \in Slots : s # a => icache'[s].ref = icache[s].ref
    PROVE  Inv'
<1>1. pc[p] = "user" /\ ip[p] = 0 /\ nxt[p] = 0 /\ cwd[p] \in Slots
  BY DEF NamexStart, Inv, ProcOK, Walking
<1>2. c[1] \in Kinds /\ c[2].elems \in Seq(Elems)
  BY CallsAssumption
<1>3. /\ pc' \in [Procs -> Points] /\ kind' \in [Procs -> Kinds \cup {"none", "read", "write"}] /\ elems' \in [Procs -> Seq(Elems)]
      /\ ip' \in [Procs -> Slots \cup {0}] /\ nxt' = nxt /\ cwd' = cwd
      /\ pc'[p] = l /\ ip'[p] = a
      /\ \A q \in Procs : q # p => pc'[q] = pc[q] /\ kind'[q] = kind[q] /\ elems'[q] = elems[q] /\ ip'[q] = ip[q]
  <2>1. pc' = [pc EXCEPT ![p] = l] /\ ip' = [ip EXCEPT ![p] = a]
        /\ kind' = [kind EXCEPT ![p] = c[1]] /\ elems' = [elems EXCEPT ![p] = c[2].elems]
    BY DEF NamexStart, Goto, Set
  <2>2. /\ pc \in [Procs -> Points] /\ kind \in [Procs -> Kinds \cup {"none", "read", "write"}] /\ elems \in [Procs -> Seq(Elems)]
        /\ ip \in [Procs -> Slots \cup {0}] /\ l \in Points
    BY DEF Inv, Typed, Points
  <2> QED
    BY <1>2, <2>1, <2>2 DEF NamexStart
<1>4. UNCHANGED <<diskVars, holder, fileVars, io, leaked, kept>>
  BY DEF NamexStart
<1>5. Typed' /\ Alone(p) /\ FilesStay /\ FilesOK'
  <2>1. /\ icache' \in [Slots -> Inodes] /\ nxt \in [Procs -> Nat] /\ cwd \in [Procs -> Slots \cup {0}]
        /\ dinode \in [Inums -> Dinodes] /\ holder \in [Slots -> Procs \cup {None}] /\ kept \subseteq Slots
        /\ leaked \in [Slots -> Nat] /\ \A s \in Slots : leaked[s] >= leaked[s]
    BY DEF Inv, Typed, CacheStep, CacheOK
  <2> QED
    BY <1>3, <1>4, <2>1, CallFrame DEF diskVars
<1>6. RefsOK'
  <2>1. CASE l = "walk"
    BY <1>1, <1>3, <1>4, <1>5, <2>1, RefsTake DEF fileVars
  <2>2. CASE l = "panic"
    BY <1>1, <1>3, <1>4, <1>5, <2>2, RefsSame DEF fileVars
  <2> QED
    BY <2>1, <2>2
<1>7. OpenOK'
  BY <1>4, <1>5, OpenSame DEF CacheStep, fileVars
<1>8. HoldOK'
  <2>1. pc[p] \in NoHold /\ (pc'[p] \in NoHold \/ (pc'[p] = "panic" /\ ip'[p] = 0))
    BY <1>1, <1>3 DEF NoHold
  <2> QED
    BY <1>4, <1>5, <2>1, HoldSame
<1>9. ProcOK(p)'
  BY <1>1, <1>3 DEF ProcOK, Walking
<1>10. Known(p)'
  BY <1>3 DEF Known
<1> QED
  BY <1>1, <1>3, <1>4, <1>5, <1>6, <1>7, <1>8, <1>9, <1>10, Frame DEF diskVars

LEMMA NamexStartOK ==
    ASSUME Inv, NEW p \in Procs, NEW c \in Calls, NamexStart(p, c)
    PROVE  Inv'
<1>1. icache \in [Slots -> Inodes] /\ \A s \in Slots : icache[s].ref \in Nat
  <2>1. icache \in [Slots -> Inodes]
    BY DEF Inv, Typed
  <2> QED
    BY <2>1 DEF Inodes
<1>2. ROOTINO \in Inums /\ dinode[ROOTINO].nlink > 0 /\ dinode[ROOTINO].type # "free"
  BY Ranges DEF Inv, TreeOK
<1>3. CASE c[2].abs /\ CanGet(icache, ROOTINO)
  <2>1. icache' = Got(icache, ROOTINO) /\ Goto(p, "walk") /\ ip' = Set(ip, p, Entry(icache, ROOTINO))
    BY <1>3 DEF NamexStart, iget
  <2>2. CacheStep(p, icache')
    BY <1>2, <1>3, <2>1, StepNone, StepGot
  <2>3. /\ Entry(icache, ROOTINO) \in Slots /\ icache'[Entry(icache, ROOTINO)].ref = icache[Entry(icache, ROOTINO)].ref + 1
        /\ \A s \in Slots : s # Entry(icache, ROOTINO) => icache'[s].ref = icache[s].ref
    BY <1>1, <1>2, <1>3, <2>1, GotRefs
  <2> QED
    BY <2>1, <2>2, <2>3, Starts
<1>4. CASE c[2].abs /\ ~ CanGet(icache, ROOTINO)
  <2>1. icache' = icache /\ Goto(p, "panic") /\ ip' = Set(ip, p, 0)
    BY <1>4, NoEntry DEF NamexStart, iget
  <2>2. CacheStep(p, icache')
    BY <2>1, StepNone
  <2> QED
    BY <2>1, <2>2, Starts
<1>5. CASE ~ c[2].abs
  <2>1. icache' = idup(icache, cwd[p]) /\ Goto(p, "walk") /\ ip' = Set(ip, p, cwd[p])
    BY <1>5 DEF NamexStart
  <2>2. cwd[p] \in Slots
    BY DEF NamexStart, Inv, ProcOK
  <2>3. CacheStep(p, icache')
    BY <2>1, <2>2, Pointed, StepDupPut
  <2>4. icache'[cwd[p]].ref = icache[cwd[p]].ref + 1 /\ \A s \in Slots : s # cwd[p] => icache'[s].ref = icache[s].ref
    BY <1>1, <2>1, <2>2, DupPutIs
  <2> QED
    BY <2>1, <2>2, <2>3, <2>4, Starts
<1> QED
  BY <1>3, <1>4, <1>5

LEMMA NamexLookOK ==
    ASSUME Inv, NEW p \in Procs, NamexLook(p)
    PROVE  Inv'
<1>1. pc[p] = "walk" /\ ip[p] \in Slots /\ nxt[p] = 0 /\ elems[p] # <<>> /\ cwd[p] \in Slots /\ Free(ip[p])
  BY DEF NamexLook, Inv, ProcOK, Walking
<1>2. PICK s \in Slots : s = ip[p]
  BY <1>1
<1>3. /\ icache[s].ref > 0 /\ icache[s].inum \in Inums /\ \A q \in Procs : pc[q] = "link" => nxt[q] # s
  BY <1>2, Pointed
<1>4. PICK ic : ic = Loaded(s)
  OBVIOUS
<1>5. CacheStep(p, ic)
  BY <1>3, <1>4, StepLoaded
<1>6. ic \in [Slots -> Inodes] /\ ic[s].inum = icache[s].inum /\ \A t \in Slots : ic[t].ref = icache[t].ref
  BY <1>3, <1>4, LoadedIs
<1>7. PICK found : found = dirlookup(ic[s].inum, Head(elems[p]))
  OBVIOUS
<1>8. UNCHANGED <<diskVars, fileVars, cwd, walkVars, ip, io, leaked, kept>>
      /\ holder' = IF pc'[p] = "panic" THEN Set(holder, ip[p], p) ELSE holder
  BY DEF NamexLook
<1>9. pc \in [Procs -> Points] /\ nxt \in [Procs -> Nat] /\ holder \in [Slots -> Procs \cup {None}]
  BY DEF Inv, Typed
<1>10. CASE ic[s].type # "dir" \/ found = {}
  <2>1. icache' = ic /\ nxt' = nxt /\ Goto(p, "fail")
    BY <1>2, <1>4, <1>7, <1>10 DEF NamexLook
  <2>2. pc'[p] = "fail"
    BY <1>9, <2>1 DEF Goto
  <2>3. holder' = holder
    BY <1>8, <2>2
  <2>4. "fail" \in Walked
    BY DEF Walked
  <2> QED
    BY <1>1, <1>2, <1>4, <1>8, <2>1, <2>3, <2>4, Locks
<1>11. CASE ~ (ic[s].type # "dir" \/ found = {})
  <2>1. PICK i \in Inums : i = Min(found) /\ dinode[i].nlink > 0 /\ dinode[i].type # "free"
    BY <1>3, <1>6, <1>7, <1>11, Found
  <2>2. iget(p, ic, i, "step") /\ nxt' = Set(nxt, p, Entry(ic, i))
    BY <1>2, <1>4, <1>7, <1>11, <2>1 DEF NamexLook
  <2>3. PICK e \in Slots \cup {0}, l \in {"step", "panic"} :
             /\ Goto(p, l) /\ e = Entry(ic, i) /\ CacheStep(p, icache')
             /\ l = "step" => e \in Slots /\ icache'[e].ref = icache[e].ref + 1 /\ \A t \in Slots : t # e => icache'[t].ref = icache[t].ref
             /\ l = "panic" => e = 0 /\ \A t \in Slots : icache'[t].ref = icache[t].ref
    <3>1. CASE CanGet(ic, i)
      <4>1. icache' = Got(ic, i) /\ Goto(p, "step")
        BY <2>2, <3>1 DEF iget
      <4>2. CacheStep(p, icache')
        BY <1>5, <1>6, <2>1, <3>1, <4>1, StepGot
      <4>3. /\ Entry(ic, i) \in Slots /\ icache'[Entry(ic, i)].ref = icache[Entry(ic, i)].ref + 1
            /\ \A t \in Slots : t # Entry(ic, i) => icache'[t].ref = icache[t].ref
        BY <1>6, <2>1, <3>1, <4>1, GotRefs
      <4> QED
        BY <4>1, <4>2, <4>3
    <3>2. CASE ~ CanGet(ic, i)
      <4>1. icache' = ic /\ Goto(p, "panic") /\ Entry(ic, i) = 0
        BY <2>2, <3>2, NoEntry DEF iget
      <4> QED
        BY <1>5, <1>6, <4>1
    <3> QED
      BY <3>1, <3>2
  <2>4. /\ pc' \in [Procs -> Points] /\ pc'[p] = l /\ nxt' \in [Procs -> Nat] /\ nxt'[p] = e
        /\ \A q \in Procs : q # p => pc'[q] = pc[q] /\ nxt'[q] = nxt[q]
    <3>1. pc' = [pc EXCEPT ![p] = l] /\ nxt' = [nxt EXCEPT ![p] = e] /\ l \in Points /\ e \in Nat
      BY <2>2, <2>3, Ranges DEF Goto, Set, Points
    <3> QED
      BY <1>9, <3>1
  <2>5. holder' \in [Slots -> Procs \cup {None}] /\ (l = "panic" => holder' = Set(holder, s, p)) /\ (l = "step" => holder' = holder)
    BY <1>2, <1>8, <1>9, <2>4 DEF Set
  <2>6. Typed' /\ Alone(p) /\ FilesStay /\ FilesOK'
    <3>1. /\ kind \in [Procs -> Kinds \cup {"none", "read", "write"}] /\ elems \in [Procs -> Seq(Elems)]
          /\ ip \in [Procs -> Slots \cup {0}] /\ icache' \in [Slots -> Inodes] /\ cwd \in [Procs -> Slots \cup {0}]
          /\ dinode \in [Inums -> Dinodes] /\ kept \subseteq Slots
          /\ leaked \in [Slots -> Nat] /\ \A t \in Slots : leaked[t] >= leaked[t]
      BY <2>3 DEF Inv, Typed, CacheStep, CacheOK
    <3> QED
      BY <1>8, <2>4, <2>5, <3>1, CallFrame DEF diskVars, walkVars
  <2>7. RefsOK'
    <3>1. CASE l = "step"
      BY <1>1, <1>8, <2>3, <2>4, <2>6, <3>1, RefsTake DEF fileVars
    <3>2. CASE l = "panic"
      BY <1>1, <1>8, <2>3, <2>4, <2>6, <3>2, RefsSame DEF fileVars
    <3> QED
      BY <3>1, <3>2
  <2>8. OpenOK'
    BY <1>8, <2>3, <2>6, OpenSame DEF CacheStep, fileVars
  <2>9. HoldOK'
    <3>1. CASE l = "step"
      BY <1>1, <1>8, <2>4, <2>5, <2>6, <3>1, HoldSame DEF NoHold
    <3>2. CASE l = "panic"
      BY <1>1, <1>2, <1>8, <2>4, <2>5, <2>6, <3>2, HoldTake DEF NoHold
    <3> QED
      BY <3>1, <3>2
  <2>10. ProcOK(p)'
    BY <1>1, <1>8, <2>3, <2>4 DEF ProcOK, Walking, walkVars
  <2>11. Known(p)'
    BY <2>4 DEF Known
  <2> QED
    BY <1>1, <1>8, <2>3, <2>4, <2>6, <2>7, <2>8, <2>9, <2>10, <2>11, Frame DEF diskVars
<1> QED
  BY <1>10, <1>11

-----------------------------------------------------------------------------
(* iput().                                                                 *)

LEMMA PutIs ==
    ASSUME Inv, NEW e \in Slots, icache[e].ref > 0, icache' = iput(icache, e)
    PROVE  icache' \in [Slots -> Inodes] /\ icache'[e].ref = icache[e].ref - 1 /\ \A s \in Slots : s # e => icache'[s].ref = icache[s].ref
<1>1. icache \in [Slots -> Inodes]
  BY DEF Inv, Typed
<1>2. PICK jc : jc = icache' /\ jc = iput(icache, e)
  OBVIOUS
<1>3. jc \in [Slots -> Inodes] /\ jc[e].ref = icache[e].ref - 1 /\ \A s \in Slots : s # e => jc[s] = icache[s]
  BY <1>1, <1>2, DupPutIs
<1> QED
  BY <1>2, <1>3

LEMMA PutFrame ==
    ASSUME Inv, NEW p \in Procs, pc[p] \notin {"new", "link"}, pc'[p] # "new", NEW e \in Slots, cwd[p] = e \/ ip[p] = e,
           icache' = iput(icache, e), UNCHANGED <<diskVars, fileVars, io, leaked, kept>>, holder' \in [Slots -> Procs \cup {None}],
           pc' \in [Procs -> Points], kind' \in [Procs -> Kinds \cup {"none", "read", "write"}], elems' \in [Procs -> Seq(Elems)],
           ip' \in [Procs -> Slots \cup {0}], nxt' \in [Procs -> Nat], cwd' \in [Procs -> Slots \cup {0}],
           \A q \in Procs : q # p => /\ pc'[q] = pc[q] /\ kind'[q] = kind[q] /\ elems'[q] = elems[q]
                                     /\ ip'[q] = ip[q] /\ nxt'[q] = nxt[q] /\ cwd'[q] = cwd[q],
           \/ ip[p] = e /\ ip'[p] = 0 /\ nxt'[p] = nxt[p] /\ cwd'[p] = cwd[p]
           \/ ip[p] = e /\ ip'[p] = nxt[p] /\ nxt'[p] = 0 /\ cwd'[p] = cwd[p]
           \/ cwd[p] = e /\ cwd'[p] = ip[p] /\ ip'[p] = 0 /\ nxt'[p] = nxt[p]
           \/ cwd[p] = e /\ cwd'[p] = 0 /\ ip'[p] = ip[p] /\ nxt'[p] = nxt[p]
    PROVE  /\ Typed' /\ Alone(p) /\ FilesStay /\ CacheStep(p, icache')
           /\ HoldOK' /\ ProcOK(p)' /\ Known(p)' => Inv'
<1>1. icache[e].ref > 0 /\ \A q \in Procs : pc[q] = "link" => nxt[q] # e
  BY Pointed
<1>2. CacheStep(p, icache')
  BY <1>1, StepDupPut
<1>3. /\ icache \in [Slots -> Inodes] /\ dinode \in [Inums -> Dinodes] /\ leaked \in [Slots -> Nat] /\ kept \subseteq Slots
      /\ \A s \in Slots : leaked[s] >= leaked[s]
  BY DEF Inv, Typed
<1>4. icache' \in [Slots -> Inodes] /\ icache'[e].ref = icache[e].ref - 1 /\ \A s \in Slots : s # e => icache'[s].ref = icache[s].ref
  BY <1>1, PutIs
<1>5. Typed' /\ Alone(p) /\ FilesStay /\ FilesOK'
  BY <1>3, <1>4, CallFrame DEF diskVars
<1>6. RefsOK'
  BY <1>4, <1>5, RefsPut DEF fileVars
<1>7. OpenOK'
  BY <1>2, <1>5, OpenSame DEF CacheStep, fileVars
<1>8. HoldOK' /\ ProcOK(p)' /\ Known(p)' => Inv'
  BY <1>2, <1>5, <1>6, <1>7, Frame DEF diskVars
<1> QED
  BY <1>2, <1>5, <1>8

LEMMA NamexStepOK ==
    ASSUME Inv, NEW p \in Procs, NamexStep(p)
    PROVE  Inv'
<1>1. /\ pc[p] = "step" /\ ip[p] \in Slots /\ nxt[p] \in Slots /\ cwd[p] \in Slots /\ elems[p] # <<>>
  BY DEF NamexStep, Inv, ProcOK, Walking
<1>2. /\ pc' = [pc EXCEPT ![p] = "walk"] /\ ip' = [ip EXCEPT ![p] = nxt[p]] /\ nxt' = [nxt EXCEPT ![p] = 0]
      /\ elems' = [elems EXCEPT ![p] = Tail(elems[p])] /\ kind' = kind /\ cwd' = cwd /\ icache' = iput(icache, ip[p])
      /\ UNCHANGED <<diskVars, fileVars, io, leaked, kept>> /\ holder' = holder
  BY DEF NamexStep, Goto, Set
<1>3. /\ pc \in [Procs -> Points] /\ kind \in [Procs -> Kinds \cup {"none", "read", "write"}] /\ elems \in [Procs -> Seq(Elems)]
      /\ ip \in [Procs -> Slots \cup {0}] /\ nxt \in [Procs -> Nat] /\ cwd \in [Procs -> Slots \cup {0}]
      /\ holder \in [Slots -> Procs \cup {None}]
  BY DEF Inv, Typed
<1>4. Tail(elems[p]) \in Seq(Elems)
  BY <1>1, <1>3
<1>5. /\ pc' \in [Procs -> Points] /\ elems' \in [Procs -> Seq(Elems)] /\ ip' \in [Procs -> Slots \cup {0}] /\ nxt' \in [Procs -> Nat]
      /\ pc'[p] = "walk" /\ ip'[p] = nxt[p] /\ nxt'[p] = 0 /\ cwd'[p] = cwd[p]
      /\ \A q \in Procs : q # p => pc'[q] = pc[q] /\ elems'[q] = elems[q] /\ ip'[q] = ip[q] /\ nxt'[q] = nxt[q]
  BY <1>1, <1>2, <1>3, <1>4 DEF Points
<1>6. Typed' /\ Alone(p) /\ FilesStay /\ (HoldOK' /\ ProcOK(p)' /\ Known(p)' => Inv')
  BY <1>1, <1>2, <1>3, <1>5, PutFrame
<1>7. HoldOK'
  BY <1>1, <1>2, <1>5, <1>6, HoldSame DEF NoHold
<1>8. ProcOK(p)'
  BY <1>1, <1>2, <1>5 DEF ProcOK, Walking
<1>9. Known(p)'
  BY <1>5 DEF Known
<1> QED
  BY <1>6, <1>7, <1>8, <1>9

LEMMA PutAndReturnOK ==
    ASSUME Inv, NEW p \in Procs, PutAndReturn(p)
    PROVE  Inv'
<1>1. /\ pc[p] \in {"fail", "put"} /\ ip[p] \in Slots /\ nxt[p] = 0 /\ cwd[p] \in Slots
  BY DEF PutAndReturn, Inv, ProcOK, Walking
<1>2. /\ pc' = [pc EXCEPT ![p] = "user"] /\ ip' = [ip EXCEPT ![p] = 0] /\ nxt' = nxt
      /\ elems' = [elems EXCEPT ![p] = <<>>] /\ kind' = [kind EXCEPT ![p] = "none"] /\ cwd' = cwd /\ icache' = iput(icache, ip[p])
      /\ UNCHANGED <<diskVars, fileVars, io, leaked, kept>> /\ holder' = holder
  BY DEF PutAndReturn, Goto, Set
<1>3. /\ pc \in [Procs -> Points] /\ kind \in [Procs -> Kinds \cup {"none", "read", "write"}] /\ elems \in [Procs -> Seq(Elems)]
      /\ ip \in [Procs -> Slots \cup {0}] /\ nxt \in [Procs -> Nat] /\ cwd \in [Procs -> Slots \cup {0}]
      /\ holder \in [Slots -> Procs \cup {None}]
  BY DEF Inv, Typed
<1>4. <<>> \in Seq(Elems)
  OBVIOUS
<1>5. /\ pc' \in [Procs -> Points] /\ elems' \in [Procs -> Seq(Elems)] /\ ip' \in [Procs -> Slots \cup {0}]
      /\ kind' \in [Procs -> Kinds \cup {"none", "read", "write"}]
      /\ pc'[p] = "user" /\ ip'[p] = 0 /\ nxt'[p] = nxt[p] /\ cwd'[p] = cwd[p]
      /\ \A q \in Procs : q # p => pc'[q] = pc[q] /\ elems'[q] = elems[q] /\ ip'[q] = ip[q] /\ kind'[q] = kind[q]
  BY <1>1, <1>2, <1>3, <1>4 DEF Points
<1>6. Typed' /\ Alone(p) /\ FilesStay /\ (HoldOK' /\ ProcOK(p)' /\ Known(p)' => Inv')
  BY <1>1, <1>2, <1>3, <1>5, PutFrame
<1>7. HoldOK'
  BY <1>1, <1>2, <1>5, <1>6, HoldSame DEF NoHold
<1>8. ProcOK(p)'
  BY <1>1, <1>2, <1>5 DEF ProcOK, Walking
<1>9. Known(p)'
  BY <1>5 DEF Known
<1> QED
  BY <1>6, <1>7, <1>8, <1>9

LEMMA ChdirPutOK ==
    ASSUME Inv, NEW p \in Procs, ChdirPut(p)
    PROVE  Inv'
<1>1. /\ pc[p] = "chdir" /\ ip[p] \in Slots /\ nxt[p] = 0 /\ cwd[p] \in Slots
  BY DEF ChdirPut, Inv, ProcOK, Walking
<1>2. /\ pc' = [pc EXCEPT ![p] = "user"] /\ ip' = [ip EXCEPT ![p] = 0] /\ nxt' = nxt
      /\ elems' = [elems EXCEPT ![p] = <<>>] /\ kind' = [kind EXCEPT ![p] = "none"]
      /\ cwd' = [cwd EXCEPT ![p] = ip[p]] /\ icache' = iput(icache, cwd[p])
      /\ UNCHANGED <<diskVars, fileVars, io, leaked, kept>> /\ holder' = holder
  BY DEF ChdirPut, Returns, Goto, Set
<1>3. /\ pc \in [Procs -> Points] /\ kind \in [Procs -> Kinds \cup {"none", "read", "write"}] /\ elems \in [Procs -> Seq(Elems)]
      /\ ip \in [Procs -> Slots \cup {0}] /\ nxt \in [Procs -> Nat] /\ cwd \in [Procs -> Slots \cup {0}]
      /\ holder \in [Slots -> Procs \cup {None}]
  BY DEF Inv, Typed
<1>4. <<>> \in Seq(Elems)
  OBVIOUS
<1>5. /\ pc' \in [Procs -> Points] /\ elems' \in [Procs -> Seq(Elems)] /\ ip' \in [Procs -> Slots \cup {0}]
      /\ kind' \in [Procs -> Kinds \cup {"none", "read", "write"}] /\ cwd' \in [Procs -> Slots \cup {0}]
      /\ pc'[p] = "user" /\ ip'[p] = 0 /\ nxt'[p] = nxt[p] /\ cwd'[p] = ip[p]
      /\ \A q \in Procs : q # p => pc'[q] = pc[q] /\ elems'[q] = elems[q] /\ ip'[q] = ip[q] /\ kind'[q] = kind[q] /\ cwd'[q] = cwd[q]
  BY <1>1, <1>2, <1>3, <1>4 DEF Points
<1>6. Typed' /\ Alone(p) /\ FilesStay /\ (HoldOK' /\ ProcOK(p)' /\ Known(p)' => Inv')
  BY <1>1, <1>2, <1>3, <1>5, PutFrame
<1>7. HoldOK'
  BY <1>1, <1>2, <1>5, <1>6, HoldSame DEF NoHold
<1>8. ProcOK(p)'
  BY <1>1, <1>2, <1>5 DEF ProcOK, Walking
<1>9. Known(p)'
  BY <1>5 DEF Known
<1> QED
  BY <1>6, <1>7, <1>8, <1>9

LEMMA ExitPutOK ==
    ASSUME Inv, NEW p \in Procs, ExitPut(p)
    PROVE  Inv'
<1>1. /\ pc[p] = "exit" /\ ip[p] = 0 /\ nxt[p] = 0 /\ cwd[p] \in Slots /\ FreeFds(p) = Fds
  BY DEF ExitPut, Inv, ProcOK, Walking
<1>2. /\ pc' = [pc EXCEPT ![p] = "unused"] /\ cwd' = [cwd EXCEPT ![p] = 0] /\ icache' = iput(icache, cwd[p])
      /\ UNCHANGED <<diskVars, fileVars, walkVars, ip, nxt, io, leaked, kept>> /\ holder' = holder
  BY DEF ExitPut, Goto, Set
<1>3. /\ pc \in [Procs -> Points] /\ kind \in [Procs -> Kinds \cup {"none", "read", "write"}] /\ elems \in [Procs -> Seq(Elems)]
      /\ ip \in [Procs -> Slots \cup {0}] /\ nxt \in [Procs -> Nat] /\ cwd \in [Procs -> Slots \cup {0}]
      /\ holder \in [Slots -> Procs \cup {None}]
  BY DEF Inv, Typed
<1>4. ofile[p] = [d \in Fds |-> 0]
  <2>1. ofile[p] \in [Fds -> Files \cup {0}]
    BY DEF Inv, Typed
  <2> QED
    BY <1>1, <2>1 DEF FreeFds
<1>5. /\ pc' \in [Procs -> Points] /\ cwd' \in [Procs -> Slots \cup {0}]
      /\ pc'[p] = "unused" /\ ip'[p] = ip[p] /\ nxt'[p] = nxt[p] /\ cwd'[p] = 0
      /\ \A q \in Procs : q # p => pc'[q] = pc[q] /\ cwd'[q] = cwd[q]
  BY <1>1, <1>2, <1>3 DEF Points
<1>6. Typed' /\ Alone(p) /\ FilesStay /\ (HoldOK' /\ ProcOK(p)' /\ Known(p)' => Inv')
  BY <1>1, <1>2, <1>3, <1>5, PutFrame DEF walkVars
<1>7. HoldOK'
  BY <1>1, <1>2, <1>5, <1>6, HoldSame DEF NoHold
<1>8. ProcOK(p)'
  BY <1>1, <1>2, <1>4, <1>5 DEF ProcOK, Walking, fileVars
<1>9. Known(p)'
  BY <1>5 DEF Known
<1> QED
  BY <1>6, <1>7, <1>8, <1>9

\* create() drops the reference to the parent.
LEMMA CreatePutOK ==
    ASSUME Inv, NEW p \in Procs, CreatePut(p)
    PROVE  Inv'
<1>1. /\ pc[p] = "linked" /\ ip[p] \in Slots /\ nxt[p] \in Slots /\ cwd[p] \in Slots
      /\ kind[p] \in WantsParent /\ icache[nxt[p]].valid
  BY DEF CreatePut, Inv, ProcOK, Walking, Known
<1>2. PICK l \in {"locked", "put"} :
          /\ pc' = [pc EXCEPT ![p] = l]
          /\ l = "locked" => holder' = holder
          /\ l = "put" => holder' = Set(holder, nxt[p], None)
  BY DEF CreatePut, Goto
<1>3. /\ ip' = [ip EXCEPT ![p] = nxt[p]] /\ nxt' = [nxt EXCEPT ![p] = 0] /\ icache' = iput(icache, ip[p])
      /\ UNCHANGED <<diskVars, fileVars, cwd, walkVars, io, leaked, kept>>
  BY DEF CreatePut, Set
<1>4. /\ pc \in [Procs -> Points] /\ kind \in [Procs -> Kinds \cup {"none", "read", "write"}] /\ elems \in [Procs -> Seq(Elems)]
      /\ ip \in [Procs -> Slots \cup {0}] /\ nxt \in [Procs -> Nat] /\ cwd \in [Procs -> Slots \cup {0}]
      /\ holder \in [Slots -> Procs \cup {None}]
  BY DEF Inv, Typed
<1>5. /\ pc' \in [Procs -> Points] /\ ip' \in [Procs -> Slots \cup {0}] /\ nxt' \in [Procs -> Nat]
      /\ pc'[p] = l /\ ip'[p] = nxt[p] /\ nxt'[p] = 0 /\ cwd'[p] = cwd[p]
      /\ \A q \in Procs : q # p => pc'[q] = pc[q] /\ ip'[q] = ip[q] /\ nxt'[q] = nxt[q]
  BY <1>1, <1>2, <1>3, <1>4 DEF Points
<1>6. holder' \in [Slots -> Procs \cup {None}]
  BY <1>1, <1>2, <1>4 DEF Set
<1>7. Typed' /\ Alone(p) /\ FilesStay /\ CacheStep(p, icache') /\ (HoldOK' /\ ProcOK(p)' /\ Known(p)' => Inv')
  BY <1>1, <1>3, <1>4, <1>5, <1>6, PutFrame DEF walkVars
<1>8. HoldOK'
  <2>1. Holding(p, nxt[p]) /\ kept' = kept
    BY <1>1, <1>3 DEF Holding
  <2>2. PICK x \in Slots : x = nxt[p]
    BY <1>1
  <2>3. CASE l = "locked"
    <3>1. Holding(p, x)'
      BY <1>5, <2>2, <2>3 DEF Holding
    <3> QED
      BY <1>1, <1>2, <1>7, <2>1, <2>2, <2>3, <3>1, HoldMove
  <2>4. CASE l = "put"
    BY <1>1, <1>2, <1>5, <1>7, <2>1, <2>2, <2>4, HoldDrop DEF NoHold
  <2> QED
    BY <2>3, <2>4
<1>9. ProcOK(p)'
  BY <1>1, <1>3, <1>5 DEF ProcOK, Walking
<1>10. Known(p)'
  <2>1. icache[nxt[p]].ref > 0
    BY <1>1, Referenced
  <2>2. icache'[nxt[p]].valid
    BY <1>1, <1>7, <2>1 DEF CacheStep, Keeps
  <2> QED
    BY <1>5, <2>2 DEF Known
<1> QED
  BY <1>7, <1>8, <1>9, <1>10

-----------------------------------------------------------------------------
(* Steps that move no reference, and references that are forgotten.        *)

LEMMA NamexNoParentOK ==
    ASSUME Inv, NEW p \in Procs, NamexNoParent(p)
    PROVE  Inv'
<1>1. pc[p] = "walk" /\ ip[p] \in Slots /\ nxt[p] = 0 /\ cwd[p] \in Slots
  BY DEF NamexNoParent, Inv, ProcOK, Walking
<1>2. Goto(p, "fail") /\ UNCHANGED <<diskVars, icache, holder, fileVars, cwd, walkVars, ip, nxt, io, leaked, kept>> /\ "fail" \in Points
  BY DEF NamexNoParent, Points
<1>3. icache \in [Slots -> Inodes] /\ holder \in [Slots -> Procs \cup {None}] /\ kept \subseteq Slots
  BY DEF Inv, Typed
<1>4. Typed' /\ Alone(p) /\ FilesStay /\ pc'[p] = "fail"
  BY <1>2, <1>3, MoveFrame
<1>5. CacheStep(p, icache') /\ \A s \in Slots : icache'[s].ref = icache[s].ref
  BY <1>2, StepNone
<1>6. OpenOK'
  BY <1>2, <1>4, <1>5, OpenSame DEF CacheStep, fileVars
<1>7. HoldOK'
  BY <1>1, <1>2, <1>4, HoldSame DEF NoHold
<1>8. ProcOK(p)'
  BY <1>1, <1>2, <1>4 DEF ProcOK, Walking
<1>9. Known(p)'
  BY <1>4 DEF Known
<1> QED
  BY <1>1, <1>2, <1>3, <1>5, <1>6, <1>7, <1>8, <1>9, Moves

LEMMA ExitStartOK ==
    ASSUME Inv, NEW p \in Procs, ExitStart(p)
    PROVE  Inv'
<1>1. pc[p] = "user" /\ ip[p] = 0 /\ nxt[p] = 0 /\ cwd[p] \in Slots
  BY DEF ExitStart, Inv, ProcOK, Walking
<1>2. Goto(p, "exit") /\ UNCHANGED <<diskVars, icache, holder, fileVars, cwd, walkVars, ip, nxt, io, leaked, kept>> /\ "exit" \in Points
  BY DEF ExitStart, Points
<1>3. icache \in [Slots -> Inodes] /\ holder \in [Slots -> Procs \cup {None}] /\ kept \subseteq Slots
  BY DEF Inv, Typed
<1>4. Typed' /\ Alone(p) /\ FilesStay /\ pc'[p] = "exit"
  BY <1>2, <1>3, MoveFrame
<1>5. CacheStep(p, icache') /\ \A s \in Slots : icache'[s].ref = icache[s].ref
  BY <1>2, StepNone
<1>6. OpenOK'
  BY <1>2, <1>4, <1>5, OpenSame DEF CacheStep, fileVars
<1>7. HoldOK'
  BY <1>1, <1>2, <1>4, HoldSame DEF NoHold
<1>8. ProcOK(p)'
  BY <1>1, <1>2, <1>4 DEF ProcOK, Walking
<1>9. Known(p)'
  BY <1>4 DEF Known
<1> QED
  BY <1>1, <1>2, <1>3, <1>5, <1>6, <1>7, <1>8, <1>9, Moves

LEMMA OpenNoFileOK ==
    ASSUME Inv, NEW p \in Procs, OpenNoFile(p)
    PROVE  Inv'
<1>1. pc[p] = "locked" /\ ip[p] \in Slots /\ nxt[p] = 0 /\ cwd[p] \in Slots
  BY DEF OpenNoFile, Inv, ProcOK, Walking
<1>2. /\ Goto(p, "fail") /\ UNCHANGED <<diskVars, icache, fileVars, cwd, walkVars, ip, nxt, io, leaked, kept>> /\ "fail" \in Points
      /\ holder' = Set(holder, ip[p], None)
  BY DEF OpenNoFile, Points
<1>3. icache \in [Slots -> Inodes] /\ holder' \in [Slots -> Procs \cup {None}] /\ kept \subseteq Slots
  BY <1>1, <1>2 DEF Inv, Typed, Set
<1>4. Typed' /\ Alone(p) /\ FilesStay /\ pc'[p] = "fail"
  BY <1>2, <1>3, MoveFrame
<1>5. CacheStep(p, icache') /\ \A s \in Slots : icache'[s].ref = icache[s].ref
  BY <1>2, StepNone
<1>6. OpenOK'
  BY <1>2, <1>4, <1>5, OpenSame DEF CacheStep, fileVars
<1>7. HoldOK'
  BY <1>1, <1>2, <1>4, HoldDrop DEF NoHold, Holding
<1>8. ProcOK(p)'
  BY <1>1, <1>2, <1>4 DEF ProcOK, Walking
<1>9. Known(p)'
  BY <1>4 DEF Known
<1> QED
  BY <1>1, <1>2, <1>3, <1>5, <1>6, <1>7, <1>8, <1>9, Moves

LEMMA DevEnterOK ==
    ASSUME Inv, NEW p \in Procs, DevEnter(p)
    PROVE  Inv'
<1>1. /\ pc[p] = "io" /\ ip[p] = 0 /\ nxt[p] = 0 /\ cwd[p] \in Slots
      /\ io[p].file \in Files /\ \E d \in Fds : ofile[p][d] = io[p].file
  BY DEF DevEnter, Inv, ProcOK, Walking
<1>2. Goto(p, "dev") /\ UNCHANGED <<diskVars, icache, holder, fileVars, cwd, walkVars, ip, nxt, io, leaked, kept>> /\ "dev" \in Points
  BY DEF DevEnter, Points
<1>3. icache \in [Slots -> Inodes] /\ holder \in [Slots -> Procs \cup {None}] /\ kept \subseteq Slots
  BY DEF Inv, Typed
<1>4. Typed' /\ Alone(p) /\ FilesStay /\ pc'[p] = "dev"
  BY <1>2, <1>3, MoveFrame
<1>5. CacheStep(p, icache') /\ \A s \in Slots : icache'[s].ref = icache[s].ref
  BY <1>2, StepNone
<1>6. OpenOK'
  BY <1>2, <1>4, <1>5, OpenSame DEF CacheStep, fileVars
<1>7. HoldOK'
  BY <1>1, <1>2, <1>4, HoldSame DEF NoHold
<1>8. ProcOK(p)'
  BY <1>1, <1>2, <1>4 DEF ProcOK, Walking, fileVars
<1>9. Known(p)'
  <2>1. Inode(p)' = Inode(p) /\ Inode(p).type = "dev"
    BY <1>2 DEF DevEnter, Inode, File, fileVars
  <2> QED
    BY <1>4, <2>1 DEF Known
<1> QED
  BY <1>1, <1>2, <1>3, <1>5, <1>6, <1>7, <1>8, <1>9, Moves

\* The reference of ip is forgotten; the call goes on with entry e or returns.
LEMMA Forgets ==
    ASSUME Inv, NEW p \in Procs, pc[p] \in {"walk", "parent", "exists"}, NEW e \in Slots \cup {0}, NEW l \in {"exists", "user"},
           pc' = Set(pc, p, l), ip' = Set(ip, p, e), l = "user" => e = 0, l = "exists" => e \in Slots /\ kind'[p] \in WantsParent,
           leaked' = [leaked EXCEPT ![ip[p]] = @ + 1], CacheStep(p, icache'),
           Gains(e),
           kind' \in [Procs -> Kinds \cup {"none", "read", "write"}], elems' \in [Procs -> Seq(Elems)],
           \A q \in Procs : q # p => kind'[q] = kind[q] /\ elems'[q] = elems[q],
           holder' \in [Slots -> Procs \cup {None}], kept' \subseteq Slots,
           UNCHANGED <<diskVars, fileVars, cwd, nxt, io>>
    PROVE  /\ Typed' /\ Alone(p) /\ FilesStay /\ pc'[p] = l /\ ip'[p] = e /\ leaked'[ip[p]] > 0 /\ ip[p] \in Slots
           /\ HoldOK' => Inv'
<1>1. ip[p] \in Slots /\ nxt[p] = 0 /\ cwd[p] \in Slots
  BY DEF Inv, ProcOK, Walking
<1>2. /\ pc \in [Procs -> Points] /\ ip \in [Procs -> Slots \cup {0}] /\ nxt \in [Procs -> Nat] /\ cwd \in [Procs -> Slots \cup {0}]
      /\ leaked \in [Slots -> Nat] /\ dinode \in [Inums -> Dinodes]
  BY DEF Inv, Typed
<1>3. leaked' \in [Slots -> Nat] /\ leaked'[ip[p]] > 0 /\ \A s \in Slots : leaked'[s] >= leaked[s]
  BY <1>1, <1>2
<1>4. /\ pc' \in [Procs -> Points] /\ ip' \in [Procs -> Slots \cup {0}] /\ pc'[p] = l /\ ip'[p] = e
      /\ \A q \in Procs : q # p => pc'[q] = pc[q] /\ ip'[q] = ip[q]
  BY <1>2 DEF Set, Points
<1>5. /\ icache' \in [Slots -> Inodes] /\ nxt' \in [Procs -> Nat] /\ cwd' \in [Procs -> Slots \cup {0}]
      /\ dinode' \in [Inums -> Dinodes] /\ nxt' = nxt /\ cwd' = cwd /\ ftable' = ftable
      /\ UNCHANGED <<ents, fileVars, io>>
  BY <1>2 DEF CacheStep, CacheOK, diskVars, fileVars
<1>6. Typed' /\ Alone(p) /\ FilesStay /\ FilesOK'
  <2>1. \A q \in Procs : q # p => /\ pc'[q] = pc[q] /\ kind'[q] = kind[q] /\ elems'[q] = elems[q]
                                  /\ ip'[q] = ip[q] /\ nxt'[q] = nxt[q] /\ cwd'[q] = cwd[q]
    BY <1>4, <1>5
  <2> QED
    BY <1>3, <1>4, <1>5, <2>1, CallFrame
<1>7. RefsOK'
  <2>1. pc[p] # "new" /\ pc'[p] # "new" /\ nxt'[p] = nxt[p] /\ cwd'[p] = cwd[p] /\ ftable' = ftable
    BY <1>4, <1>5
  <2> QED
    BY <1>1, <1>4, <1>6, <2>1, RefsForget
<1>8. OpenOK'
  BY <1>6, OpenSame DEF CacheStep, fileVars
<1>9. ProcOK(p)'
  BY <1>1, <1>4 DEF ProcOK, Walking
<1>10. Known(p)'
  BY <1>4 DEF Known
<1>11. HoldOK' => Inv'
  BY <1>4, <1>6, <1>7, <1>8, <1>9, <1>10, Frame DEF diskVars
<1> QED
  BY <1>1, <1>3, <1>4, <1>6, <1>11

LEMMA CreateFoundOK ==
    ASSUME Inv, NEW p \in Procs, CreateFound(p)
    PROVE  Inv'
<1>1. /\ pc[p] = "parent" /\ ip[p] \in Slots /\ nxt[p] = 0 /\ cwd[p] \in Slots /\ Free(ip[p])
      /\ kind[p] \in WantsParent
  BY DEF CreateFound, Inv, ProcOK, Walking
<1>2. PICK i \in Inums : /\ i = Min(dirlookup(icache[ip[p]].inum, elems[p][1]))
                         /\ dinode[i].nlink > 0 /\ dinode[i].type # "free"
  BY <1>1, Pointed, Found DEF CreateFound
<1>3. /\ icache \in [Slots -> Inodes] /\ holder \in [Slots -> Procs \cup {None}] /\ kept \subseteq Slots
      /\ kind \in [Procs -> Kinds \cup {"none", "read", "write"}] /\ elems \in [Procs -> Seq(Elems)]
      /\ \A s \in Slots : icache[s].ref \in Nat
  <2>1. icache \in [Slots -> Inodes]
    BY DEF Inv, Typed
  <2> QED
    BY <2>1 DEF Inv, Typed, Inodes
<1>4. CacheStep(p, icache)
  BY StepNone
<1>5. UNCHANGED <<diskVars, fileVars, cwd, walkVars, nxt, io, kept>> /\ iget(p, icache, i, "exists")
  BY <1>2 DEF CreateFound
<1>6. CASE CanGet(icache, i)
  <2>1. PICK e : e = Entry(icache, i)
    OBVIOUS
  <2>2. /\ icache' = Got(icache, i) /\ pc' = Set(pc, p, "exists") /\ ip' = Set(ip, p, e)
        /\ leaked' = [leaked EXCEPT ![ip[p]] = @ + 1] /\ holder' = holder
    BY <1>2, <1>5, <1>6, <2>1 DEF CreateFound, iget, Goto, Set
  <2>3. CacheStep(p, icache')
    BY <1>2, <1>4, <1>6, <2>2, StepGot
  <2>4. e \in Slots /\ Gains(e)
    BY <1>2, <1>3, <1>6, <2>1, <2>2, GotRefs DEF One, Gains
  <2>5. Typed' /\ Alone(p) /\ FilesStay /\ pc'[p] = "exists" /\ (HoldOK' => Inv')
    BY <1>1, <1>3, <1>5, <2>2, <2>3, <2>4, Forgets DEF walkVars
  <2>6. HoldOK'
    BY <1>1, <1>5, <2>2, <2>5, HoldSame DEF NoHold
  <2> QED
    BY <2>5, <2>6
<1>7. CASE ~ CanGet(icache, i)
  <2>1. /\ icache' = icache /\ Goto(p, "panic") /\ holder' = Set(holder, ip[p], p) /\ UNCHANGED <<ip, leaked>>
    BY <1>2, <1>5, <1>7 DEF CreateFound, iget
  <2>2. holder' \in [Slots -> Procs \cup {None}] /\ "panic" \in Points
    BY <1>1, <1>3, <2>1 DEF Set, Points
  <2>3. Typed' /\ Alone(p) /\ FilesStay /\ pc'[p] = "panic"
    BY <1>3, <1>5, <2>1, <2>2, MoveFrame
  <2>4. CacheStep(p, icache') /\ \A s \in Slots : icache'[s].ref = icache[s].ref
    BY <1>4, <2>1
  <2>5. OpenOK'
    BY <1>5, <2>3, <2>4, OpenSame DEF CacheStep, fileVars
  <2>6. HoldOK'
    BY <1>1, <1>5, <2>1, <2>3, HoldTake DEF NoHold
  <2>7. ProcOK(p)'
    BY <1>1, <1>5, <2>1, <2>3 DEF ProcOK, Walking
  <2>8. Known(p)'
    BY <2>3 DEF Known
  <2> QED
    BY <1>1, <1>3, <1>5, <2>1, <2>2, <2>4, <2>5, <2>6, <2>7, <2>8, Moves
<1> QED
  BY <1>6, <1>7

LEMMA LoadStep ==
    ASSUME Inv, NEW p \in Procs, ip[p] \in Slots, icache' = Loaded(ip[p])
    PROVE  CacheStep(p, icache') /\ Gains(0)
<1>1. icache[ip[p]].ref > 0 /\ \A q \in Procs : pc[q] = "link" => nxt[q] # ip[p]
  BY Pointed
<1>2. CacheStep(p, icache')
  BY <1>1, StepLoaded
<1>3. \A s \in Slots : icache'[s].ref = icache[s].ref
  BY <1>1, LoadedIs
<1>4. \A s \in Slots : icache[s].ref \in Nat
  <2>1. icache \in [Slots -> Inodes]
    BY DEF Inv, Typed
  <2> QED
    BY <2>1 DEF Inodes
<1>5. \A s \in Slots : One(s = 0) = 0
  BY Ranges DEF One
<1>6. ASSUME NEW s \in Slots PROVE icache'[s].ref = icache[s].ref + One(s = 0)
  <2>1. icache[s].ref \in Nat /\ icache'[s].ref = icache[s].ref /\ One(s = 0) = 0
    BY <1>3, <1>4, <1>5
  <2> QED
    BY <2>1
<1> QED
  BY <1>2, <1>6 DEF Gains

\* The call returns with the reference of ip forgotten.
LEMMA ForgetsAll ==
    ASSUME Inv, NEW p \in Procs, pc[p] \in {"walk", "parent", "exists"}, ip[p] \in Slots, icache' = Loaded(ip[p]), Returns(p),
           leaked' = [leaked EXCEPT ![ip[p]] = @ + 1],
           holder' \in [Slots -> Procs \cup {None}], kept' \subseteq Slots, UNCHANGED <<diskVars, fileVars, cwd, nxt, io>>
    PROVE  /\ Typed' /\ Alone(p) /\ FilesStay /\ pc'[p] = "user" /\ leaked'[ip[p]] > 0
           /\ HoldOK' => Inv'
<1>1. PICK l \in {"exists", "user"}, e \in Slots \cup {0} : l = "user" /\ e = 0
  OBVIOUS
<1>2. CacheStep(p, icache') /\ Gains(e)
  BY <1>1, LoadStep
<1>3. /\ ip' = Set(ip, p, e) /\ elems' = [elems EXCEPT ![p] = <<>>] /\ kind' = [kind EXCEPT ![p] = "none"] /\ pc' = Set(pc, p, l)
  BY <1>1 DEF Returns, Goto, Set
<1>4. /\ kind' \in [Procs -> Kinds \cup {"none", "read", "write"}] /\ elems' \in [Procs -> Seq(Elems)]
      /\ \A q \in Procs : q # p => kind'[q] = kind[q] /\ elems'[q] = elems[q]
  <2>1. <<>> \in Seq(Elems)
    OBVIOUS
  <2> QED
    BY <1>3, <2>1 DEF Inv, Typed
<1>5. (l = "user" => e = 0) /\ (l = "exists" => e \in Slots /\ kind'[p] \in WantsParent)
  BY <1>1
<1>6. /\ Typed' /\ Alone(p) /\ FilesStay /\ pc'[p] = l /\ leaked'[ip[p]] > 0
      /\ HoldOK' => Inv'
  BY <1>2, <1>3, <1>4, <1>5, Forgets, ZenonT(90)
<1> QED
  BY <1>1, <1>6

LEMMA CreateExistsOK ==
    ASSUME Inv, NEW p \in Procs, CreateExists(p)
    PROVE  Inv'
<1>1. pc[p] = "exists" /\ Free(ip[p]) /\ icache' = Loaded(ip[p]) /\ UNCHANGED <<diskVars, fileVars, cwd, nxt, io, kept>> /\ ip[p] \in Slots
  BY DEF CreateExists, Inv, ProcOK, Walking
<1>2. CASE kind[p] = "creat"
  BY <1>1, <1>2, Locks DEF CreateExists, Walked
<1>3. CASE kind[p] # "creat"
  <2>1. leaked' = [leaked EXCEPT ![ip[p]] = @ + 1] /\ holder' = holder /\ Returns(p)
    BY <1>3 DEF CreateExists
  <2>2. holder' \in [Slots -> Procs \cup {None}] /\ kept' \subseteq Slots
    BY <1>1, <2>1 DEF Inv, Typed
  <2>3. Typed' /\ Alone(p) /\ FilesStay /\ pc'[p] = "user" /\ (HoldOK' => Inv')
    BY <1>1, <2>1, <2>2, ForgetsAll
  <2>4. HoldOK'
    BY <1>1, <2>1, <2>3, HoldSame DEF NoHold
  <2> QED
    BY <2>3, <2>4
<1> QED
  BY <1>2, <1>3

LEMMA ExecFailsOK ==
    ASSUME Inv, NEW p \in Procs, ExecFails(p)
    PROVE  Inv'
<1>1. pc[p] = "walk" /\ Free(ip[p]) /\ icache' = Loaded(ip[p]) /\ UNCHANGED <<diskVars, fileVars, cwd, nxt, io>> /\ ip[p] \in Slots
  BY DEF ExecFails, Named, Inv, ProcOK, Walking
<1>2. /\ leaked' = [leaked EXCEPT ![ip[p]] = @ + 1] /\ holder' = Set(holder, ip[p], p) /\ kept' = kept \cup {ip[p]} /\ Returns(p)
  BY DEF ExecFails
<1>3. holder' \in [Slots -> Procs \cup {None}] /\ kept' \subseteq Slots
  BY <1>1, <1>2 DEF Inv, Typed, Set
<1>4. Typed' /\ Alone(p) /\ FilesStay /\ pc'[p] = "user" /\ leaked'[ip[p]] > 0 /\ (HoldOK' => Inv')
  BY <1>1, <1>2, <1>3, ForgetsAll
<1>5. HoldOK'
  BY <1>1, <1>2, <1>4, HoldKeep DEF NoHold
<1> QED
  BY <1>4, <1>5

-----------------------------------------------------------------------------
(* Reading and writing.                                                    *)

\* The table of open files but for the offsets.
SameFiles ==
    \A f \in Files : ftable'[f].ref = ftable[f].ref /\ ftable'[f].type = ftable[f].type /\ ftable'[f].ip = ftable[f].ip

LEMMA RefsIo ==
    ASSUME Inv, NEW p \in Procs, Alone(p), SameFiles, UNCHANGED <<cwd, ip, nxt, leaked>>,
           pc[p] # "new", pc'[p] # "new", \A s \in Slots : icache'[s].ref = icache[s].ref
    PROVE  RefsOK'
<1> SUFFICES ASSUME NEW s \in Slots PROVE icache'[s].ref = Pointers(s)' + leaked'[s]
  BY DEF RefsOK
<1>1. Pointers(s)' = Pointers(s)
  <2>1. /\ \A q \in Procs \ {p} : cwd'[q] = cwd[q] /\ ip'[q] = ip[q] /\ nxt'[q] = nxt[q] /\ pc'[q] = pc[q]
        /\ \A g \in Files \ {1} : ftable'[g].type = ftable[g].type /\ ftable'[g].ip = ftable[g].ip
        /\ 1 \in Files
    BY Ranges DEF Alone, SameFiles
  <2>2. /\ Pointers(s) \in Nat
        /\ Pointers(s)' = Pointers(s)
             + (One(cwd'[p] = s) - One(cwd[p] = s)) + (One(ip'[p] = s) - One(ip[p] = s))
             + (One(pc'[p] # "new" /\ nxt'[p] = s) - One(pc[p] # "new" /\ nxt[p] = s))
             + (One(ftable'[1].type = "inode" /\ ftable'[1].ip = s) - One(ftable[1].type = "inode" /\ ftable[1].ip = s))
    BY <2>1, PointersStep
  <2>3. /\ One(cwd'[p] = s) - One(cwd[p] = s) = 0 /\ One(ip'[p] = s) - One(ip[p] = s) = 0
        /\ One(pc'[p] # "new" /\ nxt'[p] = s) - One(pc[p] # "new" /\ nxt[p] = s) = 0
        /\ One(ftable'[1].type = "inode" /\ ftable'[1].ip = s) - One(ftable[1].type = "inode" /\ ftable[1].ip = s) = 0
    BY <2>1 DEF One, SameFiles
  <2> QED
    BY <2>2, <2>3
<1> QED
  BY <1>1 DEF Inv, RefsOK

\* What a step of fileread() or filewrite() may change.
LEMMA IoFrame ==
    ASSUME Inv, NEW p \in Procs, pc[p] \in {"user", "io", "dev"}, NEW l \in {"user", "io"}, pc' = Set(pc, p, l),
           NEW k \in Kinds \cup {"none", "read", "write"}, kind' = Set(kind, p, k),
           NEW x \in [file : Files \cup {0}, n : Nat, fin : Nat], io' = Set(io, p, x),
           l = "io" => x.file \in Files /\ \E d \in Fds : ofile[p][d] = x.file,
           ftable' \in [Files -> OpenFiles], SameFiles, UNCHANGED <<ents, ofile, cwd, elems, ip, nxt, leaked>>,
           icache' \in [Slots -> Inodes], dinode' \in [Inums -> Dinodes], \A s \in Slots : icache'[s].ref = icache[s].ref,
           holder' \in [Slots -> Procs \cup {None}], kept' \subseteq Slots
    PROVE  /\ Typed' /\ Alone(p) /\ FilesStay /\ RefsOK' /\ FilesOK' /\ ProcOK(p)' /\ Known(p)' /\ pc'[p] = l
<1>1. ip[p] = 0 /\ nxt[p] = 0 /\ cwd[p] \in Slots
  BY DEF Inv, ProcOK, Walking
<1>2. /\ pc' \in [Procs -> Points] /\ kind' \in [Procs -> Kinds \cup {"none", "read", "write"}]
      /\ io' \in [Procs -> [file : Files \cup {0}, n : Nat, fin : Nat]] /\ pc'[p] = l /\ io'[p] = x
      /\ \A q \in Procs : q # p => pc'[q] = pc[q] /\ kind'[q] = kind[q] /\ io'[q] = io[q]
  BY DEF Inv, Typed, Set, Points
<1>3. Typed'
  BY <1>2 DEF Inv, Typed
<1>4. Alone(p)
  BY <1>2 DEF Alone
<1>5. FilesStay
  BY DEF FilesStay, SameFiles
<1>6. FilesOK'
  <2> SUFFICES ASSUME NEW f \in Files
               PROVE  /\ ftable'[f].ref = Cardinality({y \in Procs \X Fds : ofile'[y[1]][y[2]] = f})
                      /\ ftable'[f].ref > 0 <=> ftable'[f].type = "inode"
    BY DEF FilesOK
  <2>1. /\ ftable[f].ref = Cardinality({y \in Procs \X Fds : ofile[y[1]][y[2]] = f})
        /\ ftable[f].ref > 0 <=> ftable[f].type = "inode"
    BY DEF Inv, FilesOK
  <2> QED
    BY <2>1 DEF SameFiles
<1>7. RefsOK'
  BY <1>2, <1>4, RefsIo
<1>8. ProcOK(p)'
  BY <1>1, <1>2 DEF ProcOK, Walking
<1>9. Known(p)'
  BY <1>2 DEF Known
<1> QED
  BY <1>2, <1>3, <1>4, <1>5, <1>6, <1>7, <1>8, <1>9

\* It leaves the inodes alone.
LEMMA IoMoves ==
    ASSUME Inv, NEW p \in Procs, pc[p] \in {"user", "io", "dev"}, NEW l \in {"user", "io"}, pc' = Set(pc, p, l),
           NEW k \in Kinds \cup {"none", "read", "write"}, kind' = Set(kind, p, k),
           NEW x \in [file : Files \cup {0}, n : Nat, fin : Nat], io' = Set(io, p, x),
           l = "io" => x.file \in Files /\ \E d \in Fds : ofile[p][d] = x.file,
           ftable' \in [Files -> OpenFiles], SameFiles, UNCHANGED <<dinode, ents, ofile, cwd, elems, ip, nxt, leaked, icache, holder, kept>>,
           OpenOK'
    PROVE  Inv'
<1>1. /\ icache' \in [Slots -> Inodes] /\ dinode' \in [Inums -> Dinodes] /\ \A s \in Slots : icache'[s].ref = icache[s].ref
      /\ holder' \in [Slots -> Procs \cup {None}] /\ kept' \subseteq Slots
  BY DEF Inv, Typed
<1>2. Typed' /\ Alone(p) /\ FilesStay /\ RefsOK' /\ FilesOK' /\ ProcOK(p)' /\ Known(p)' /\ pc'[p] = l
  BY <1>1, IoFrame
<1>3. CacheStep(p, icache')
  BY StepNone
<1>4. HoldOK'
  BY <1>2, HoldSame DEF NoHold
<1> QED
  BY <1>2, <1>3, <1>4, Frame

\* Only the offset of file f moves, and stays within the inode.
LEMMA OffsetMoves ==
    ASSUME Inv, NEW f \in Files, NEW o \in Nat, ftable' = [ftable EXCEPT ![f].off = o], ftable[f].type = "inode", Keeps(icache, icache'),
           Typed',
           icache'[ftable[f].ip].type = "file" => o <= icache'[ftable[f].ip].size
    PROVE  OpenOK'
<1>1. ftable \in [Files -> OpenFiles]
  BY DEF Inv, Typed
<1>2. ftable'[f].off = o /\ \A g \in Files : ftable'[g].type = ftable[g].type /\ ftable'[g].ip = ftable[g].ip /\ (g # f => ftable'[g].off = ftable[g].off)
  BY <1>1 DEF OpenFiles
<1> SUFFICES ASSUME NEW g \in Files, ftable'[g].type = "inode"
             PROVE  /\ ftable'[g].ip \in Slots /\ icache'[ftable'[g].ip].valid
                    /\ icache'[ftable'[g].ip].type = "file" => ftable'[g].off <= icache'[ftable'[g].ip].size
  BY DEF OpenOK
<1>3. CASE g # f
  BY <1>2, <1>3, OpenKept
<1>4. CASE g = f
  <2>1. ftable[f].ip \in Slots /\ icache[ftable[f].ip].valid
    BY DEF Inv, OpenOK
  <2>2. icache[ftable[f].ip].ref > 0
    BY <2>1, Referenced
  <2>3. icache'[ftable[f].ip].valid
    BY <2>1, <2>2 DEF Keeps
  <2> QED
    BY <1>2, <1>4, <2>1, <2>3
<1> QED
  BY <1>3, <1>4

LEMMA OffsetIs ==
    ASSUME Inv, NEW f \in Files, NEW o \in Nat, ftable' = [ftable EXCEPT ![f].off = o]
    PROVE  ftable' \in [Files -> OpenFiles] /\ SameFiles
<1>1. ftable \in [Files -> OpenFiles]
  BY DEF Inv, Typed
<1>2. [ftable[f] EXCEPT !.off = o] \in OpenFiles /\ [ftable[f] EXCEPT !.off = o].ref = ftable[f].ref
      /\ [ftable[f] EXCEPT !.off = o].type = ftable[f].type /\ [ftable[f] EXCEPT !.off = o].ip = ftable[f].ip
  BY <1>1 DEF OpenFiles
<1>3. ftable' = [ftable EXCEPT ![f] = [ftable[f] EXCEPT !.off = o]]
  OBVIOUS
<1> QED
  BY <1>1, <1>2, <1>3 DEF SameFiles

LEMMA IoStartOK ==
    ASSUME Inv, NEW p \in Procs, NEW d \in Fds, NEW n \in Lengths, NEW k \in {"read", "write"}, IoStart(p, d, n, k)
    PROVE  Inv'
<1>1. ofile[p][d] \in Files /\ n \in Nat
  BY Sizes DEF IoStart, Inv, Typed
<1>2. PICK x \in [file : Files \cup {0}, n : Nat, fin : Nat] : x = [file |-> ofile[p][d], n |-> n, fin |-> 0]
  BY <1>1
<1>3. PICK l \in {"user", "io"} : l = "io"
  OBVIOUS
<1>4. /\ pc[p] = "user" /\ pc' = Set(pc, p, l) /\ kind' = Set(kind, p, k) /\ io' = Set(io, p, x)
      /\ UNCHANGED <<dinode, ents, ofile, cwd, elems, ip, nxt, leaked, icache, holder, kept, ftable>>
  BY <1>2, <1>3 DEF IoStart, Goto, Set, diskVars, fileVars
<1>5. x.file \in Files /\ \E c \in Fds : ofile[p][c] = x.file
  BY <1>1, <1>2
<1>6. ftable' \in [Files -> OpenFiles] /\ SameFiles
  BY <1>4 DEF Inv, Typed, SameFiles
<1>7. OpenOK'
  BY <1>4 DEF Inv, OpenOK
<1>8. k \in Kinds \cup {"none", "read", "write"}
  OBVIOUS
<1> QED
  BY <1>4, <1>5, <1>6, <1>7, <1>8, IoMoves

\* The end of a read or write of which the offset is all that moves.
LEMMA IoEndsOK ==
    ASSUME Inv, NEW p \in Procs, pc[p] \in {"io", "dev"}, IoEnds(p), NEW o \in Nat, ftable' = [ftable EXCEPT ![io[p].file].off = o],
           UNCHANGED <<diskVars, icache, holder, ofile, cwd, elems, ip, nxt, leaked, kept>>,
           Inode(p).type = "file" => o <= Inode(p).size
    PROVE  Inv'
<1>1. PICK f \in Files : f = io[p].file /\ ftable[f].type = "inode"
  BY IoFile
<1>2. PICK l \in {"user", "io"}, x \in [file : Files \cup {0}, n : Nat, fin : Nat], k \in Kinds \cup {"none", "read", "write"} :
          l = "user" /\ x = NoIo /\ k = "none"
  BY DEF NoIo
<1>3. pc' = Set(pc, p, l) /\ kind' = Set(kind, p, k) /\ io' = Set(io, p, x)
  BY <1>2 DEF IoEnds, Goto, Set
<1>4. ftable' \in [Files -> OpenFiles] /\ SameFiles
  BY <1>1, OffsetIs
<1>5. /\ icache' \in [Slots -> Inodes] /\ dinode' \in [Inums -> Dinodes] /\ \A s \in Slots : icache'[s].ref = icache[s].ref
      /\ holder' \in [Slots -> Procs \cup {None}] /\ kept' \subseteq Slots
  BY DEF Inv, Typed, diskVars
<1>6. Typed'
  BY <1>2, <1>3, <1>4, <1>5, IoFrame DEF diskVars
<1>7. Keeps(icache, icache')
  BY StepNone DEF CacheStep
<1>8. OpenOK'
  BY <1>1, <1>6, <1>7, OffsetMoves DEF Inode, File
<1> QED
  BY <1>2, <1>3, <1>4, <1>8, IoMoves DEF diskVars

\* The length and the offset of what a process reads or writes.
LEMMA IoNumbers ==
    ASSUME Inv, NEW p \in Procs, pc[p] \in {"io", "dev"}
    PROVE  /\ io[p].n \in Nat /\ io[p].fin \in Nat /\ ftable[io[p].file].off \in Nat /\ Inode(p).size \in 0..MAXFILE
           /\ Inode(p).type = "file" => ftable[io[p].file].off <= Inode(p).size
           /\ Chunk(p) \in Nat
<1>1. /\ io[p].file \in Files /\ ftable[io[p].file].type = "inode" /\ ftable[io[p].file].ip \in Slots
  BY IoFile
<1>2. io[p] \in [file : Files \cup {0}, n : Nat, fin : Nat]
  BY DEF Inv, Typed
<1>3. ftable[io[p].file] \in OpenFiles /\ icache[ftable[io[p].file].ip] \in Inodes
  BY <1>1 DEF Inv, Typed
<1>4. io[p].n \in Nat /\ io[p].fin \in Nat /\ ftable[io[p].file].off \in Nat /\ Inode(p).size \in 0..MAXFILE
  BY <1>2, <1>3 DEF OpenFiles, Inodes, Inode, File
<1>5. Inode(p).type = "file" => ftable[io[p].file].off <= Inode(p).size
  BY <1>1 DEF Inv, OpenOK, Inode, File
<1>6. Chunk(p) \in Nat
  BY <1>4, Sizes DEF Chunk
<1> QED
  BY <1>4, <1>5, <1>6

LEMMA FileReadOK ==
    ASSUME Inv, NEW p \in Procs, FileRead(p)
    PROVE  Inv'
<1>1. pc[p] = "io" /\ Inode(p).type = "file" /\ IoEnds(p) /\ UNCHANGED <<diskVars, icache, holder, ofile, cwd, elems, ip, nxt, leaked, kept>>
  BY DEF FileRead
<1>2. PICK o \in Nat, n \in Nat, z \in Nat : o = ftable[io[p].file].off /\ n = io[p].n /\ z = Inode(p).size /\ o <= z
  BY <1>1, IoNumbers
<1>3. z - o \in Nat
  BY <1>2
<1>4. PICK m : m = Min({n, z - o})
  OBVIOUS
<1>5. m \in Nat /\ o + m \in Nat /\ o + m <= z
  <2>1. m \in {n, z - o} /\ m <= z - o
    BY <1>3, <1>4, MinOfTwo
  <2> QED
    BY <1>2, <1>3, <2>1
<1>6. ftable' = [ftable EXCEPT ![io[p].file].off = o + m]
  BY <1>2, <1>4 DEF FileRead
<1> QED
  BY <1>1, <1>2, <1>5, <1>6, IoEndsOK

LEMMA DevRefusedOK ==
    ASSUME Inv, NEW p \in Procs, DevRefused(p)
    PROVE  Inv'
<1>1. pc[p] = "io" /\ IoEnds(p) /\ UNCHANGED <<diskVars, icache, holder, ofile, cwd, elems, ip, nxt, leaked, kept>> /\ ftable' = ftable
  BY DEF DevRefused, fileVars
<1>2. PICK o \in Nat : o = ftable[io[p].file].off /\ (Inode(p).type = "file" => o <= Inode(p).size)
  BY <1>1, IoNumbers
<1>3. ftable' = [ftable EXCEPT ![io[p].file].off = o]
  <2>1. io[p].file \in Files /\ ftable \in [Files -> OpenFiles]
    BY <1>1, IoFile DEF Inv, Typed
  <2> QED
    BY <1>1, <1>2, <2>1 DEF OpenFiles
<1> QED
  BY <1>1, <1>2, <1>3, IoEndsOK

LEMMA DirReadOK ==
    ASSUME Inv, NEW p \in Procs, DirRead(p)
    PROVE  Inv'
<1>1. pc[p] = "io" /\ IoEnds(p) /\ UNCHANGED <<diskVars, icache, holder, ofile, cwd, elems, ip, nxt, leaked, kept>>
  BY DEF DirRead
<1>2. PICK o \in Nat, n \in Nat : o = ftable[io[p].file].off /\ n = io[p].n
  BY <1>1, IoNumbers
<1>3. PICK r \in 0..n : ftable' = [ftable EXCEPT ![io[p].file].off = o + r]
  BY <1>2 DEF DirRead
<1>4. Inode(p).type = "dir" /\ o + r \in Nat
  BY <1>2 DEF DirRead
<1> QED
  BY <1>1, <1>3, <1>4, IoEndsOK

LEMMA DevReadOK ==
    ASSUME Inv, NEW p \in Procs, DevRead(p)
    PROVE  Inv'
<1>1. pc[p] = "dev" /\ IoEnds(p) /\ UNCHANGED <<diskVars, icache, holder, ofile, cwd, elems, ip, nxt, leaked, kept>>
  BY DEF DevRead
<1>2. PICK o \in Nat, n \in Nat : o = ftable[io[p].file].off /\ n = io[p].n
  BY <1>1, IoNumbers
<1>3. PICK r \in 0..n : ftable' = [ftable EXCEPT ![io[p].file].off = o + r]
  BY <1>2 DEF DevRead
<1>4. Inode(p).type = "dev" /\ o + r \in Nat
  BY <1>1, <1>2 DEF Inv, Known
<1> QED
  BY <1>1, <1>3, <1>4, IoEndsOK

\* off moves by what one turn of filewrite() has written.
LEMMA WroteIs ==
    ASSUME Inv, NEW p \in Procs, pc[p] \in {"io", "dev"}, Wrote(p, Chunk(p))
    PROVE  \E l \in {"user", "io"}, x \in [file : Files \cup {0}, n : Nat, fin : Nat], k \in Kinds \cup {"none", "read", "write"} :
              /\ pc' = Set(pc, p, l) /\ kind' = Set(kind, p, k) /\ io' = Set(io, p, x)
              /\ l = "io" => x.file \in Files /\ \E d \in Fds : ofile[p][d] = x.file
              /\ ftable' = [ftable EXCEPT ![io[p].file].off = ftable[io[p].file].off + Chunk(p)]
<1>1. PICK c \in Nat : c = Chunk(p)
  BY IoNumbers
<1>2. io[p].file \in Files /\ (\E d \in Fds : ofile[p][d] = io[p].file) /\ io[p].fin \in Nat
  BY IoNumbers DEF Inv, ProcOK
<1>3. io[p] \in [file : Files \cup {0}, n : Nat, fin : Nat] /\ kind \in [Procs -> Kinds \cup {"none", "read", "write"}]
  BY DEF Inv, Typed
<1>4. ftable' = [ftable EXCEPT ![io[p].file].off = ftable[io[p].file].off + c]
  BY <1>1 DEF Wrote
<1>5. CASE io[p].fin + c < io[p].n
  <2>1. PICK x : x = [io[p] EXCEPT !.fin = io[p].fin + c]
    OBVIOUS
  <2>2. x \in [file : Files \cup {0}, n : Nat, fin : Nat] /\ x.file = io[p].file
    BY <1>2, <1>3, <2>1
  <2>3. io' = [io EXCEPT ![p].fin = io[p].fin + c] /\ Goto(p, "io") /\ kind' = kind
    BY <1>1, <1>5 DEF Wrote
  <2>4. pc' = Set(pc, p, "io") /\ kind' = Set(kind, p, kind[p]) /\ io' = Set(io, p, x)
    BY <1>3, <2>1, <2>3 DEF Goto, Set
  <2> QED
    BY <1>1, <1>2, <1>3, <1>4, <2>2, <2>4
<1>6. CASE ~ (io[p].fin + c < io[p].n)
  <2>1. IoEnds(p)
    BY <1>1, <1>6 DEF Wrote
  <2>2. pc' = Set(pc, p, "user") /\ kind' = Set(kind, p, "none") /\ io' = Set(io, p, NoIo)
    BY <2>1 DEF IoEnds, Goto, Set
  <2>3. NoIo \in [file : Files \cup {0}, n : Nat, fin : Nat]
    BY DEF NoIo
  <2> QED
    BY <1>1, <1>4, <2>2, <2>3
<1> QED
  BY <1>5, <1>6

LEMMA DevWriteOK ==
    ASSUME Inv, NEW p \in Procs, DevWrite(p)
    PROVE  Inv'
<1>1. pc[p] = "dev" /\ Wrote(p, Chunk(p)) /\ UNCHANGED <<diskVars, icache, holder, ofile, cwd, elems, ip, nxt, leaked, kept>>
  BY DEF DevWrite
<1>2. PICK l \in {"user", "io"}, x \in [file : Files \cup {0}, n : Nat, fin : Nat], k \in Kinds \cup {"none", "read", "write"} :
              /\ pc' = Set(pc, p, l) /\ kind' = Set(kind, p, k) /\ io' = Set(io, p, x)
              /\ l = "io" => x.file \in Files /\ \E d \in Fds : ofile[p][d] = x.file
              /\ ftable' = [ftable EXCEPT ![io[p].file].off = ftable[io[p].file].off + Chunk(p)]
  BY <1>1, WroteIs
<1>3. PICK o \in Nat : o = ftable[io[p].file].off + Chunk(p)
  BY <1>1, IoNumbers
<1>4. PICK f \in Files : f = io[p].file /\ ftable[f].type = "inode"
  BY <1>1, IoFile
<1>5. ftable' = [ftable EXCEPT ![f].off = o] /\ ftable' \in [Files -> OpenFiles] /\ SameFiles
  BY <1>2, <1>3, <1>4, OffsetIs
<1>6. /\ icache' \in [Slots -> Inodes] /\ dinode' \in [Inums -> Dinodes] /\ \A s \in Slots : icache'[s].ref = icache[s].ref
      /\ holder' \in [Slots -> Procs \cup {None}] /\ kept' \subseteq Slots
  BY <1>1 DEF Inv, Typed, diskVars
<1>7. Typed'
  BY <1>1, <1>2, <1>5, <1>6, IoFrame DEF diskVars
<1>8. Keeps(icache, icache')
  BY <1>1, StepNone DEF CacheStep
<1>9. icache'[ftable[f].ip].type = "dev"
  BY <1>1, <1>4 DEF Inv, Known, Inode, File
<1>10. OpenOK'
  BY <1>4, <1>5, <1>7, <1>8, <1>9, OffsetMoves
<1> QED
  BY <1>1, <1>2, <1>5, <1>10, IoMoves DEF diskVars

LEMMA WriteFailsOK ==
    ASSUME Inv, NEW p \in Procs, WriteFails(p)
    PROVE  Inv'
<1>1. /\ pc[p] = "io" /\ Free(File(p).ip) /\ IoEnds(p) /\ holder' = Set(holder, File(p).ip, p) /\ kept' = kept \cup {File(p).ip}
      /\ UNCHANGED <<diskVars, icache, fileVars, cwd, elems, ip, nxt, leaked>>
  BY DEF WriteFails
<1>2. PICK f \in Files, s \in Slots : f = io[p].file /\ ftable[f].type = "inode" /\ s = ftable[f].ip /\ s = File(p).ip
  BY <1>1, IoFile DEF File
<1>3. PICK l \in {"user", "io"}, x \in [file : Files \cup {0}, n : Nat, fin : Nat], k \in Kinds \cup {"none", "read", "write"} :
          l = "user" /\ x = NoIo /\ k = "none"
  BY DEF NoIo
<1>4. pc' = Set(pc, p, l) /\ kind' = Set(kind, p, k) /\ io' = Set(io, p, x)
  BY <1>1, <1>3 DEF IoEnds, Goto, Set
<1>5. ftable' \in [Files -> OpenFiles] /\ SameFiles /\ icache' \in [Slots -> Inodes] /\ dinode' \in [Inums -> Dinodes]
      /\ (\A t \in Slots : icache'[t].ref = icache[t].ref) /\ holder' \in [Slots -> Procs \cup {None}] /\ kept' \subseteq Slots
  BY <1>1, <1>2 DEF Inv, Typed, SameFiles, diskVars, fileVars, Set
<1>6. /\ Typed' /\ Alone(p) /\ FilesStay /\ RefsOK' /\ FilesOK' /\ ProcOK(p)' /\ Known(p)' /\ pc'[p] = l
  BY <1>1, <1>3, <1>4, <1>5, IoFrame DEF diskVars, fileVars
<1>7. CacheStep(p, icache')
  BY <1>1, StepNone
<1>8. OpenOK'
  BY <1>1, <1>6, <1>7, OpenSame DEF CacheStep, fileVars
<1>9. HoldOK'
  <2>1. ftable'[f].type = "inode" /\ ftable'[f].ip = s
    BY <1>1, <1>2 DEF fileVars
  <2>2. pc[p] \in NoHold /\ pc'[p] \in NoHold
    BY <1>1, <1>3, <1>6 DEF NoHold
  <2> QED
    BY <1>1, <1>2, <1>6, <2>1, <2>2, HoldKeep
<1> QED
  BY <1>1, <1>3, <1>6, <1>7, <1>8, <1>9, Frame DEF diskVars

\* The copy in the cache grows, and the inode on disk with it.
LEMMA FileWriteOK ==
    ASSUME Inv, NEW p \in Procs, FileWrite(p)
    PROVE  Inv'
<1>1. /\ pc[p] = "io" /\ Inode(p).type = "file" /\ Wrote(p, Chunk(p)) /\ File(p).off + Chunk(p) <= MAXFILE
      /\ icache' = [icache EXCEPT ![File(p).ip].size = Max({@, File(p).off + Chunk(p)})]
      /\ dinode' = Updated(icache', File(p).ip)
      /\ UNCHANGED <<ents, holder, ofile, cwd, elems, ip, nxt, leaked, kept>>
  BY DEF FileWrite
<1>2. PICK f \in Files, s \in Slots : /\ f = io[p].file /\ ftable[f].type = "inode" /\ s = ftable[f].ip /\ s = File(p).ip
                                     /\ icache[s].valid /\ icache[s].ref > 0 /\ Inode(p) = icache[s] /\ File(p) = ftable[f]
  BY <1>1, IoFile DEF File, Inode
<1>3. PICK o \in Nat, z \in 0..MAXFILE : o = ftable[f].off + Chunk(p) /\ o <= MAXFILE /\ z = icache[s].size
  <2>1. ftable[f].off \in Nat /\ Chunk(p) \in Nat /\ icache[s].size \in 0..MAXFILE
    BY <1>1, <1>2, IoNumbers
  <2>2. ftable[f].off + Chunk(p) <= MAXFILE
    BY <1>1, <1>2
  <2> QED
    BY <2>1, <2>2
<1>4. PICK m \in 0..MAXFILE : m = Max({z, o}) /\ m >= z /\ m >= o
  <2>1. Max({z, o}) \in {z, o} /\ Max({z, o}) >= z /\ Max({z, o}) >= o
    BY <1>3, MaxOfTwo, Sizes
  <2> QED
    BY <1>3, <2>1, Sizes
<1>5. PICK n : n = [icache[s] EXCEPT !.size = m]
  OBVIOUS
<1>i. PICK i \in Inums : i = icache[s].inum
  BY <1>2 DEF Inv, CacheOK
<1>6. /\ n \in Inodes /\ n.inum = i /\ n.ref = icache[s].ref /\ n.valid /\ n.type = icache[s].type
      /\ n.nlink = icache[s].nlink /\ n.size = m
  <2>1. icache[s] \in Inodes
    BY DEF Inv, Typed
  <2> QED
    BY <1>2, <1>5, <1>i, <2>1 DEF Inodes
<1>7. /\ icache' = [icache EXCEPT ![s] = n] /\ icache' \in [Slots -> Inodes] /\ icache'[s] = n
      /\ \A t \in Slots : t # s => icache'[t] = icache[t]
  <2>1. icache' = [icache EXCEPT ![s] = n]
    BY <1>1, <1>2, <1>3, <1>4, <1>5
  <2>2. icache \in [Slots -> Inodes]
    BY DEF Inv, Typed
  <2> QED
    BY <1>6, <2>1, <2>2
<1>8. PICK dn : dn = [type |-> n.type, nlink |-> n.nlink, size |-> n.size]
  OBVIOUS
<1>9. /\ dinode' = [dinode EXCEPT ![i] = dn] /\ dn \in Dinodes /\ dn.type = dinode[i].type /\ dn.nlink = dinode[i].nlink
      /\ dinode[i].type # "free"
  <2>1. dinode' = [dinode EXCEPT ![i] = dn]
    BY <1>1, <1>2, <1>6, <1>7, <1>8 DEF Updated
  <2>2. dinode[i] = [type |-> icache[s].type, nlink |-> icache[s].nlink, size |-> icache[s].size] /\ dinode[i].type # "free"
    BY <1>2, <1>i DEF Inv, CacheOK
  <2> QED
    BY <1>6, <1>8, <2>1, <2>2 DEF Inodes, Dinodes
<1>10. /\ dinode \in [Inums -> Dinodes] /\ dinode' \in [Inums -> Dinodes] /\ dinode'[i] = dn /\ \A j \in Inums : j # i => dinode'[j] = dinode[j]
  BY <1>9 DEF Inv, Typed
<1>11. \A j \in Inums : dinode'[j].type = dinode[j].type /\ dinode'[j].nlink = dinode[j].nlink
  BY <1>9, <1>10
<1>12. PICK l \in {"user", "io"}, x \in [file : Files \cup {0}, n : Nat, fin : Nat], k \in Kinds \cup {"none", "read", "write"} :
              /\ pc' = Set(pc, p, l) /\ kind' = Set(kind, p, k) /\ io' = Set(io, p, x)
              /\ l = "io" => x.file \in Files /\ \E d \in Fds : ofile[p][d] = x.file
              /\ ftable' = [ftable EXCEPT ![f].off = o]
  <2>1. PICK l \in {"user", "io"}, x \in [file : Files \cup {0}, n : Nat, fin : Nat], k \in Kinds \cup {"none", "read", "write"} :
              /\ pc' = Set(pc, p, l) /\ kind' = Set(kind, p, k) /\ io' = Set(io, p, x)
              /\ l = "io" => x.file \in Files /\ \E d \in Fds : ofile[p][d] = x.file
              /\ ftable' = [ftable EXCEPT ![io[p].file].off = ftable[io[p].file].off + Chunk(p)]
    BY <1>1, WroteIs
  <2>2. ftable' = [ftable EXCEPT ![f].off = o]
    BY <1>2, <1>3, <2>1
  <2> QED
    BY <2>1, <2>2
<1>13. ftable' \in [Files -> OpenFiles] /\ SameFiles
  BY <1>12, OffsetIs
<1>14. \A t \in Slots : icache'[t].ref = icache[t].ref /\ icache'[t].inum = icache[t].inum
  BY <1>5, <1>i, <1>6, <1>7
<1>15. holder' \in [Slots -> Procs \cup {None}] /\ kept' \subseteq Slots
  BY <1>1 DEF Inv, Typed
<1>16. /\ Typed' /\ Alone(p) /\ FilesStay /\ RefsOK' /\ FilesOK' /\ ProcOK(p)' /\ Known(p)' /\ pc'[p] = l
  BY <1>1, <1>7, <1>10, <1>12, <1>13, <1>14, <1>15, IoFrame
<1>17. Keeps(icache, icache')
  <2>1. \A t \in Slots : icache[t].size \in Nat
    <3>1. \A t \in Slots : icache[t] \in Inodes
      BY DEF Inv, Typed
    <3> QED
      BY <3>1, Sizes DEF Inodes
  <2>2. icache'[s].valid /\ icache'[s].type = icache[s].type /\ icache'[s].size >= icache[s].size
    BY <1>3, <1>4, <1>6, <1>7
  <2> QED
    BY <1>7, <1>14, <2>1, <2>2 DEF Keeps
<1>18. OpenOK'
  <2>1. icache'[ftable[f].ip].type = "file" => o <= icache'[ftable[f].ip].size
    BY <1>2, <1>4, <1>6, <1>7
  <2> QED
    BY <1>2, <1>12, <1>16, <1>17, <2>1, OffsetMoves
<1>19. HoldOK'
  BY <1>1, <1>16, HoldSame DEF NoHold
<1>20. CacheOK(icache, dinode)'
  <2>1. ASSUME NEW t \in Slots, icache'[t].ref > 0
        PROVE  /\ icache'[t].inum \in Inums /\ dinode'[icache'[t].inum].type # "free"
               /\ icache'[t].valid => dinode'[icache'[t].inum] = [type |-> icache'[t].type, nlink |-> icache'[t].nlink, size |-> icache'[t].size]
    <3>1. CASE t = s
      BY <1>6, <1>7, <1>8, <1>9, <1>10, <3>1
    <3>2. CASE t # s
      <4>1. icache'[t] = icache[t] /\ icache[t].ref > 0 /\ icache[t].inum # i
        BY <1>2, <1>5, <1>i, <1>7, <2>1, <3>2 DEF Inv, CacheOK
      <4> QED
        BY <1>10, <4>1 DEF Inv, CacheOK
    <3> QED
      BY <3>1, <3>2
  <2>2. \A t, u \in Slots : icache'[t].ref > 0 /\ icache'[u].ref > 0 /\ icache'[t].inum = icache'[u].inum => t = u
    BY <1>14 DEF Inv, CacheOK
  <2> QED
    BY <1>7, <2>1, <2>2 DEF CacheOK
<1>21. TreeOK'
  <2>1. \A j \in Inums : Counted(j)' = Counted(j)
    BY <1>1 DEF Counted
  <2>2. \A j \in Inums : \A e \in ents[j] : e[2] \in Inums
    BY EntryTarget
  <2>3. \A j \in Inums : \A e \in ents'[j] : dinode'[e[2]].type # "free" /\ (e[1] = "." => e[2] = j)
    <3> SUFFICES ASSUME NEW j \in Inums, NEW e \in ents[j]
                 PROVE  dinode'[e[2]].type # "free" /\ (e[1] = "." => e[2] = j)
      BY <1>1
    <3>1. e[2] \in Inums /\ dinode[e[2]].type # "free" /\ (e[1] = "." => e[2] = j)
      BY <2>2 DEF Inv, TreeOK
    <3> QED
      BY <1>11, <3>1
  <2>4. \A j \in Inums : dinode'[j].nlink = Cardinality(Counted(j)')
    BY <1>11, <2>1 DEF Inv, TreeOK
  <2>5. /\ \A j \in Inums : dinode'[j].nlink = 0 => ents'[j] = {}
        /\ \A j \in Inums : dinode'[j].type = "free" => dinode'[j].nlink = 0
        /\ \A j \in Inums : dinode'[j].type = "dir" /\ dinode'[j].nlink > 0 =>
              \A w \in {".", ".."} : \E e \in ents'[j] : e[1] = w
    <3>1. /\ \A j \in Inums : dinode[j].nlink = 0 => ents[j] = {}
          /\ \A j \in Inums : dinode[j].type = "free" => dinode[j].nlink = 0
          /\ \A j \in Inums : dinode[j].type = "dir" /\ dinode[j].nlink > 0 =>
                \A w \in {".", ".."} : \E e \in ents[j] : e[1] = w
      BY DEF Inv, TreeOK
    <3>2. ents' = ents
      BY <1>1
    <3> QED
      BY <1>11, <3>1, <3>2
  <2>6. dinode'[ROOTINO].type = "dir" /\ dinode'[ROOTINO].nlink > 0
    BY <1>11, Ranges DEF Inv, TreeOK
  <2>7. \A j \in Inums : \A e, g \in ents'[j] : e[1] = g[1] => e = g
    BY <1>1 DEF Inv, TreeOK
  <2> QED
    BY <2>3, <2>4, <2>5, <2>6, <2>7 DEF TreeOK
<1>22. Reach'
  <2> SUFFICES ASSUME NEW t \in Slots, icache'[t].ref > 0
               PROVE  dinode'[icache'[t].inum].nlink > 0 \/ \E q \in Procs : pc'[q] = "link" /\ nxt'[q] = t
    BY DEF Reach
  <2>1. icache[t].ref > 0 /\ icache'[t].inum = icache[t].inum /\ icache[t].inum \in Inums
    BY <1>14 DEF Inv, CacheOK
  <2>2. dinode[icache[t].inum].nlink > 0 \/ \E q \in Procs : pc[q] = "link" /\ nxt[q] = t
    BY <2>1 DEF Inv, Reach
  <2>3. \A q \in Procs : pc[q] = "link" => pc'[q] = "link" /\ nxt'[q] = nxt[q]
    BY <1>1, <1>16 DEF Alone
  <2> QED
    BY <1>11, <2>1, <2>2, <2>3
<1>23. NewApart'
  BY <1>16, ApartStays
<1>24. dinode[i].nlink > 0
  <2>1. \A q \in Procs : pc[q] = "link" => nxt[q] # s
    BY <1>2, Lonely
  <2> QED
    BY <1>2, <1>5, <1>i, <2>1 DEF Inv, Reach
<1>25. ASSUME NEW q \in Procs, q # p PROVE Known(q)'
  <2>1. Known(q) /\ ProcOK(q)
    BY DEF Inv
  <2>2. ASSUME pc[q] = "link"
        PROVE  icache'[nxt[q]] = icache[nxt[q]] /\ dinode'[icache[nxt[q]].inum] = dinode[icache[nxt[q]].inum]
    <3>1. nxt[q] \in Slots /\ nxt[q] # s /\ icache[nxt[q]].ref > 0
      BY <1>2, <2>2, Lonely
    <3>2. icache[nxt[q]].inum \in Inums /\ icache[nxt[q]].inum # i
      BY <1>2, <1>5, <1>i, <3>1 DEF Inv, CacheOK
    <3> QED
      BY <1>7, <1>10, <3>1, <3>2
  <2>3. ASSUME pc[q] = "new"
        PROVE  dinode'[nxt[q]] = dinode[nxt[q]] /\ \A t \in Slots : icache'[t].ref > 0 => icache'[t].inum # nxt[q]
    <3>1. nxt[q] \in Inums /\ dinode[nxt[q]].nlink = 0
      BY <2>1, <2>3 DEF ProcOK, Known, NewDinode
    <3>2. nxt[q] # i
      BY <1>24, <3>1
    <3> QED
      BY <1>10, <1>14, <2>1, <2>3, <3>1, <3>2 DEF Known
  <2> QED
    BY <1>1, <1>16, <1>17, <1>25, <2>2, <2>3, KnownOthers
<1>26. \A q \in Procs : ProcOK(q)' /\ Known(q)'
  BY <1>16, <1>25, ProcOthers
<1> QED
  BY <1>16, <1>18, <1>19, <1>20, <1>21, <1>22, <1>23, <1>26 DEF Inv

-----------------------------------------------------------------------------
(* Descriptors.                                                            *)

\* The descriptors of a table of descriptors that stand for file f.
Descriptors(of, f) == {x \in Procs \X Fds : of[x[1]][x[2]] = f}
Count(of, f)       == Cardinality(Descriptors(of, f))

\* What giving descriptor d of p the value g does to these numbers.
Recounted(p, d, g) ==
    \A f \in Files :
        /\ Count(ofile, f) \in Nat /\ Count(ofile', f) \in Nat
        /\ g = f /\ ofile[p][d] # f => Count(ofile', f) = Count(ofile, f) + 1
        /\ g # f /\ ofile[p][d] = f => Count(ofile', f) = Count(ofile, f) - 1
        /\ (g = f <=> ofile[p][d] = f) => Count(ofile', f) = Count(ofile, f)

\* One descriptor changes.
LEMMA DescriptorStep ==
    ASSUME Inv, NEW p \in Procs, NEW d \in Fds, NEW g \in Files \cup {0}, ofile' = [ofile EXCEPT ![p][d] = g]
    PROVE  /\ ofile' \in [Procs -> [Fds -> Files \cup {0}]]
           /\ \A q \in Procs : q # p => ofile'[q] = ofile[q]
           /\ Recounted(p, d, g)
<1>1. ofile \in [Procs -> [Fds -> Files \cup {0}]]
  BY DEF Inv, Typed
<1>2. PICK r \in [Fds -> Files \cup {0}] : r = [ofile[p] EXCEPT ![d] = g]
  BY <1>1
<1>3. ofile' = [ofile EXCEPT ![p] = r]
  BY <1>2
<1>4. /\ ofile' \in [Procs -> [Fds -> Files \cup {0}]] /\ ofile'[p] = r /\ \A q \in Procs : q # p => ofile'[q] = ofile[q]
  BY <1>1, <1>2, <1>3
<1>5. r[d] = g /\ \A c \in Fds : c # d => r[c] = ofile[p][c]
  BY <1>1, <1>2
<1>6. ASSUME NEW f \in Files
      PROVE  /\ Count(ofile, f) \in Nat /\ Count(ofile', f) \in Nat
             /\ g = f /\ ofile[p][d] # f => Count(ofile', f) = Count(ofile, f) + 1
             /\ g # f /\ ofile[p][d] = f => Count(ofile', f) = Count(ofile, f) - 1
             /\ (g = f <=> ofile[p][d] = f) => Count(ofile', f) = Count(ofile, f)
  <2>1. PICK A \in SUBSET (Procs \X Fds), B \in SUBSET (Procs \X Fds) : A = Descriptors(ofile, f) /\ B = Descriptors(ofile', f)
    BY DEF Descriptors
  <2>2. /\ \A q \in Procs, c \in Fds : <<q, c>> \in A <=> ofile[q][c] = f
        /\ \A q \in Procs, c \in Fds : <<q, c>> \in B <=> ofile'[q][c] = f
    BY <2>1 DEF Descriptors
  <2>3. \A y \in Procs \X Fds : y # <<p, d>> => (y \in A <=> y \in B)
    <3> SUFFICES ASSUME NEW q \in Procs, NEW c \in Fds, <<q, c>> # <<p, d>> PROVE <<q, c>> \in A <=> <<q, c>> \in B
      OBVIOUS
    <3>1. CASE q # p
      BY <1>4, <2>2, <3>1
    <3>2. CASE q = p
      <4>1. c # d
        BY <3>2
      <4> QED
        BY <1>4, <1>5, <2>2, <3>2, <4>1
    <3> QED
      BY <3>1, <3>2
  <2>4. PICK x \in Procs \X Fds : x = <<p, d>>
    OBVIOUS
  <2>5. /\ Cardinality(A) \in Nat /\ Cardinality(B) \in Nat
        /\ Cardinality(B) = Cardinality(A) + One(x \in B) - One(x \in A)
    BY <2>3, <2>4, Finite, OneChange
  <2>6. (x \in B <=> g = f) /\ (x \in A <=> ofile[p][d] = f)
    BY <1>4, <1>5, <2>2, <2>4
  <2>7. /\ g = f /\ ofile[p][d] # f => Cardinality(B) = Cardinality(A) + 1
        /\ g # f /\ ofile[p][d] = f => Cardinality(B) = Cardinality(A) - 1
        /\ (g = f <=> ofile[p][d] = f) => Cardinality(B) = Cardinality(A)
    BY <2>5, <2>6 DEF One
  <2> QED
    BY <2>1, <2>5, <2>7 DEF Count
<1> QED
  BY <1>4, <1>6 DEF Recounted

\* The first free descriptor and the first free entry of the table.
LEMMA FirstFree ==
    ASSUME NEW p \in Procs
    PROVE  /\ FreeFds(p) # {} => Min(FreeFds(p)) \in Fds /\ ofile[p][Min(FreeFds(p))] = 0
           /\ FreeFiles # {} => Min(FreeFiles) \in Files /\ ftable[Min(FreeFiles)].ref = 0
<1>1. FreeFds(p) \in SUBSET Nat /\ FreeFiles \in SUBSET Nat
  BY Ranges DEF FreeFds, FreeFiles
<1>2. (FreeFds(p) # {} => Min(FreeFds(p)) \in FreeFds(p)) /\ (FreeFiles # {} => Min(FreeFiles) \in FreeFiles)
  BY <1>1, Lowest
<1> QED
  BY <1>2 DEF FreeFds, FreeFiles

\* A step that opens, closes or duplicates a file.
LEMMA TableFrame ==
    ASSUME Inv, NEW p \in Procs, pc[p] \in {"user", "exit", "locked"}, NEW f \in Files, NEW d \in Fds, NEW g \in Files \cup {0}, NEW x \in OpenFiles,
           ofile' = [ofile EXCEPT ![p][d] = g], ftable' = [ftable EXCEPT ![f] = x], g = f \/ g = 0, ofile[p][d] \in {0, f},
           x.ref = ftable[f].ref + One(g = f) - One(ofile[p][d] = f), x.ref > 0 <=> x.type = "inode"
    PROVE  /\ ofile' \in [Procs -> [Fds -> Files \cup {0}]] /\ ftable' \in [Files -> OpenFiles]
           /\ \A q \in Procs : q # p => ofile'[q] = ofile[q]
           /\ ftable'[f] = x /\ \A h \in Files : h # f => ftable'[h] = ftable[h]
           /\ FilesOK'
<1>1. ofile' \in [Procs -> [Fds -> Files \cup {0}]] /\ \A q \in Procs : q # p => ofile'[q] = ofile[q]
  BY DescriptorStep
<1>2. ftable' \in [Files -> OpenFiles] /\ ftable'[f] = x /\ \A h \in Files : h # f => ftable'[h] = ftable[h]
  BY DEF Inv, Typed
<1>c. Recounted(p, d, g)
  BY DescriptorStep
<1>3. ASSUME NEW h \in Files
      PROVE  ftable'[h].ref = Count(ofile', h) /\ (ftable'[h].ref > 0 <=> ftable'[h].type = "inode")
  <2>1. ftable[h].ref = Count(ofile, h) /\ (ftable[h].ref > 0 <=> ftable[h].type = "inode")
    BY DEF Inv, FilesOK, Count, Descriptors
  <2>2. /\ Count(ofile, h) \in Nat /\ Count(ofile', h) \in Nat
        /\ g = h /\ ofile[p][d] # h => Count(ofile', h) = Count(ofile, h) + 1
        /\ g # h /\ ofile[p][d] = h => Count(ofile', h) = Count(ofile, h) - 1
        /\ (g = h <=> ofile[p][d] = h) => Count(ofile', h) = Count(ofile, h)
    BY <1>c DEF Recounted
  <2>3. CASE h = f
    <3>1. x.ref = Count(ofile', h)
      BY <2>1, <2>2, <2>3, Ranges DEF One
    <3> QED
      BY <1>2, <2>3, <3>1
  <2>4. CASE h # f
    <3>1. g # h /\ ofile[p][d] # h
      BY <2>4, Ranges
    <3>2. Count(ofile', h) = Count(ofile, h)
      BY <2>2, <3>1
    <3> QED
      BY <1>2, <2>1, <2>4, <3>2
  <2> QED
    BY <2>3, <2>4
<1>4. FilesOK'
  BY <1>3 DEF FilesOK, Count, Descriptors
<1> QED
  BY <1>1, <1>2, <1>4

LEMMA DupOK ==
    ASSUME Inv, NEW p \in Procs, NEW c \in Fds, Dup(p, c)
    PROVE  Inv'
<1>1. /\ pc[p] = "user" /\ ip[p] = 0 /\ nxt[p] = 0 /\ cwd[p] \in Slots
      /\ UNCHANGED <<diskVars, icache, holder, cwd, pc, walkVars, ip, nxt, io, leaked, kept>>
  BY DEF Dup, Inv, ProcOK, Walking
<1>2. PICK f \in Files, d \in Fds : f = ofile[p][c] /\ d = Min(FreeFds(p)) /\ ofile[p][d] = 0
  <2>1. ofile[p][c] \in Files
    BY DEF Dup, Inv, Typed
  <2> QED
    BY <2>1, FirstFree DEF Dup
<1>3. ftable[f].ref > 0 /\ ftable[f].type = "inode"
  <2>1. PICK A \in SUBSET (Procs \X Fds) : A = {y \in Procs \X Fds : ofile[y[1]][y[2]] = f}
    OBVIOUS
  <2>2. <<p, c>> \in A /\ ftable[f].ref = Cardinality(A) /\ (ftable[f].ref > 0 <=> ftable[f].type = "inode")
    BY <1>2, <2>1 DEF Inv, FilesOK
  <2> QED
    BY <2>2, Finite, AtLeastOne
<1>4. PICK x \in OpenFiles : /\ x = [ftable[f] EXCEPT !.ref = ftable[f].ref + 1] /\ x.ref = ftable[f].ref + 1 /\ x.type = ftable[f].type
                             /\ x.ip = ftable[f].ip /\ x.off = ftable[f].off
  <2>1. ftable[f] \in OpenFiles
    BY DEF Inv, Typed
  <2>2. PICK x : x = [ftable[f] EXCEPT !.ref = ftable[f].ref + 1]
    OBVIOUS
  <2>3. /\ x \in OpenFiles /\ x.ref = ftable[f].ref + 1 /\ x.type = ftable[f].type
        /\ x.ip = ftable[f].ip /\ x.off = ftable[f].off
    BY <2>1, <2>2 DEF OpenFiles
  <2> QED
    BY <2>2, <2>3
<1>5. ofile' = [ofile EXCEPT ![p][d] = f] /\ ftable' = [ftable EXCEPT ![f] = x]
  BY <1>2, <1>4 DEF Dup
<1>g. PICK g \in Files \cup {0} : g = f
  OBVIOUS
<1>6. x.ref = ftable[f].ref + One(g = f) - One(ofile[p][d] = f) /\ (x.ref > 0 <=> x.type = "inode")
  <2>1. ftable[f].ref \in Nat
    BY DEF Inv, Typed, OpenFiles
  <2>2. One(g = f) = 1 /\ One(ofile[p][d] = f) = 0
    BY <1>2, <1>g, Ranges DEF One
  <2> QED
    BY <1>3, <1>4, <2>1, <2>2
<1>7. /\ ofile' \in [Procs -> [Fds -> Files \cup {0}]] /\ ftable' \in [Files -> OpenFiles]
      /\ \A q \in Procs : q # p => ofile'[q] = ofile[q]
      /\ ftable'[f] = x /\ \A h \in Files : h # f => ftable'[h] = ftable[h]
      /\ FilesOK'
  <2>1. ofile' = [ofile EXCEPT ![p][d] = g] /\ (g = f \/ g = 0) /\ ofile[p][d] \in {0, f} /\ pc[p] \in {"user", "exit", "locked"}
    BY <1>1, <1>2, <1>5, <1>g
  <2> QED
    BY <1>5, <1>6, <2>1, TableFrame
<1>8. Typed' /\ Alone(p)
  BY <1>1, <1>7 DEF Inv, Typed, Alone, diskVars, walkVars
<1>9. \A h \in Files : ftable'[h].type = ftable[h].type /\ ftable'[h].ip = ftable[h].ip /\ ftable'[h].off = ftable[h].off
  BY <1>4, <1>7
<1>10. FilesStay
  BY <1>1, <1>9 DEF FilesStay
<1>11. CacheStep(p, icache')
  BY <1>1, StepNone
<1>12. RefsOK'
  <2>1. \A s \in Slots : Pointers(s)' = Pointers(s)
    BY <1>1, <1>9 DEF Pointers
  <2> QED
    BY <1>1, <2>1 DEF Inv, RefsOK
<1>13. OpenOK'
  BY <1>8, <1>9, <1>11, OpenKept DEF OpenOK, CacheStep
<1>14. HoldOK'
  BY <1>1, <1>8, <1>10, HoldSame DEF NoHold
<1>15. ProcOK(p)' /\ Known(p)'
  BY <1>1 DEF ProcOK, Known, Walking
<1> QED
  BY <1>1, <1>7, <1>8, <1>10, <1>11, <1>12, <1>13, <1>14, <1>15, Frame DEF diskVars

LEMMA CloseOK ==
    ASSUME Inv, NEW p \in Procs, NEW d \in Fds, pc[p] \in {"user", "exit"}, ofile[p][d] # 0, fileclose(p, d),
           UNCHANGED <<diskVars, icache, holder, cwd, pc, walkVars, ip, nxt, io, kept>>
    PROVE  Inv'
<1>1. ip[p] = 0 /\ nxt[p] = 0 /\ cwd[p] \in Slots
  BY DEF Inv, ProcOK, Walking
<1>2. PICK f \in Files : f = ofile[p][d]
  BY DEF Inv, Typed
<1>3. ftable[f].ref > 0 /\ ftable[f].type = "inode" /\ ftable[f].ip \in Slots
  <2>1. PICK A \in SUBSET (Procs \X Fds) : A = {y \in Procs \X Fds : ofile[y[1]][y[2]] = f}
    OBVIOUS
  <2>2. <<p, d>> \in A /\ ftable[f].ref = Cardinality(A) /\ (ftable[f].ref > 0 <=> ftable[f].type = "inode")
    BY <1>2, <2>1 DEF Inv, FilesOK
  <2>3. ftable[f].ref > 0
    BY <2>2, Finite, AtLeastOne
  <2> QED
    BY <2>2, <2>3 DEF Inv, OpenOK
<1>4. PICK t \in {"none", "inode"} : t = IF ftable[f].ref = 1 THEN "none" ELSE ftable[f].type
  BY <1>3
<1>5. ftable[f] \in OpenFiles /\ ftable[f].ref \in Nat /\ ftable[f].ref - 1 \in Nat
  <2>1. ftable[f] \in OpenFiles
    BY DEF Inv, Typed
  <2> QED
    BY <1>3, <2>1 DEF OpenFiles
<1>6. PICK x \in OpenFiles : /\ x = [ftable[f] EXCEPT !.ref = ftable[f].ref - 1, !.type = t] /\ x.ref = ftable[f].ref - 1
                             /\ x.type = t /\ x.ip = ftable[f].ip /\ x.off = ftable[f].off
  <2>1. PICK x : x = [ftable[f] EXCEPT !.ref = ftable[f].ref - 1, !.type = t]
    OBVIOUS
  <2>2. x \in OpenFiles /\ x.ref = ftable[f].ref - 1 /\ x.type = t /\ x.ip = ftable[f].ip /\ x.off = ftable[f].off
    BY <1>5, <2>1 DEF OpenFiles
  <2> QED
    BY <2>1, <2>2
<1>7. ofile' = [ofile EXCEPT ![p][d] = 0] /\ ftable' = [ftable EXCEPT ![f] = x]
  <2>1. ftable' = [ftable EXCEPT ![f].ref = ftable[f].ref - 1, ![f].type = IF ftable[f].ref = 1 THEN "none" ELSE ftable[f].type]
    BY <1>2, <1>5 DEF fileclose, Inv, Typed, OpenFiles
  <2>2. ftable' = [ftable EXCEPT ![f] = [ftable[f] EXCEPT !.ref = ftable[f].ref - 1, !.type = t]]
    BY <1>4, <1>5, <2>1 DEF Inv, Typed
  <2> QED
    BY <1>6, <2>2 DEF fileclose
<1>8. x.ref = ftable[f].ref + One(0 = f) - One(ofile[p][d] = f) /\ (x.ref > 0 <=> x.type = "inode")
  <2>1. One(0 = f) = 0 /\ One(ofile[p][d] = f) = 1
    BY <1>2, Ranges DEF One
  <2> QED
    BY <1>3, <1>4, <1>5, <1>6, <2>1
<1>9. /\ ofile' \in [Procs -> [Fds -> Files \cup {0}]] /\ ftable' \in [Files -> OpenFiles]
      /\ \A q \in Procs : q # p => ofile'[q] = ofile[q]
      /\ ftable'[f] = x /\ \A h \in Files : h # f => ftable'[h] = ftable[h]
      /\ FilesOK'
  BY <1>2, <1>7, <1>8, TableFrame
<1>10. leaked' = IF ftable[f].ref = 1 THEN [leaked EXCEPT ![ftable[f].ip] = @ + 1] ELSE leaked
  BY <1>2 DEF fileclose
<1>11. leaked \in [Slots -> Nat]
  BY DEF Inv, Typed
<1>12. /\ leaked' \in [Slots -> Nat] /\ \A s \in Slots : leaked'[s] = leaked[s] + One(ftable[f].ref = 1 /\ s = ftable[f].ip)
  BY <1>3, <1>10, <1>11 DEF One
<1>13. Typed' /\ Alone(p)
  BY <1>9, <1>12 DEF Inv, Typed, Alone, diskVars, walkVars
<1>14. FilesStay
  <2>1. \A s \in Slots : leaked[s] > 0 => leaked'[s] > 0
    BY <1>11, <1>12 DEF One
  <2>2. x.type = "inode" \/ leaked'[ftable[f].ip] > 0
    BY <1>3, <1>4, <1>6, <1>11, <1>12 DEF One
  <2> QED
    BY <1>6, <1>9, <2>1, <2>2 DEF FilesStay
<1>15. CacheStep(p, icache')
  BY StepNone
<1>16. RefsOK'
  <2> SUFFICES ASSUME NEW s \in Slots PROVE icache'[s].ref = Pointers(s)' + leaked'[s]
    BY DEF RefsOK
  <2>1. /\ \A q \in Procs \ {p} : cwd'[q] = cwd[q] /\ ip'[q] = ip[q] /\ nxt'[q] = nxt[q] /\ pc'[q] = pc[q]
        /\ \A h \in Files \ {f} : ftable'[h].type = ftable[h].type /\ ftable'[h].ip = ftable[h].ip
    BY <1>9
  <2>2. /\ Pointers(s) \in Nat /\ Pointers(s)' \in Nat
        /\ Pointers(s)' = Pointers(s)
             + (One(cwd'[p] = s) - One(cwd[p] = s)) + (One(ip'[p] = s) - One(ip[p] = s))
             + (One(pc'[p] # "new" /\ nxt'[p] = s) - One(pc[p] # "new" /\ nxt[p] = s))
             + (One(ftable'[f].type = "inode" /\ ftable'[f].ip = s) - One(ftable[f].type = "inode" /\ ftable[f].ip = s))
    BY <2>1, PointersStep
  <2>3. One(ftable'[f].type = "inode" /\ ftable'[f].ip = s) - One(ftable[f].type = "inode" /\ ftable[f].ip = s) = - One(ftable[f].ref = 1 /\ s = ftable[f].ip)
    BY <1>3, <1>4, <1>6, <1>9 DEF One
  <2>4. /\ One(cwd'[p] = s) - One(cwd[p] = s) = 0 /\ One(ip'[p] = s) - One(ip[p] = s) = 0
        /\ One(pc'[p] # "new" /\ nxt'[p] = s) - One(pc[p] # "new" /\ nxt[p] = s) = 0
    BY DEF One
  <2>5. PICK b \in {0, 1} : b = One(ftable[f].ref = 1 /\ s = ftable[f].ip)
    BY DEF One
  <2>6. Pointers(s)' = Pointers(s) - b
    BY <2>2, <2>3, <2>4, <2>5
  <2>7. leaked'[s] = leaked[s] + b /\ leaked[s] \in Nat
    BY <1>11, <1>12, <2>5
  <2>8. icache[s].ref = Pointers(s) + leaked[s] /\ icache'[s].ref = icache[s].ref
    BY DEF Inv, RefsOK
  <2> QED
    BY <2>2, <2>6, <2>7, <2>8
<1>17. OpenOK'
  <2>1. \A h \in Files : ftable'[h].type = "inode" => ftable[h].type = "inode" /\ ftable'[h].ip = ftable[h].ip /\ ftable'[h].off = ftable[h].off
    BY <1>3, <1>6, <1>9
  <2> QED
    BY <1>13, <1>15, <2>1, OpenKept DEF OpenOK, CacheStep
<1>18. HoldOK'
  BY <1>1, <1>13, <1>14, HoldSame DEF NoHold
<1>19. ProcOK(p)' /\ Known(p)'
  BY <1>1 DEF ProcOK, Known, Walking
<1> QED
  BY <1>9, <1>13, <1>14, <1>15, <1>16, <1>17, <1>18, <1>19, Frame DEF diskVars

LEMMA ExitCloseOK ==
    ASSUME Inv, NEW p \in Procs, ExitClose(p)
    PROVE  Inv'
<1>1. Fds \ FreeFds(p) \in SUBSET Nat /\ Fds \ FreeFds(p) # {}
  BY Ranges DEF ExitClose, FreeFds
<1>2. PICK d \in Fds : d = Min(Fds \ FreeFds(p)) /\ ofile[p][d] # 0
  BY <1>1, Lowest DEF FreeFds
<1> QED
  BY <1>2, CloseOK DEF ExitClose

LEMMA OpenFileOK ==
    ASSUME Inv, NEW p \in Procs, OpenFile(p)
    PROVE  Inv'
<1>1. pc[p] = "locked" /\ ip[p] \in Slots /\ nxt[p] = 0 /\ cwd[p] \in Slots /\ icache[ip[p]].valid
  BY DEF OpenFile, Inv, ProcOK, Walking, Known
<1>2. PICK s \in Slots, f \in Files, d \in Fds : s = ip[p] /\ f = Min(FreeFiles) /\ d = Min(FreeFds(p)) /\ ftable[f].ref = 0 /\ ofile[p][d] = 0
  BY <1>1, FirstFree DEF OpenFile
<1>3. PICK x \in OpenFiles : x = [ref |-> 1, type |-> "inode", ip |-> s, off |-> 0]
  BY DEF OpenFiles
<1>4. /\ ofile' = [ofile EXCEPT ![p][d] = f] /\ ftable' = [ftable EXCEPT ![f] = x] /\ holder' = Set(holder, s, None)
      /\ UNCHANGED <<diskVars, icache, cwd, nxt, io, leaked, kept>>
  BY <1>2, <1>3 DEF OpenFile, Set
<1>5. pc' = [pc EXCEPT ![p] = "user"] /\ ip' = [ip EXCEPT ![p] = 0] /\ elems' = [elems EXCEPT ![p] = <<>>] /\ kind' = [kind EXCEPT ![p] = "none"]
  BY DEF OpenFile, Returns, Goto, Set
<1>g. PICK g \in Files \cup {0} : g = f
  OBVIOUS
<1>6. x.ref = ftable[f].ref + One(g = f) - One(ofile[p][d] = f) /\ (x.ref > 0 <=> x.type = "inode")
  <2>1. One(g = f) = 1 /\ One(ofile[p][d] = f) = 0
    BY <1>2, <1>g, Ranges DEF One
  <2> QED
    BY <1>2, <1>3, <2>1
<1>7. /\ ofile' \in [Procs -> [Fds -> Files \cup {0}]] /\ ftable' \in [Files -> OpenFiles]
      /\ \A q \in Procs : q # p => ofile'[q] = ofile[q]
      /\ ftable'[f] = x /\ \A h \in Files : h # f => ftable'[h] = ftable[h]
      /\ FilesOK'
  <2>1. ofile' = [ofile EXCEPT ![p][d] = g] /\ (g = f \/ g = 0) /\ ofile[p][d] \in {0, f} /\ pc[p] \in {"user", "exit", "locked"}
    BY <1>1, <1>2, <1>4, <1>g
  <2> QED
    BY <1>4, <1>6, <2>1, TableFrame
<1>8. ftable[f].type # "inode"
  <2>1. ftable[f].ref > 0 <=> ftable[f].type = "inode"
    BY DEF Inv, FilesOK
  <2> QED
    BY <1>2, <2>1
<1>9. /\ pc' \in [Procs -> Points] /\ kind' \in [Procs -> Kinds \cup {"none", "read", "write"}] /\ elems' \in [Procs -> Seq(Elems)]
      /\ ip' \in [Procs -> Slots \cup {0}] /\ pc'[p] = "user" /\ ip'[p] = 0 /\ holder' \in [Slots -> Procs \cup {None}]
      /\ \A q \in Procs : q # p => pc'[q] = pc[q] /\ kind'[q] = kind[q] /\ elems'[q] = elems[q] /\ ip'[q] = ip[q]
  <2>1. <<>> \in Seq(Elems)
    OBVIOUS
  <2> QED
    BY <1>4, <1>5, <2>1 DEF Inv, Typed, Points, Set
<1>10. Typed' /\ Alone(p)
  BY <1>4, <1>7, <1>9 DEF Inv, Typed, Alone, diskVars
<1>11. FilesStay
  BY <1>4, <1>7, <1>8 DEF FilesStay
<1>12. CacheStep(p, icache')
  BY <1>4, StepNone
<1>13. RefsOK'
  <2> SUFFICES ASSUME NEW t \in Slots PROVE icache'[t].ref = Pointers(t)' + leaked'[t]
    BY DEF RefsOK
  <2>1. /\ \A q \in Procs \ {p} : cwd'[q] = cwd[q] /\ ip'[q] = ip[q] /\ nxt'[q] = nxt[q] /\ pc'[q] = pc[q]
        /\ \A h \in Files \ {f} : ftable'[h].type = ftable[h].type /\ ftable'[h].ip = ftable[h].ip
    BY <1>4, <1>7, <1>9
  <2>2. /\ Pointers(t) \in Nat /\ Pointers(t)' \in Nat
        /\ Pointers(t)' = Pointers(t)
             + (One(cwd'[p] = t) - One(cwd[p] = t)) + (One(ip'[p] = t) - One(ip[p] = t))
             + (One(pc'[p] # "new" /\ nxt'[p] = t) - One(pc[p] # "new" /\ nxt[p] = t))
             + (One(ftable'[f].type = "inode" /\ ftable'[f].ip = t) - One(ftable[f].type = "inode" /\ ftable[f].ip = t))
    BY <2>1, PointersStep
  <2>3. One(ftable'[f].type = "inode" /\ ftable'[f].ip = t) - One(ftable[f].type = "inode" /\ ftable[f].ip = t) = One(s = t)
    BY <1>3, <1>7, <1>8 DEF One
  <2>4. /\ One(cwd'[p] = t) - One(cwd[p] = t) = 0 /\ One(ip'[p] = t) - One(ip[p] = t) = - One(s = t)
        /\ One(pc'[p] # "new" /\ nxt'[p] = t) - One(pc[p] # "new" /\ nxt[p] = t) = 0
    BY <1>1, <1>2, <1>4, <1>9, Ranges DEF One
  <2>5. PICK b \in {0, 1} : b = One(s = t)
    BY DEF One
  <2>6. Pointers(t)' = Pointers(t)
    BY <2>2, <2>3, <2>4, <2>5
  <2> QED
    BY <1>4, <2>6 DEF Inv, RefsOK
<1>14. OpenOK'
  <2> SUFFICES ASSUME NEW h \in Files, ftable'[h].type = "inode"
               PROVE  /\ ftable'[h].ip \in Slots /\ icache'[ftable'[h].ip].valid
                      /\ icache'[ftable'[h].ip].type = "file" => ftable'[h].off <= icache'[ftable'[h].ip].size
    BY DEF OpenOK
  <2>1. CASE h # f
    BY <1>7, <1>10, <1>12, <2>1, OpenKept DEF CacheStep
  <2>2. CASE h = f
    <3>1. ftable'[h].ip = s /\ ftable'[h].off = 0 /\ icache' = icache
      BY <1>3, <1>4, <1>7, <2>2
    <3>2. icache[s].size \in Nat
      <4>1. icache[s] \in Inodes
        BY DEF Inv, Typed
      <4> QED
        BY <4>1, Sizes DEF Inodes
    <3> QED
      BY <1>1, <1>2, <3>1, <3>2
  <2> QED
    BY <2>1, <2>2
<1>15. HoldOK'
  <2>1. Holding(p, s) /\ kept' = kept /\ pc'[p] \in NoHold /\ pc[p] # "panic"
    BY <1>1, <1>2, <1>4, <1>9 DEF Holding, NoHold
  <2> QED
    BY <1>4, <1>10, <1>11, <2>1, HoldDrop
<1>16. ProcOK(p)'
  BY <1>1, <1>4, <1>9 DEF ProcOK, Walking
<1>17. Known(p)'
  BY <1>9 DEF Known
<1> QED
  BY <1>1, <1>4, <1>7, <1>9, <1>10, <1>11, <1>12, <1>13, <1>14, <1>15, <1>16, <1>17, Frame DEF diskVars

\* The descriptors of a new process are those of its parent.
LEMMA ForkCounts ==
    ASSUME Inv, NEW p \in Procs, NEW q \in Procs, pc[q] = "unused", ofile' = Set(ofile, q, ofile[p]), NEW f \in Files
    PROVE  /\ Cardinality({d \in Fds : ofile[p][d] = f}) \in Nat /\ Count(ofile, f) \in Nat
           /\ Count(ofile', f) = Count(ofile, f) + Cardinality({d \in Fds : ofile[p][d] = f})
           /\ Cardinality({d \in Fds : ofile[p][d] = f}) > 0 => Count(ofile, f) > 0
<1>1. PICK D \in SUBSET Fds : D = {d \in Fds : ofile[p][d] = f}
  OBVIOUS
<1>2. PICK A \in SUBSET (Procs \X Fds), B \in SUBSET (Procs \X Fds) : A = Descriptors(ofile, f) /\ B = Descriptors(ofile', f)
  BY DEF Descriptors
<1>3. ofile[q] = [d \in Fds |-> 0] /\ ofile \in [Procs -> [Fds -> Files \cup {0}]]
  BY DEF Inv, Typed, ProcOK
<1>4. ofile'[q] = ofile[p] /\ \A r \in Procs : r # q => ofile'[r] = ofile[r]
  BY <1>3 DEF Set
<1>5. /\ \A r \in Procs, c \in Fds : <<r, c>> \in A <=> ofile[r][c] = f
      /\ \A r \in Procs, c \in Fds : <<r, c>> \in B <=> ofile'[r][c] = f
      /\ \A c \in Fds : c \in D <=> ofile[p][c] = f
  BY <1>1, <1>2 DEF Descriptors
<1>6. PICK C \in SUBSET (Procs \X Fds) : C = {q} \X D
  OBVIOUS
<1>7. B = A \cup C
  <2> SUFFICES ASSUME NEW r \in Procs, NEW c \in Fds PROVE <<r, c>> \in B <=> <<r, c>> \in A \/ <<r, c>> \in C
    OBVIOUS
  <2>1. <<r, c>> \in C <=> r = q /\ c \in D
    BY <1>6
  <2>2. CASE r = q
    <3>1. ofile[q][c] # f
      BY <1>3, Ranges
    <3> QED
      BY <1>4, <1>5, <2>1, <2>2, <3>1
  <2>3. CASE r # q
    BY <1>4, <1>5, <2>1, <2>3
  <2> QED
    BY <2>2, <2>3
<1>8. A \cap C = {}
  <2> SUFFICES ASSUME NEW r \in Procs, NEW c \in Fds, <<r, c>> \in A, <<r, c>> \in C PROVE FALSE
    OBVIOUS
  <2>1. r = q /\ ofile[r][c] = f
    BY <1>5, <1>6
  <2> QED
    BY <1>3, <2>1, Ranges
<1>9. IsFiniteSet(A) /\ IsFiniteSet(C) /\ IsFiniteSet(D)
  BY Finite, FS_Subset
<1>10. Cardinality(A) \in Nat /\ Cardinality(D) \in Nat
  BY <1>9, FS_CardinalityType
<1>11. Cardinality(C) = Cardinality(D)
  <2>1. IsFiniteSet({q}) /\ Cardinality({q}) = 1
    BY FS_Singleton
  <2>2. Cardinality({q} \X D) = Cardinality({q}) * Cardinality(D)
    BY <1>9, <2>1, FS_Product
  <2> QED
    BY <1>6, <1>10, <2>1, <2>2
<1>12. Cardinality(B) = Cardinality(A) + Cardinality(D)
  <2>1. Cardinality(A \cup C) = Cardinality(A) + Cardinality(C) - Cardinality(A \cap C)
    BY <1>9, FS_Union
  <2>2. Cardinality(A \cap C) = 0
    BY <1>8, FS_EmptySet
  <2> QED
    BY <1>7, <1>10, <1>11, <2>1, <2>2
<1>13. Cardinality(D) > 0 => Cardinality(A) > 0
  <2> SUFFICES ASSUME Cardinality(D) > 0 PROVE Cardinality(A) > 0
    OBVIOUS
  <2>1. D # {}
    BY Finite, AtLeastOne
  <2>2. PICK c \in Fds : c \in D
    BY <2>1
  <2>3. <<p, c>> \in A
    BY <1>5, <2>2
  <2> QED
    BY <2>3, Finite, AtLeastOne
<1> QED
  BY <1>1, <1>2, <1>10, <1>12, <1>13 DEF Count

LEMMA ForkOK ==
    ASSUME Inv, NEW p \in Procs, NEW q \in Procs, Fork(p, q)
    PROVE  Inv'
<1>1. /\ pc[p] = "user" /\ pc[q] = "unused" /\ cwd[p] \in Slots /\ cwd[q] = 0 /\ ip[q] = 0 /\ nxt[q] = 0
  BY DEF Fork, Inv, ProcOK, Walking
<1>2. PICK s \in Slots : s = cwd[p]
  BY <1>1
<1>3. /\ ofile' = Set(ofile, q, ofile[p]) /\ icache' = idup(icache, s) /\ cwd' = [cwd EXCEPT ![q] = s] /\ pc' = [pc EXCEPT ![q] = "user"]
      /\ ftable' = [f \in Files |-> [ftable[f] EXCEPT !.ref = @ + Cardinality({d \in Fds : ofile[p][d] = f})]]
      /\ UNCHANGED <<diskVars, holder, walkVars, ip, nxt, io, leaked, kept>>
  BY <1>2 DEF Fork, Goto, Set
<1>4. icache[s].ref > 0 /\ \A r \in Procs : pc[r] = "link" => nxt[r] # s
  BY <1>2, Pointed
<1>5. CacheStep(q, icache')
  BY <1>3, <1>4, StepDupPut
<1>6. icache' \in [Slots -> Inodes] /\ icache'[s].ref = icache[s].ref + 1 /\ \A t \in Slots : t # s => icache'[t].ref = icache[t].ref
  <2>1. icache \in [Slots -> Inodes]
    BY DEF Inv, Typed
  <2>2. PICK jc : jc = icache' /\ jc = idup(icache, s)
    BY <1>3
  <2>3. jc \in [Slots -> Inodes] /\ jc[s].ref = icache[s].ref + 1 /\ \A t \in Slots : t # s => jc[t] = icache[t]
    BY <2>1, <2>2, DupPutIs
  <2> QED
    BY <2>2, <2>3
<1>7. ASSUME NEW f \in Files
      PROVE  /\ ftable'[f] \in OpenFiles /\ ftable'[f].ref = Count(ofile', f) /\ (ftable'[f].ref > 0 <=> ftable'[f].type = "inode")
             /\ ftable'[f].type = ftable[f].type /\ ftable'[f].ip = ftable[f].ip /\ ftable'[f].off = ftable[f].off
  <2>1. PICK k \in Nat, c \in Nat : /\ k = Cardinality({d \in Fds : ofile[p][d] = f}) /\ c = Count(ofile, f) /\ Count(ofile', f) = c + k
                                    /\ k > 0 => c > 0
    BY <1>1, <1>3, ForkCounts
  <2>2. ftable[f].ref = c /\ (ftable[f].ref > 0 <=> ftable[f].type = "inode")
    BY <2>1 DEF Inv, FilesOK, Count, Descriptors
  <2>3. ftable'[f] = [ftable[f] EXCEPT !.ref = c + k]
    BY <1>3, <2>1, <2>2
  <2>4. ftable[f] \in OpenFiles
    BY DEF Inv, Typed
  <2>5. /\ ftable'[f] \in OpenFiles /\ ftable'[f].ref = c + k /\ ftable'[f].type = ftable[f].type
        /\ ftable'[f].ip = ftable[f].ip /\ ftable'[f].off = ftable[f].off
    BY <2>3, <2>4 DEF OpenFiles
  <2> QED
    BY <2>1, <2>2, <2>5
<1>8. FilesOK'
  BY <1>7 DEF FilesOK, Count, Descriptors
<1>9. ftable' \in [Files -> OpenFiles]
  BY <1>3, <1>7
<1>10. /\ ofile' \in [Procs -> [Fds -> Files \cup {0}]] /\ pc' \in [Procs -> Points] /\ cwd' \in [Procs -> Slots \cup {0}]
       /\ pc'[q] = "user" /\ cwd'[q] = s
       /\ \A r \in Procs : r # q => ofile'[r] = ofile[r] /\ pc'[r] = pc[r] /\ cwd'[r] = cwd[r]
  BY <1>3 DEF Inv, Typed, Points, Set
<1>11. Typed' /\ Alone(q)
  BY <1>3, <1>6, <1>9, <1>10 DEF Inv, Typed, Alone, diskVars, walkVars
<1>12. FilesStay
  BY <1>3, <1>7 DEF FilesStay
<1>13. RefsOK'
  <2> SUFFICES ASSUME NEW t \in Slots PROVE icache'[t].ref = Pointers(t)' + leaked'[t]
    BY DEF RefsOK
  <2>1. /\ \A r \in Procs \ {q} : cwd'[r] = cwd[r] /\ ip'[r] = ip[r] /\ nxt'[r] = nxt[r] /\ pc'[r] = pc[r]
        /\ \A h \in Files \ {1} : ftable'[h].type = ftable[h].type /\ ftable'[h].ip = ftable[h].ip
        /\ 1 \in Files
    BY <1>3, <1>7, <1>10, Ranges
  <2>2. /\ Pointers(t) \in Nat /\ Pointers(t)' \in Nat
        /\ Pointers(t)' = Pointers(t)
             + (One(cwd'[q] = t) - One(cwd[q] = t)) + (One(ip'[q] = t) - One(ip[q] = t))
             + (One(pc'[q] # "new" /\ nxt'[q] = t) - One(pc[q] # "new" /\ nxt[q] = t))
             + (One(ftable'[1].type = "inode" /\ ftable'[1].ip = t) - One(ftable[1].type = "inode" /\ ftable[1].ip = t))
    BY <2>1, PointersStep
  <2>3. /\ One(cwd'[q] = t) - One(cwd[q] = t) = One(s = t) /\ One(ip'[q] = t) - One(ip[q] = t) = 0
        /\ One(pc'[q] # "new" /\ nxt'[q] = t) - One(pc[q] # "new" /\ nxt[q] = t) = 0
        /\ One(ftable'[1].type = "inode" /\ ftable'[1].ip = t) - One(ftable[1].type = "inode" /\ ftable[1].ip = t) = 0
    <3>1. cwd'[q] = s /\ cwd[q] # t /\ ip'[q] = ip[q] /\ ip[q] # t /\ nxt'[q] = nxt[q] /\ nxt[q] # t
      BY <1>1, <1>3, <1>10, Ranges
    <3>2. (cwd'[q] = t <=> s = t) /\ (ip'[q] = t <=> ip[q] = t)
          /\ ((pc'[q] # "new" /\ nxt'[q] = t) <=> (pc[q] # "new" /\ nxt[q] = t))
      BY <3>1
    <3>3. (ftable'[1].type = "inode" /\ ftable'[1].ip = t) <=> (ftable[1].type = "inode" /\ ftable[1].ip = t)
      BY <1>7, Ranges
    <3> QED
      BY <3>1, <3>2, <3>3 DEF One
  <2>4. PICK b \in {0, 1} : b = One(s = t) /\ (b = 1 <=> s = t)
    BY DEF One
  <2>5. Pointers(t)' = Pointers(t) + b
    BY <2>2, <2>3, <2>4
  <2>6. icache[t].ref = Pointers(t) + leaked[t] /\ leaked[t] \in Nat /\ leaked' = leaked
    BY <1>3 DEF Inv, RefsOK, Typed
  <2> QED
    BY <1>6, <2>2, <2>4, <2>5, <2>6
<1>14. OpenOK'
  <2>1. \A f \in Files : ftable'[f].type = "inode" => ftable[f].type = "inode" /\ ftable'[f].ip = ftable[f].ip /\ ftable'[f].off = ftable[f].off
    BY <1>7
  <2> QED
    BY <1>5, <1>11, <2>1, OpenKept DEF OpenOK, CacheStep
<1>15. HoldOK'
  BY <1>1, <1>3, <1>10, <1>11, <1>12, HoldSame DEF NoHold
<1>16. ProcOK(q)'
  BY <1>1, <1>3, <1>10 DEF ProcOK, Walking
<1>17. Known(q)'
  BY <1>10 DEF Known
<1> QED
  BY <1>1, <1>3, <1>5, <1>8, <1>10, <1>11, <1>12, <1>13, <1>14, <1>15, <1>16, <1>17, Frame DEF diskVars

-----------------------------------------------------------------------------
(* create(): the new inode.                                                *)

LEMMA NewTypes ==
    ASSUME NEW k \in WantsParent
    PROVE  NewType[k] \in Types /\ NewType[k] # "free"
  BY DEF NewType, WantsParent, Types

\* A process between ialloc() and its iget() knows an inode that is not free.
LEMMA NewIsNotFree ==
    ASSUME Inv, NEW q \in Procs, pc[q] = "new"
    PROVE  nxt[q] \in Inums /\ dinode[nxt[q]].type # "free" /\ dinode[nxt[q]].nlink = 0
<1>1. nxt[q] \in Inums /\ kind[q] \in WantsParent /\ dinode[nxt[q]] = NewDinode(q)
  BY DEF Inv, ProcOK, Known
<1> QED
  BY <1>1, NewTypes DEF NewDinode

\* ialloc() writes a free inode, which no entry of a directory stands for.
LEMMA AllocDisk ==
    ASSUME Inv, NEW j \in Inums, dinode[j].type = "free", NEW d \in Dinodes, d.type # "free", d.nlink = 0,
           dinode' = Set(dinode, j, d), ents' = ents
    PROVE  /\ dinode' \in [Inums -> Dinodes] /\ TreeOK'
           /\ dinode'[j] = d /\ \A i \in Inums : i # j => dinode'[i] = dinode[i]
<1>1. dinode \in [Inums -> Dinodes]
  BY DEF Inv, Typed
<1>2. dinode' \in [Inums -> Dinodes] /\ dinode'[j] = d /\ \A i \in Inums : i # j => dinode'[i] = dinode[i]
  BY <1>1 DEF Set
<1>3. dinode[j].nlink = 0
  BY DEF Inv, TreeOK
<1>4. \A i \in Inums : dinode'[i].nlink = dinode[i].nlink /\ (dinode'[i].type = "free" => dinode[i].type = "free")
  BY <1>2, <1>3
<1>5. \A i \in Inums : dinode[i].nlink > 0 => dinode'[i].type = dinode[i].type
  BY <1>2, <1>3
<1>6. \A i \in Inums : Counted(i)' = Counted(i)
  BY DEF Counted
<1>7. \A i \in Inums : \A e \in ents[i] : e[2] \in Inums
  BY DEF Inv, Typed
<1>8. ROOTINO \in Inums
  BY Ranges
<1>9. \A i \in Inums : dinode'[i].type = "dir" /\ dinode'[i].nlink > 0 =>
          \A n \in {".", ".."} : \E e \in ents'[i] : e[1] = n
  <2> SUFFICES ASSUME NEW i \in Inums, dinode'[i].type = "dir", dinode'[i].nlink > 0
               PROVE  \A n \in {".", ".."} : \E e \in ents[i] : e[1] = n
    OBVIOUS
  <2>1. dinode[i].nlink > 0 /\ dinode[i].type = "dir"
    BY <1>4, <1>5
  <2> QED
    BY <2>1 DEF Inv, TreeOK
<1>10. \A i \in Inums : dinode'[i].nlink = Cardinality(Counted(i)')
  BY <1>4, <1>6 DEF Inv, TreeOK
<1>11. TreeOK'
  BY <1>4, <1>5, <1>7, <1>8, <1>9, <1>10 DEF Inv, TreeOK
<1> QED
  BY <1>2, <1>11

\* No entry of the cache that is referenced stands for a free inode.
LEMMA AllocCache ==
    ASSUME Inv, NEW p \in Procs, Alone(p), pc[p] # "link", NEW j \in Inums, dinode[j].type = "free",
           \A i \in Inums : i # j => dinode'[i] = dinode[i], icache' = icache
    PROVE  /\ CacheOK(icache, dinode)' /\ Reach'
           /\ \A s \in Slots : icache[s].ref > 0 => icache[s].inum # j
<1>1. \A s \in Slots : icache[s].ref > 0 => icache[s].inum # j /\ icache[s].inum \in Inums
  BY DEF Inv, CacheOK
<1>2. \A s \in Slots : icache[s].ref > 0 => dinode'[icache[s].inum] = dinode[icache[s].inum]
  BY <1>1
<1>3. CacheOK(icache, dinode)'
  BY <1>2 DEF Inv, CacheOK
<1>4. ASSUME NEW s \in Slots, icache[s].ref > 0
      PROVE  dinode'[icache[s].inum].nlink > 0 \/ \E q \in Procs : pc'[q] = "link" /\ nxt'[q] = s
  <2>1. dinode[icache[s].inum].nlink > 0 \/ \E q \in Procs : pc[q] = "link" /\ nxt[q] = s
    BY <1>4 DEF Inv, Reach
  <2>2. \A q \in Procs : pc[q] = "link" => pc'[q] = "link" /\ nxt'[q] = nxt[q]
    BY DEF Alone
  <2> QED
    BY <1>2, <1>4, <2>1, <2>2
<1>5. Reach'
  BY <1>4 DEF Reach
<1> QED
  BY <1>1, <1>3, <1>5

LEMMA NewApartTakes ==
    ASSUME Inv, NEW p \in Procs, Alone(p), NEW j, nxt'[p] = j, dinode[j].type = "free"
    PROVE  NewApart'
<1>1. \A q \in Procs : pc[q] = "new" => nxt[q] # j
  BY NewIsNotFree
<1>2. \A q \in Procs : q # p /\ pc'[q] = "new" => pc[q] = "new" /\ nxt'[q] = nxt[q]
  BY DEF Alone
<1>3. \A q, r \in Procs : q # p /\ r # p /\ pc'[q] = "new" /\ pc'[r] = "new" /\ nxt'[q] = nxt'[r] => q = r
  BY <1>2 DEF Inv, NewApart
<1> QED
  BY <1>1, <1>2, <1>3 DEF NewApart

\* What the others know, and process p after ialloc().
LEMMA AllocKnown ==
    ASSUME Inv, NEW p \in Procs, Alone(p), FilesStay, NEW j \in Inums, dinode[j].type = "free",
           \A i \in Inums : i # j => dinode'[i] = dinode[i], UNCHANGED <<icache, ents>>, NEW q \in Procs, q # p
    PROVE  Known(q)'
<1>1. Keeps(icache, icache')
  BY DEF Keeps, Inv, Typed, Inodes
<1>2. ASSUME pc[q] = "link" PROVE dinode'[icache[nxt[q]].inum] = dinode[icache[nxt[q]].inum]
  <2>1. nxt[q] \in Slots /\ icache[nxt[q]].ref > 0
    BY <1>2, Lonely
  <2>2. icache[nxt[q]].inum \in Inums /\ dinode[icache[nxt[q]].inum].type # "free"
    BY <2>1 DEF Inv, CacheOK
  <2> QED
    BY <2>2
<1>3. pc[q] = "new" => dinode'[nxt[q]] = dinode[nxt[q]]
  BY NewIsNotFree
<1>4. pc[q] = "new" => \A s \in Slots : icache[s].ref > 0 => icache[s].inum # nxt[q]
  BY DEF Inv, Known
<1> QED
  BY <1>1, <1>2, <1>3, <1>4, KnownOthers

LEMMA CreateAllocOK ==
    ASSUME Inv, NEW p \in Procs, CreateAlloc(p)
    PROVE  Inv'
<1>1. /\ pc[p] = "parent" /\ Free(ip[p]) /\ ip[p] \in Slots /\ nxt[p] = 0 /\ cwd[p] \in Slots
      /\ kind[p] \in WantsParent /\ Len(elems[p]) = 1
      /\ icache[ip[p]].valid /\ icache[ip[p]].type = "dir"
  BY DEF CreateAlloc, Inv, ProcOK, Walking, Known
<1>2. /\ holder' = Set(holder, ip[p], p)
      /\ UNCHANGED <<ents, icache, fileVars, cwd, walkVars, ip, io, leaked, kept, calls>>
  BY DEF CreateAlloc
<1>3. /\ icache \in [Slots -> Inodes] /\ leaked \in [Slots -> Nat] /\ nxt \in [Procs -> Nat] /\ pc \in [Procs -> Points]
      /\ dinode \in [Inums -> Dinodes] /\ holder \in [Slots -> Procs \cup {None}] /\ kept \subseteq Slots
  BY DEF Inv, Typed
<1>4. holder' \in [Slots -> Procs \cup {None}]
  BY <1>1, <1>2, <1>3 DEF Set
<1>5. PICK x \in Slots : x = ip[p]
  BY <1>1
<1>6. CASE Goto(p, "halt") /\ UNCHANGED <<dinode, nxt>>
  <2>1. CacheStep(p, icache') /\ icache' \in [Slots -> Inodes]
    BY <1>2, <1>3, StepNone
  <2>2. "halt" \in Points \ {"new"} /\ UNCHANGED diskVars
    BY <1>2, <1>6 DEF Points, diskVars
  <2>3. Typed' /\ Alone(p) /\ FilesStay /\ pc'[p] = "halt"
    BY <1>2, <1>3, <1>4, <1>6, <2>1, <2>2, MoveFrame
  <2>4. OpenOK'
    BY <1>2, <2>1, <2>3, OpenSame DEF CacheStep, fileVars
  <2>5. HoldOK'
    BY <1>1, <1>2, <1>5, <2>3, HoldTake DEF NoHold
  <2>6. ProcOK(p)'
    BY <1>1, <1>2, <1>6, <2>3 DEF ProcOK, Walking
  <2>7. Known(p)'
    BY <2>3 DEF Known
  <2>8. \A s \in Slots : icache'[s].ref = icache[s].ref
    BY <1>2
  <2> QED
    BY <1>1, <1>2, <1>3, <1>4, <1>6, <2>1, <2>2, <2>4, <2>5, <2>6, <2>7, <2>8, Moves
<1>7. ASSUME NEW j \in Inums, dinode[j].type = "free", nxt' = Set(nxt, p, j), Goto(p, "new"),
             dinode' = Set(dinode, j, [type |-> NewType[kind[p]], nlink |-> 0, size |-> 0])
      PROVE  Inv'
  <2> DEFINE d == [type |-> NewType[kind[p]], nlink |-> 0, size |-> 0]
  <2>1. d \in Dinodes /\ d.type # "free" /\ d.nlink = 0
    BY <1>1, NewTypes, Ranges DEF Dinodes
  <2>2. d = NewDinode(p) /\ dinode' = Set(dinode, j, d)
    BY <1>7 DEF NewDinode
  <2> HIDE DEF d
  <2>3. dinode' \in [Inums -> Dinodes] /\ TreeOK' /\ dinode'[j] = d /\ \A i \in Inums : i # j => dinode'[i] = dinode[i]
    BY <1>2, <1>7, <2>1, <2>2, AllocDisk
  <2>4. /\ pc' \in [Procs -> Points] /\ nxt' \in [Procs -> Nat] /\ pc'[p] = "new" /\ nxt'[p] = j
        /\ \A q \in Procs : q # p => pc'[q] = pc[q] /\ nxt'[q] = nxt[q]
    BY <1>3, <1>7, Ranges DEF Goto, Set, Points
  <2>5. /\ kind' = kind /\ elems' = elems /\ ip' = ip /\ cwd' = cwd /\ leaked' = leaked /\ kept' = kept /\ icache' = icache
        /\ ftable' = ftable /\ io' = io /\ ents' = ents /\ ofile' = ofile
    BY <1>2 DEF walkVars, fileVars
  <2>6. /\ kind \in [Procs -> Kinds \cup {"none", "read", "write"}] /\ elems \in [Procs -> Seq(Elems)]
        /\ ip \in [Procs -> Slots \cup {0}] /\ cwd \in [Procs -> Slots \cup {0}]
    BY DEF Inv, Typed
  <2>7. \A s \in Slots : leaked'[s] >= leaked[s]
    BY <1>3, <2>5
  <2>8. Typed' /\ Alone(p) /\ FilesStay /\ FilesOK'
    BY <1>2, <1>3, <1>4, <2>3, <2>4, <2>5, <2>6, <2>7, CallFrame
  <2>9. CacheOK(icache, dinode)' /\ Reach' /\ \A s \in Slots : icache[s].ref > 0 => icache[s].inum # j
    BY <1>1, <1>7, <2>3, <2>5, <2>8, AllocCache
  <2>10. NewApart'
    BY <1>7, <2>4, <2>8, NewApartTakes
  <2>11. \A q \in Procs : q # p => Known(q)' /\ ProcOK(q)'
    BY <1>7, <2>3, <2>5, <2>8, AllocKnown, ProcOthers
  <2>12. OpenOK'
    <3>1. Keeps(icache, icache')
      BY <2>5 DEF Keeps, Inv, Typed, Inodes
    <3> QED
      BY <2>5, <2>8, <3>1, OpenSame
  <2>13. HoldOK'
    BY <1>1, <1>2, <1>5, <2>4, <2>5, <2>8, HoldTake DEF NoHold
  <2>14. RefsOK'
    <3>1. ASSUME NEW s \in Slots
          PROVE  icache'[s].ref - icache[s].ref =
                (One(cwd'[p] = s) - One(cwd[p] = s)) + (One(ip'[p] = s) - One(ip[p] = s))
                + (One(pc'[p] # "new" /\ nxt'[p] = s) - One(pc[p] # "new" /\ nxt[p] = s))
                + (leaked'[s] - leaked[s])
      <4>1. icache'[s].ref - icache[s].ref = 0 /\ leaked'[s] - leaked[s] = 0
        <5>1. icache[s].ref \in Nat /\ leaked[s] \in Nat
          BY <1>3 DEF Inodes
        <5> QED
          BY <2>5, <5>1
      <4>2. One(cwd'[p] = s) - One(cwd[p] = s) = 0 /\ One(ip'[p] = s) - One(ip[p] = s) = 0
        BY <2>5 DEF One
      <4>3. One(pc'[p] # "new" /\ nxt'[p] = s) = 0 /\ One(pc[p] # "new" /\ nxt[p] = s) = 0
        BY <1>1, <2>4, Ranges DEF One
      <4> QED
        BY <4>1, <4>2, <4>3
    <3> QED
      BY <2>5, <2>8, <3>1, RefsBalance
  <2>15. ProcOK(p)'
    BY <1>1, <2>4, <2>5 DEF ProcOK, Walking
  <2>16. Known(p)'
    <3>1. \A e \in ents[icache[ip[p]].inum] : e[1] # elems[p][1]
      BY DEF CreateAlloc, dirlookup
    <3>2. NewDinode(p)' = NewDinode(p)
      BY <2>5 DEF NewDinode
    <3> QED
      BY <1>1, <2>2, <2>3, <2>4, <2>5, <2>9, <3>1, <3>2 DEF Known
  <2> QED
    BY <2>3, <2>8, <2>9, <2>10, <2>11, <2>12, <2>13, <2>14, <2>15, <2>16 DEF Inv
<1>8. CASE {i \in Inums : dinode[i].type = "free"} = {}
  BY <1>6, <1>8 DEF CreateAlloc
<1>9. CASE {i \in Inums : dinode[i].type = "free"} # {}
  <2>1. {i \in Inums : dinode[i].type = "free"} \in SUBSET Nat
    BY Ranges
  <2>2. PICK j \in Inums : j = Min({i \in Inums : dinode[i].type = "free"}) /\ dinode[j].type = "free"
    BY <1>9, <2>1, Lowest
  <2> QED
    BY <1>7, <1>9, <2>2 DEF CreateAlloc
<1> QED
  BY <1>8, <1>9

\* The reference that iget() takes to the new inode, nobody else's.
LEMMA GetNew ==
    ASSUME Inv, NEW p \in Procs, pc[p] = "new", CanGet(icache, nxt[p]), icache' = Got(icache, nxt[p]), dinode' = dinode,
           NEW e, e = Entry(icache, nxt[p])
    PROVE  /\ e \in Slots /\ icache[e].ref = 0 /\ icache' \in [Slots -> Inodes]
           /\ \A s \in Slots : s # e => icache'[s] = icache[s]
           /\ icache'[e].inum = nxt[p] /\ icache'[e].ref = 1 /\ ~ icache'[e].valid
           /\ Keeps(icache, icache') /\ CacheOK(icache, dinode)'
<1>1. nxt[p] \in Inums /\ icache \in [Slots -> Inodes] /\ dinode[nxt[p]].type # "free"
  BY NewIsNotFree DEF Inv, Typed
<1>2. \A s \in Slots : icache[s].ref > 0 => icache[s].inum # nxt[p]
  BY DEF Inv, Known
<1>3. /\ e \in Slots /\ icache' \in [Slots -> Inodes] /\ \A s \in Slots : s # e => icache'[s] = icache[s]
      /\ icache'[e].inum = nxt[p] /\ icache'[e].ref = icache[e].ref + 1
      /\ icache[e].ref > 0 => icache[e].inum = nxt[p]
      /\ icache[e].ref = 0 => ~ icache'[e].valid
  BY <1>1, GotIs
<1>4. icache[e].ref = 0
  <2>1. icache[e].ref \in Nat
    BY <1>1, <1>3 DEF Inodes
  <2> QED
    BY <1>2, <1>3, <2>1
<1>5. Keeps(icache, icache')
  <2>1. \A s \in Slots : icache[s].ref > 0 => icache'[s] = icache[s]
    BY <1>3, <1>4
  <2>2. \A s \in Slots : icache[s].size >= icache[s].size
    BY <1>1, Sizes DEF Inodes
  <2> QED
    BY <2>1, <2>2 DEF Keeps
<1>6. CacheOK(icache, dinode)'
  <2>1. ASSUME NEW s \in Slots, icache'[s].ref > 0
        PROVE  /\ icache'[s].inum \in Inums /\ dinode[icache'[s].inum].type # "free"
               /\ icache'[s].valid => dinode[icache'[s].inum] = [type |-> icache'[s].type, nlink |-> icache'[s].nlink, size |-> icache'[s].size]
    <3>1. CASE s = e
      BY <1>1, <1>3, <1>4, <3>1
    <3>2. CASE s # e
      BY <1>3, <2>1, <3>2 DEF Inv, CacheOK
    <3> QED
      BY <3>1, <3>2
  <2>2. ASSUME NEW s \in Slots, NEW t \in Slots, icache'[s].ref > 0, icache'[t].ref > 0, icache'[s].inum = icache'[t].inum
        PROVE  s = t
    <3>1. CASE s # e /\ t # e
      BY <1>3, <2>2, <3>1 DEF Inv, CacheOK
    <3>2. CASE s = e /\ t # e
      BY <1>2, <1>3, <2>2, <3>2
    <3>3. CASE s # e /\ t = e
      BY <1>2, <1>3, <2>2, <3>3
    <3> QED
      BY <3>1, <3>2, <3>3
  <2> QED
    BY <1>3, <2>1, <2>2 DEF CacheOK
<1> QED
  BY <1>3, <1>4, <1>5, <1>6

LEMMA CreateGetOK ==
    ASSUME Inv, NEW p \in Procs, CreateGet(p)
    PROVE  Inv'
<1>1. /\ pc[p] = "new" /\ ip[p] \in Slots /\ nxt[p] \in Inums /\ cwd[p] \in Slots
      /\ kind[p] \in WantsParent /\ Len(elems[p]) = 1
      /\ icache[ip[p]].valid /\ icache[ip[p]].type = "dir"
  BY DEF CreateGet, Inv, ProcOK, Walking, Known
<1>2. /\ nxt' = [nxt EXCEPT ![p] = Entry(icache, nxt[p])]
      /\ dinode' = dinode /\ ents' = ents /\ holder' = holder /\ ftable' = ftable /\ ofile' = ofile /\ cwd' = cwd
      /\ kind' = kind /\ elems' = elems /\ ip' = ip /\ io' = io /\ leaked' = leaked /\ kept' = kept
  BY DEF CreateGet, Set, diskVars, fileVars, walkVars
<1>3. /\ icache \in [Slots -> Inodes] /\ leaked \in [Slots -> Nat] /\ nxt \in [Procs -> Nat] /\ pc \in [Procs -> Points]
      /\ dinode \in [Inums -> Dinodes] /\ holder \in [Slots -> Procs \cup {None}] /\ kept \subseteq Slots
      /\ kind \in [Procs -> Kinds \cup {"none", "read", "write"}] /\ elems \in [Procs -> Seq(Elems)]
      /\ ip \in [Procs -> Slots \cup {0}] /\ cwd \in [Procs -> Slots \cup {0}]
  BY DEF Inv, Typed
<1>4. \A s \in Slots : leaked'[s] >= leaked[s] /\ leaked'[s] - leaked[s] = 0 /\ icache[s].ref \in Nat
  BY <1>2, <1>3 DEF Inodes
<1>5. PICK x \in Slots : x = ip[p]
  BY <1>1
<1>6. Holding(p, x)
  BY <1>1, <1>5 DEF Holding
<1>7. CASE ~ CanGet(icache, nxt[p])
  <2>1. icache' = icache /\ pc' = [pc EXCEPT ![p] = "panic"] /\ nxt' = [nxt EXCEPT ![p] = 0]
    BY <1>2, <1>7, NoEntry DEF CreateGet, iget, Goto
  <2>2. /\ pc' \in [Procs -> Points] /\ nxt' \in [Procs -> Nat] /\ pc'[p] = "panic" /\ nxt'[p] = 0
        /\ \A q \in Procs : q # p => pc'[q] = pc[q] /\ nxt'[q] = nxt[q]
    BY <1>3, <2>1 DEF Points
  <2>3. Typed' /\ Alone(p) /\ FilesStay /\ FilesOK'
    BY <1>2, <1>3, <1>4, <2>1, <2>2, CallFrame DEF fileVars
  <2>4. CacheStep(p, icache')
    BY <2>1, StepNone
  <2>5. OpenOK'
    BY <1>2, <2>3, <2>4, OpenSame DEF CacheStep
  <2>6. HoldOK'
    <3>1. Holding(p, x)'
      BY <1>2, <1>5, <2>2 DEF Holding
    <3> QED
      BY <1>1, <1>2, <1>6, <2>3, <3>1, HoldMove
  <2>7. RefsOK'
    <3>1. ASSUME NEW s \in Slots
          PROVE  icache'[s].ref - icache[s].ref =
                (One(cwd'[p] = s) - One(cwd[p] = s)) + (One(ip'[p] = s) - One(ip[p] = s))
                + (One(pc'[p] # "new" /\ nxt'[p] = s) - One(pc[p] # "new" /\ nxt[p] = s))
                + (leaked'[s] - leaked[s])
      <4>1. icache'[s].ref - icache[s].ref = 0
        BY <1>4, <2>1
      <4>2. One(cwd'[p] = s) - One(cwd[p] = s) = 0 /\ One(ip'[p] = s) - One(ip[p] = s) = 0
        BY <1>2 DEF One
      <4>3. One(pc'[p] # "new" /\ nxt'[p] = s) = 0 /\ One(pc[p] # "new" /\ nxt[p] = s) = 0
        BY <1>1, <2>2, Ranges DEF One
      <4> QED
        BY <1>4, <4>1, <4>2, <4>3
    <3> QED
      BY <1>2, <2>3, <3>1, RefsBalance
  <2>8. ProcOK(p)'
    BY <1>1, <1>2, <2>2 DEF ProcOK, Walking
  <2>9. Known(p)'
    BY <2>2 DEF Known
  <2> QED
    BY <1>1, <1>2, <2>2, <2>3, <2>4, <2>5, <2>6, <2>7, <2>8, <2>9, Frame
<1>8. CASE CanGet(icache, nxt[p])
  <2>1. PICK e : e = Entry(icache, nxt[p])
    OBVIOUS
  <2>2. icache' = Got(icache, nxt[p]) /\ pc' = [pc EXCEPT ![p] = "link"] /\ nxt' = [nxt EXCEPT ![p] = e]
    BY <1>2, <1>8, <2>1 DEF CreateGet, iget, Goto
  <2>3. /\ e \in Slots /\ icache[e].ref = 0 /\ icache' \in [Slots -> Inodes]
        /\ \A s \in Slots : s # e => icache'[s] = icache[s]
        /\ icache'[e].inum = nxt[p] /\ icache'[e].ref = 1 /\ ~ icache'[e].valid
        /\ Keeps(icache, icache') /\ CacheOK(icache, dinode)'
    BY <1>1, <1>2, <1>8, <2>1, <2>2, GetNew
  <2>4. /\ pc' \in [Procs -> Points] /\ nxt' \in [Procs -> Nat] /\ pc'[p] = "link" /\ nxt'[p] = e
        /\ \A q \in Procs : q # p => pc'[q] = pc[q] /\ nxt'[q] = nxt[q]
    BY <1>3, <2>2, <2>3, Ranges DEF Points
  <2>5. Typed' /\ Alone(p) /\ FilesStay /\ FilesOK'
    BY <1>2, <1>3, <1>4, <2>3, <2>4, CallFrame DEF fileVars
  <2>6. OpenOK'
    BY <1>2, <2>3, <2>5, OpenSame
  <2>7. HoldOK'
    <3>1. Holding(p, x)'
      BY <1>2, <1>5, <2>4 DEF Holding
    <3> QED
      BY <1>1, <1>2, <1>6, <2>5, <3>1, HoldMove
  <2>8. RefsOK'
    <3>1. ASSUME NEW s \in Slots
          PROVE  icache'[s].ref - icache[s].ref =
                (One(cwd'[p] = s) - One(cwd[p] = s)) + (One(ip'[p] = s) - One(ip[p] = s))
                + (One(pc'[p] # "new" /\ nxt'[p] = s) - One(pc[p] # "new" /\ nxt[p] = s))
                + (leaked'[s] - leaked[s])
      <4>1. icache'[s].ref - icache[s].ref = One(e = s)
        BY <1>4, <2>3 DEF One
      <4>2. One(cwd'[p] = s) - One(cwd[p] = s) = 0 /\ One(ip'[p] = s) - One(ip[p] = s) = 0
        BY <1>2 DEF One
      <4>3. One(pc'[p] # "new" /\ nxt'[p] = s) = One(e = s) /\ One(pc[p] # "new" /\ nxt[p] = s) = 0
        BY <1>1, <2>4 DEF One
      <4>4. One(e = s) \in {0, 1}
        BY DEF One
      <4> QED
        BY <1>4, <4>1, <4>2, <4>3, <4>4
    <3> QED
      BY <1>2, <2>5, <3>1, RefsBalance
  <2>9. ProcOK(p)'
    BY <1>1, <1>2, <2>3, <2>4 DEF ProcOK, Walking
  <2>10. Known(p)'
    <3>1. icache[ip[p]].ref > 0
      BY <1>1, Pointed
    <3>2. icache'[ip[p]] = icache[ip[p]]
      BY <1>1, <2>3, <3>1
    <3>3. dinode[nxt[p]] = NewDinode(p) /\ \A y \in ents[icache[ip[p]].inum] : y[1] # elems[p][1]
      BY <1>1 DEF Inv, Known
    <3>4. NewDinode(p)' = NewDinode(p)
      BY <1>2 DEF NewDinode
    <3> QED
      BY <1>1, <1>2, <2>3, <2>4, <3>2, <3>3, <3>4 DEF Known
  <2>11. ASSUME NEW q \in Procs, q # p PROVE Known(q)' /\ ProcOK(q)'
    <3>1. ASSUME pc[q] = "link"
          PROVE  icache'[nxt[q]] = icache[nxt[q]] /\ dinode'[icache[nxt[q]].inum] = dinode[icache[nxt[q]].inum]
      <4>1. nxt[q] \in Slots /\ icache[nxt[q]].ref = 1
        BY <3>1, Lonely
      <4> QED
        BY <1>2, <2>3, <4>1
    <3>2. ASSUME pc[q] = "new", NEW s \in Slots, icache'[s].ref > 0 PROVE icache'[s].inum # nxt[q]
      <4>1. CASE s = e
        BY <1>1, <2>3, <2>11, <3>2, <4>1 DEF Inv, NewApart
      <4>2. CASE s # e
        BY <2>3, <3>2, <4>2 DEF Inv, Known
      <4> QED
        BY <4>1, <4>2
    <3>3. dinode'[nxt[q]] = dinode[nxt[q]] /\ ents'[icache[ip[q]].inum] = ents[icache[ip[q]].inum]
      BY <1>2
    <3> QED
      BY <2>3, <2>5, <2>11, <3>1, <3>2, <3>3, KnownOthers, ProcOthers
  <2>12. Reach'
    <3> SUFFICES ASSUME NEW s \in Slots, icache'[s].ref > 0
                 PROVE  dinode'[icache'[s].inum].nlink > 0 \/ \E q \in Procs : pc'[q] = "link" /\ nxt'[q] = s
      BY DEF Reach
    <3>1. CASE s = e
      BY <2>4, <3>1
    <3>2. CASE s # e
      <4>1. dinode[icache[s].inum].nlink > 0 \/ \E q \in Procs : pc[q] = "link" /\ nxt[q] = s
        BY <2>3, <3>2 DEF Inv, Reach
      <4>2. \A q \in Procs : pc[q] = "link" => pc'[q] = "link" /\ nxt'[q] = nxt[q]
        BY <1>1, <2>4
      <4> QED
        BY <1>2, <2>3, <3>2, <4>1, <4>2
    <3> QED
      BY <3>1, <3>2
  <2>13. TreeOK' /\ NewApart'
    BY <1>2, <2>4, <2>5, TreeStays, ApartStays
  <2> QED
    BY <2>3, <2>5, <2>6, <2>7, <2>8, <2>9, <2>10, <2>11, <2>12, <2>13 DEF Inv
<1> QED
  BY <1>7, <1>8

-----------------------------------------------------------------------------
(* create(): the first link.                                               *)

\* Process p is about to enter inode i, whose cache entry is b, into
\* directory d, whose cache entry is a.
Linking(p, a, b, i, d) ==
    /\ pc[p] = "link" /\ a = ip[p] /\ b = nxt[p] /\ i = icache[b].inum /\ d = icache[a].inum
    /\ a \in Slots /\ b \in Slots /\ i \in Inums /\ d \in Inums /\ a # b /\ i # d

LEMMA IsLinking ==
    ASSUME Inv, NEW p \in Procs, pc[p] = "link"
    PROVE  Linking(p, ip[p], nxt[p], icache[nxt[p]].inum, icache[ip[p]].inum)
<1>1. ip[p] \in Slots /\ nxt[p] \in Slots /\ icache[nxt[p]].ref = 1 /\ ip[p] # nxt[p]
  <2>1. ip[p] \in Slots
    BY DEF Inv, ProcOK, Walking
  <2> QED
    BY <2>1, Lonely
<1>2. icache[ip[p]].inum \in Inums /\ dinode[icache[ip[p]].inum].nlink > 0
  BY <1>1, Pointed
<1>3. icache[nxt[p]].inum \in Inums
  <2>1. icache[nxt[p]].ref > 0
    BY <1>1
  <2> QED
    BY <1>1, <2>1 DEF Inv, CacheOK
<1>4. dinode[icache[nxt[p]].inum].nlink = 0
  <2>1. dinode[icache[nxt[p]].inum] = NewDinode(p)
    BY DEF Inv, Known
  <2>2. NewDinode(p).nlink = 0
    BY DEF NewDinode
  <2> QED
    BY <2>1, <2>2
<1> QED
  BY <1>1, <1>2, <1>3, <1>4 DEF Linking

\* What is known of the two inodes.
TwoInodes(p, a, b, i, d) ==
    /\ icache[a].ref > 0 /\ icache[a].valid /\ icache[a].type = "dir" /\ icache[b].ref = 1 /\ ~ icache[b].valid
    /\ dinode[i] = NewDinode(p) /\ dinode[d] = [type |-> icache[a].type, nlink |-> icache[a].nlink, size |-> icache[a].size]
    /\ dinode[d].nlink > 0 /\ kind[p] \in WantsParent
    /\ \A s \in Slots : icache[s].ref > 0 /\ s # a => icache[s].inum # d
    /\ \A s \in Slots : icache[s].ref > 0 /\ s # b => icache[s].inum # i
    /\ \A q \in Procs : ip[q] # b /\ (q # p /\ pc[q] # "new" => nxt[q] # b)

LEMMA LinkingCache ==
    ASSUME Inv, NEW p \in Procs, NEW a, NEW b, NEW i, NEW d, Linking(p, a, b, i, d)
    PROVE  TwoInodes(p, a, b, i, d)
<1>1. /\ pc[p] = "link" /\ a = ip[p] /\ b = nxt[p] /\ i = icache[b].inum /\ d = icache[a].inum
      /\ a \in Slots /\ b \in Slots /\ i \in Inums /\ d \in Inums
  BY DEF Linking
<1>2. /\ icache[a].valid /\ icache[a].type = "dir" /\ icache[b].ref = 1 /\ ~ icache[b].valid
      /\ dinode[i] = NewDinode(p)
  BY <1>1 DEF Inv, Known
<1>3. icache[a].ref > 0 /\ dinode[d].nlink > 0
  BY <1>1, Pointed
<1>4. kind[p] \in WantsParent
  BY <1>1 DEF Inv, ProcOK
<1>5. dinode[d] = [type |-> icache[a].type, nlink |-> icache[a].nlink, size |-> icache[a].size]
  BY <1>1, <1>2, <1>3 DEF Inv, CacheOK
<1>6. /\ \A s \in Slots : icache[s].ref > 0 /\ s # a => icache[s].inum # d
      /\ \A s \in Slots : icache[s].ref > 0 /\ s # b => icache[s].inum # i
  BY <1>1, <1>2, <1>3 DEF Inv, CacheOK
<1>7. \A q \in Procs : ip[q] # b /\ (q # p /\ pc[q] # "new" => nxt[q] # b)
  BY <1>1, Lonely
<1> QED
  BY <1>2, <1>3, <1>4, <1>5, <1>6, <1>7 DEF TwoInodes

\* The name is not there, and no entry stands for the new inode.
LEMMA LinkingEnts ==
    ASSUME Inv, NEW p \in Procs, NEW a, NEW b, NEW i, NEW d, Linking(p, a, b, i, d)
    PROVE  /\ elems[p][1] \in Names /\ \A e \in ents[d] : e[1] # elems[p][1]
           /\ ents[i] = {} /\ \A j \in Inums : \A e \in ents[j] : e[2] # i
<1>1. pc[p] = "link" /\ d = icache[ip[p]].inum /\ i \in Inums /\ d \in Inums
  BY DEF Linking
<1>2. dinode[i] = NewDinode(p) /\ dinode[d].type = "dir" /\ dinode[d].nlink > 0
  <2>1. TwoInodes(p, a, b, i, d)
    BY LinkingCache
  <2> QED
    BY <2>1 DEF TwoInodes
<1>3. dinode[i].nlink = 0
  BY <1>2 DEF NewDinode
<1>4. ents[i] = {}
  BY <1>1, <1>3 DEF Inv, TreeOK
<1>5. \A j \in Inums : \A e \in ents[j] : e[2] # i
  BY <1>3, EntryTarget
<1>6. \A e \in ents[d] : e[1] # elems[p][1]
  BY <1>1 DEF Inv, Known
<1>7. \A n \in {".", ".."} : \E e \in ents[d] : e[1] = n
  BY <1>1, <1>2 DEF Inv, TreeOK
<1>8. elems[p][1] \in Elems
  <2>1. elems[p] \in Seq(Elems) /\ Len(elems[p]) = 1
    BY <1>1 DEF Inv, Typed, ProcOK
  <2> QED
    BY <2>1
<1>9. elems[p][1] \in Names
  BY <1>6, <1>7, <1>8 DEF Elems
<1> QED
  BY <1>4, <1>5, <1>6, <1>9

\* No other process knows one of the two, or works in the directory.
LEMMA LinkingOthers ==
    ASSUME Inv, NEW p \in Procs, NEW a, NEW b, NEW i, NEW d, Linking(p, a, b, i, d), NEW q \in Procs, q # p
    PROVE  /\ pc[q] = "link" => /\ nxt[q] \in Slots /\ nxt[q] # a /\ nxt[q] # b
                                /\ icache[nxt[q]].inum \in Inums /\ icache[nxt[q]].inum # i /\ icache[nxt[q]].inum # d
           /\ pc[q] = "new" => nxt[q] # i /\ nxt[q] # d
           /\ pc[q] \in {"new", "link"} => icache[ip[q]].inum \in Inums /\ icache[ip[q]].inum # i /\ icache[ip[q]].inum # d
<1>1. /\ pc[p] = "link" /\ a = ip[p] /\ b = nxt[p] /\ i = icache[b].inum /\ d = icache[a].inum
      /\ a \in Slots /\ b \in Slots
  BY DEF Linking
<1>2. /\ icache[a].ref > 0 /\ icache[b].ref > 0
      /\ \A s \in Slots : icache[s].ref > 0 /\ s # a => icache[s].inum # d
      /\ \A s \in Slots : icache[s].ref > 0 /\ s # b => icache[s].inum # i
      /\ \A r \in Procs : ip[r] # b /\ (r # p /\ pc[r] # "new" => nxt[r] # b)
  <2>1. TwoInodes(p, a, b, i, d)
    BY LinkingCache
  <2>2. icache[b].ref > 0
    BY <2>1 DEF TwoInodes
  <2> QED
    BY <2>1, <2>2 DEF TwoInodes
<1>3. ASSUME pc[q] = "link"
      PROVE  /\ nxt[q] \in Slots /\ nxt[q] # a /\ nxt[q] # b
             /\ icache[nxt[q]].inum \in Inums /\ icache[nxt[q]].inum # i /\ icache[nxt[q]].inum # d
  <2>1. nxt[q] \in Slots /\ icache[nxt[q]].ref = 1 /\ nxt[q] # a
    BY <1>1, <1>3, Lonely
  <2>2. nxt[q] # b
    BY <1>2, <1>3
  <2>3. icache[nxt[q]].ref > 0
    BY <2>1
  <2>4. icache[nxt[q]].inum \in Inums
    BY <2>1, <2>3 DEF Inv, CacheOK
  <2> QED
    BY <1>2, <2>1, <2>2, <2>3, <2>4
<1>4. ASSUME pc[q] = "new" PROVE nxt[q] # i /\ nxt[q] # d
  BY <1>1, <1>2, <1>4 DEF Inv, Known
<1>5. ASSUME pc[q] \in {"new", "link"}
      PROVE  icache[ip[q]].inum \in Inums /\ icache[ip[q]].inum # i /\ icache[ip[q]].inum # d
  <2>1. ip[q] \in Slots
    BY <1>5 DEF Inv, ProcOK, Walking
  <2>2. Holding(q, ip[q]) /\ Holding(p, a)
    BY <1>1, <1>5 DEF Holding
  <2>3. holder[ip[q]] = q /\ holder[a] = p
    BY <1>1, <1>5, <2>1, <2>2 DEF Inv, HoldOK
  <2>4. ip[q] # a
    BY <2>3
  <2>5. icache[ip[q]].ref > 0 /\ icache[ip[q]].inum \in Inums
    BY <2>1, Pointed
  <2> QED
    BY <1>2, <2>1, <2>4, <2>5
<1> QED
  BY <1>3, <1>4, <1>5

\* ind->nlink = 1 and, for a directory (m = 1), one link more to its parent.
AfterLink(p, a, b, i, d, m) ==
    /\ icache' \in [Slots -> Inodes]
    /\ \A s \in Slots : s # a /\ s # b => icache'[s] = icache[s]
    /\ icache'[b] = [inum |-> i, ref |-> 1, valid |-> TRUE, type |-> NewType[kind[p]], nlink |-> 1, size |-> 0]
    /\ icache'[a] = [icache[a] EXCEPT !.nlink = icache[a].nlink + m]
    /\ dinode' = [[dinode EXCEPT ![i] = [type |-> NewType[kind[p]], nlink |-> 1, size |-> 0]]
                  EXCEPT ![d] = [type |-> icache[a].type, nlink |-> icache[a].nlink + m, size |-> icache[a].size]]

LEMMA LinkCache ==
    ASSUME Inv, NEW p \in Procs, NEW a, NEW b, NEW i, NEW d, Linking(p, a, b, i, d), CreateLink(p), NEW m, m = One(kind[p] = "mkdir")
    PROVE  AfterLink(p, a, b, i, d, m)
<1>1. /\ pc[p] = "link" /\ a = ip[p] /\ b = nxt[p] /\ i = icache[b].inum /\ d = icache[a].inum
      /\ a \in Slots /\ b \in Slots /\ i \in Inums /\ d \in Inums /\ a # b /\ i # d
  BY DEF Linking
<1>2. icache[b].ref = 1 /\ icache[b].ref > 0 /\ dinode[i] = NewDinode(p) /\ kind[p] \in WantsParent
  <2>1. TwoInodes(p, a, b, i, d)
    BY LinkingCache
  <2>2. icache[b].ref = 1
    BY <2>1 DEF TwoInodes
  <2> QED
    BY <2>1, <2>2 DEF TwoInodes
<1>3. icache \in [Slots -> Inodes] /\ icache[a] \in Inodes /\ icache[b] \in Inodes /\ dinode \in [Inums -> Dinodes]
  BY <1>1 DEF Inv, Typed
<1>4. PICK l : l = Loaded(b)
  OBVIOUS
<1>5. /\ l \in [Slots -> Inodes] /\ \A t \in Slots : t # b => l[t] = icache[t]
      /\ l[b].inum = i /\ l[b].ref = 1 /\ l[b].valid
      /\ NewDinode(p) = [type |-> l[b].type, nlink |-> l[b].nlink, size |-> l[b].size]
  BY <1>1, <1>2, <1>4, LoadedIs
<1>6. PICK y : y = [inum |-> i, ref |-> 1, valid |-> TRUE, type |-> NewType[kind[p]], nlink |-> 1, size |-> 0]
  OBVIOUS
<1>7. y \in Inodes /\ y.inum = i /\ y.type = NewType[kind[p]] /\ y.nlink = 1 /\ y.size = 0
  BY <1>1, <1>2, <1>6, NewTypes, Ranges DEF Inodes
<1>8. [l[b] EXCEPT !.nlink = 1] = y
  <2>1. l[b].type = NewType[kind[p]] /\ l[b].size = 0
    BY <1>5 DEF NewDinode
  <2>2. l[b] \in Inodes
    BY <1>1, <1>5
  <2>3. l[b].valid = TRUE
    BY <1>5, <2>2 DEF Inodes
  <2>4. PICK o : o = l[b]
    OBVIOUS
  <2>5. /\ o \in Inodes /\ o.inum = i /\ o.ref = 1 /\ o.valid = TRUE
        /\ o.type = NewType[kind[p]] /\ o.size = 0
    BY <1>5, <2>1, <2>2, <2>3, <2>4
  <2>6. PICK t, w : t = NewType[kind[p]] /\ w = o.nlink
    OBVIOUS
  <2>7. o = [inum |-> i, ref |-> 1, valid |-> TRUE, type |-> t, nlink |-> w, size |-> 0]
    BY <2>5, <2>6 DEF Inodes
  <2>8. PICK v : v = [o EXCEPT !.nlink = 1]
    OBVIOUS
  <2>9. /\ v \in Inodes /\ v.inum = i /\ v.ref = 1 /\ v.valid = TRUE
        /\ v.type = t /\ v.nlink = 1 /\ v.size = 0
    BY <2>5, <2>6, <2>8 DEF Inodes
  <2>10. v = y
    BY <1>6, <2>6, <2>9 DEF Inodes
  <2> QED
    BY <2>4, <2>8, <2>10
<1>9. FirstLink(nxt[p]) = [l EXCEPT ![b] = y]
  BY <1>1, <1>4, <1>8 DEF FirstLink
<1>10. PICK ind : ind = FirstLink(nxt[p])
  OBVIOUS
<1>11. ind \in [Slots -> Inodes] /\ ind[b] = y /\ \A s \in Slots : s # b => ind[s] = icache[s]
  BY <1>1, <1>5, <1>7, <1>9, <1>10
<1>12. PICK z : z = [icache[a] EXCEPT !.nlink = icache[a].nlink + m]
  OBVIOUS
<1>13. /\ z \in Inodes /\ z.inum = d /\ z.type = icache[a].type /\ z.nlink = icache[a].nlink + m /\ z.size = icache[a].size
       /\ (m = 0 => z = icache[a]) /\ m \in {0, 1}
  <2>1. m \in {0, 1} /\ icache[a].nlink + m \in Nat
    BY <1>3 DEF One, Inodes
  <2> QED
    BY <1>1, <1>3, <1>12, <2>1 DEF Inodes
<1>14. icache' = [ind EXCEPT ![a] = z]
  <2>1. CASE kind[p] = "mkdir"
    <3>1. m = 1
      BY <2>1 DEF One
    <3>2. icache' = [ind EXCEPT ![a].nlink = @ + 1]
      BY <1>1, <1>10, <2>1 DEF CreateLink
    <3>3. ind[a] = icache[a]
      BY <1>1, <1>11
    <3> QED
      BY <1>12, <3>1, <3>2, <3>3
  <2>2. CASE kind[p] # "mkdir"
    <3>1. m = 0
      BY <2>2 DEF One
    <3>2. icache' = ind
      BY <1>10, <2>2 DEF CreateLink
    <3>3. ind[a] = z
      BY <1>1, <1>11, <1>13, <3>1
    <3> QED
      BY <1>11, <3>2, <3>3
  <2> QED
    BY <2>1, <2>2
<1>15. PICK all : all = icache'
  OBVIOUS
<1>16. all \in [Slots -> Inodes] /\ all[a] = z /\ all[b] = y /\ \A s \in Slots : s # a /\ s # b => all[s] = icache[s]
  BY <1>1, <1>11, <1>13, <1>14, <1>15
<1>17. dinode' = [Updated(all, b) EXCEPT ![d] = Updated(all, a)[d]]
  <2>1. CASE kind[p] = "mkdir"
    BY <1>1, <1>15, <2>1 DEF CreateLink
  <2>2. CASE kind[p] # "mkdir"
    BY <1>1, <1>15, <2>2 DEF CreateLink
  <2> QED
    BY <2>1, <2>2
<1>18. /\ Updated(all, b) = [dinode EXCEPT ![i] = [type |-> NewType[kind[p]], nlink |-> 1, size |-> 0]]
       /\ Updated(all, a)[d] = [type |-> icache[a].type, nlink |-> icache[a].nlink + m, size |-> icache[a].size]
  BY <1>1, <1>3, <1>7, <1>13, <1>16 DEF Updated
<1>19. dinode' = [[dinode EXCEPT ![i] = [type |-> NewType[kind[p]], nlink |-> 1, size |-> 0]]
                  EXCEPT ![d] = [type |-> icache[a].type, nlink |-> icache[a].nlink + m, size |-> icache[a].size]]
  BY <1>17, <1>18
<1> QED
  BY <1>6, <1>12, <1>15, <1>16, <1>19 DEF AfterLink

\* The directories after the entries are made: name n stands for i in d, and a
\* new directory (m = 1) has "." and "..".
NewEnts(i, d, m, n) ==
    /\ n \in Names /\ m \in {0, 1}
    /\ ents' \in [Inums -> SUBSET (Elems \X Inums)]
    /\ ents'[d] = ents[d] \cup {<<n, i>>}
    /\ ents'[i] = (IF m = 1 THEN {<<".", i>>, <<"..", d>>} ELSE {})
    /\ \A j \in Inums : j # i /\ j # d => ents'[j] = ents[j]

LEMMA Dirlinks ==
    ASSUME NEW i, NEW d
    PROVE  dirlink(dirlink({}, ".", i), "..", d) = {<<".", i>>, <<"..", d>>}
<1>1. dirlink({}, ".", i) = {<<".", i>>}
  BY DEF dirlink
<1>2. ~ \E e \in {<<".", i>>} : e[1] = ".."
  OBVIOUS
<1> QED
  BY <1>1, <1>2 DEF dirlink

LEMMA LinkEnts ==
    ASSUME Inv, NEW p \in Procs, NEW a, NEW b, NEW i, NEW d, Linking(p, a, b, i, d), CreateLink(p), NEW m, m = One(kind[p] = "mkdir")
    PROVE  NewEnts(i, d, m, elems[p][1])
<1>1. /\ pc[p] = "link" /\ a = ip[p] /\ b = nxt[p] /\ i = icache[b].inum /\ d = icache[a].inum
      /\ i \in Inums /\ d \in Inums /\ i # d
  BY DEF Linking
<1>2. /\ elems[p][1] \in Names /\ \A e \in ents[d] : e[1] # elems[p][1]
      /\ ents[i] = {}
  BY LinkingEnts
<1>3. ents \in [Inums -> SUBSET (Elems \X Inums)]
  BY DEF Inv, Typed
<1>4. PICK n, own : n = elems[p][1] /\ own = IF m = 1 THEN {<<".", i>>, <<"..", d>>} ELSE {}
  OBVIOUS
<1>5. m \in {0, 1} /\ (m = 1 <=> kind[p] = "mkdir")
  BY DEF One
<1>6. own = IF kind[p] = "mkdir" THEN dirlink(dirlink(ents[i], ".", i), "..", d) ELSE ents[i]
  <2>1. dirlink(dirlink(ents[i], ".", i), "..", d) = {<<".", i>>, <<"..", d>>}
    BY <1>2, Dirlinks
  <2>2. CASE kind[p] = "mkdir"
    BY <1>4, <1>5, <2>1, <2>2
  <2>3. CASE kind[p] # "mkdir"
    BY <1>2, <1>4, <1>5, <2>3
  <2> QED
    BY <2>2, <2>3
<1>7. ents' = [ents EXCEPT ![i] = own, ![d] = dirlink(@, n, i)]
  BY <1>1, <1>4, <1>6 DEF CreateLink
<1>8. dirlink(ents[d], n, i) = ents[d] \cup {<<n, i>>}
  BY <1>2, <1>4 DEF dirlink
<1>9. PICK D, u : D = ents[d] \cup {<<n, i>>} /\ u = [ents EXCEPT ![i] = own]
  OBVIOUS
<1>10. own \in SUBSET (Elems \X Inums) /\ D \in SUBSET (Elems \X Inums)
  BY <1>1, <1>2, <1>3, <1>4, <1>9 DEF Elems
<1>11. /\ u \in [Inums -> SUBSET (Elems \X Inums)] /\ u[i] = own /\ u[d] = ents[d]
       /\ \A j \in Inums : j # i => u[j] = ents[j]
  BY <1>1, <1>3, <1>9, <1>10
<1>12. ents' = [u EXCEPT ![d] = D]
  BY <1>7, <1>8, <1>9, <1>11
<1>13. /\ ents' \in [Inums -> SUBSET (Elems \X Inums)] /\ ents'[d] = D /\ ents'[i] = own
       /\ \A j \in Inums : j # i /\ j # d => ents'[j] = ents[j]
  BY <1>1, <1>10, <1>11, <1>12
<1> QED
  BY <1>2, <1>4, <1>5, <1>9, <1>13 DEF NewEnts

\* The entries that count: one more for i and, for a directory, for d.
LEMMA LinkCounts ==
    ASSUME Inv, NEW i \in Inums, NEW d \in Inums, i # d, NEW m, NEW n, NewEnts(i, d, m, n), NEW j \in Inums,
           ents[i] = {}, \A l \in Inums : \A e \in ents[l] : e[2] # i, \A e \in ents[d] : e[1] # n
    PROVE  Cardinality(Counted(j)') = Cardinality(Counted(j)) + One(j = i) + (IF j = d THEN m ELSE 0)
<1>1. /\ n \in Names /\ m \in {0, 1} /\ ents'[d] = ents[d] \cup {<<n, i>>}
      /\ ents'[i] = (IF m = 1 THEN {<<".", i>>, <<"..", d>>} ELSE {})
      /\ \A l \in Inums : l # i /\ l # d => ents'[l] = ents[l]
  BY DEF NewEnts
<1>2. PICK Q : Q = Inums \X (Names \cup {".."})
  OBVIOUS
<1>3. IsFiniteSet(Q) /\ Counted(j) \in SUBSET Q /\ Counted(j)' \in SUBSET Q
  BY <1>2, Finite DEF Counted
<1>4. <<d, n>> \in Q /\ <<i, "..">> \in Q
  BY <1>1, <1>2
<1>5. \A l \in Inums, s \in Names \cup {".."} :
          /\ <<l, s>> \in Counted(j) <=> <<s, j>> \in ents[l]
          /\ <<l, s>> \in Counted(j)' <=> <<s, j>> \in ents'[l]
  BY DEF Counted
<1>6. PICK A, B : A = Counted(j) /\ B = Counted(j)'
  OBVIOUS
<1>7. "." \notin Names \cup {".."} /\ ".." \notin Names
  BY Sizes
<1>8. \A y \in Q : \E l \in Inums, s \in Names \cup {".."} : y = <<l, s>>
  BY <1>2
<1>9. CASE j = i
  <2>1. <<d, n>> \notin A /\ <<d, n>> \in B
    <3>1. <<n, i>> \notin ents[d]
      OBVIOUS
    <3>2. <<d, n>> \in B
      BY <1>1, <1>5, <1>6, <1>9
    <3> QED
      BY <1>1, <1>5, <1>6, <1>9, <3>1, <3>2
  <2>2. ASSUME NEW l \in Inums, NEW s \in Names \cup {".."}, <<l, s>> # <<d, n>> PROVE <<l, s>> \in A <=> <<l, s>> \in B
    <3>1. CASE l = d
      <4>1. s # n
        BY <2>2, <3>1
      <4>2. <<s, i>> # <<n, i>>
        BY <4>1
      <4> QED
        BY <1>1, <1>5, <1>6, <1>9, <3>1, <4>2
    <3>2. CASE l = i
      <4>1. s # "."
        BY <1>7
      <4>2. <<s, i>> # <<".", i>> /\ <<s, i>> # <<"..", d>>
        BY <4>1
      <4>3. <<s, i>> \notin ents'[i]
        BY <1>1, <4>2
      <4> QED
        BY <1>5, <1>6, <1>9, <3>2, <4>3
    <3>3. CASE l # d /\ l # i
      BY <1>1, <1>5, <1>6, <3>3
    <3> QED
      BY <3>1, <3>2, <3>3
  <2>3. \A y \in Q : y # <<d, n>> => (y \in A <=> y \in B)
    BY <1>8, <2>2
  <2>4. /\ Cardinality(A) \in Nat /\ Cardinality(B) \in Nat
        /\ Cardinality(B) = Cardinality(A) + One(<<d, n>> \in B) - One(<<d, n>> \in A)
    BY <1>3, <1>4, <1>6, <2>3, OneChange
  <2>5. One(<<d, n>> \in B) = 1 /\ One(<<d, n>> \in A) = 0
    BY <2>1 DEF One
  <2>6. One(j = i) = 1 /\ j # d
    BY <1>9 DEF One
  <2> QED
    BY <1>6, <2>4, <2>5, <2>6
<1>10. CASE j = d
  <2>1. <<i, "..">> \notin A /\ (<<i, "..">> \in B <=> m = 1)
    <3>1. <<"..", d>> # <<".", i>>
      OBVIOUS
    <3> QED
      BY <1>1, <1>5, <1>6, <1>10, <3>1
  <2>2. ASSUME NEW l \in Inums, NEW s \in Names \cup {".."}, <<l, s>> # <<i, "..">> PROVE <<l, s>> \in A <=> <<l, s>> \in B
    <3>1. CASE l = d
      <4>1. <<s, d>> # <<n, i>>
        OBVIOUS
      <4> QED
        BY <1>1, <1>5, <1>6, <1>10, <3>1, <4>1
    <3>2. CASE l = i
      <4>1. s # "." /\ s # ".."
        BY <1>7, <2>2, <3>2
      <4>2. <<s, d>> # <<".", i>> /\ <<s, d>> # <<"..", d>>
        BY <4>1
      <4>3. <<s, d>> \notin ents'[i]
        BY <1>1, <4>2
      <4> QED
        BY <1>5, <1>6, <1>10, <3>2, <4>3
    <3>3. CASE l # d /\ l # i
      BY <1>1, <1>5, <1>6, <3>3
    <3> QED
      BY <3>1, <3>2, <3>3
  <2>3. \A y \in Q : y # <<i, "..">> => (y \in A <=> y \in B)
    BY <1>8, <2>2
  <2>4. /\ Cardinality(A) \in Nat /\ Cardinality(B) \in Nat
        /\ Cardinality(B) = Cardinality(A) + One(<<i, "..">> \in B) - One(<<i, "..">> \in A)
    BY <1>3, <1>4, <1>6, <2>3, OneChange
  <2>5. One(<<i, "..">> \in B) = m /\ One(<<i, "..">> \in A) = 0
    BY <1>1, <2>1 DEF One
  <2>6. One(j = i) = 0
    BY <1>10 DEF One
  <2> QED
    BY <1>1, <1>6, <1>10, <2>4, <2>5, <2>6
<1>11. CASE j # i /\ j # d
  <2>1. ASSUME NEW l \in Inums, NEW s \in Names \cup {".."} PROVE <<l, s>> \in A <=> <<l, s>> \in B
    <3>1. CASE l = d
      <4>1. <<s, j>> # <<n, i>>
        BY <1>11
      <4> QED
        BY <1>1, <1>5, <1>6, <3>1, <4>1
    <3>2. CASE l = i
      <4>1. <<s, j>> # <<".", i>> /\ <<s, j>> # <<"..", d>>
        BY <1>11
      <4> QED
        BY <1>1, <1>5, <1>6, <3>2, <4>1
    <3>3. CASE l # d /\ l # i
      BY <1>1, <1>5, <1>6, <3>3
    <3> QED
      BY <3>1, <3>2, <3>3
  <2>2. A = B
    <3>1. \A y \in Q : y \in A <=> y \in B
      BY <1>8, <2>1
    <3> QED
      BY <1>3, <1>6, <3>1
  <2>3. Cardinality(A) \in Nat
    BY <1>3, <1>6, AtLeastOne
  <2>4. One(j = i) = 0
    BY <1>11 DEF One
  <2> QED
    BY <1>6, <1>11, <2>2, <2>3, <2>4
<1> QED
  BY <1>9, <1>10, <1>11

\* The two inodes on disk after the link.
NewLinks(i, d, m) ==
    /\ m \in {0, 1} /\ dinode' \in [Inums -> Dinodes]
    /\ dinode'[i].type = dinode[i].type /\ dinode'[i].nlink = 1
    /\ dinode'[d].type = dinode[d].type /\ dinode'[d].nlink = dinode[d].nlink + m
    /\ \A j \in Inums : j # i /\ j # d => dinode'[j] = dinode[j]
    /\ dinode[i].nlink = 0 /\ dinode[i].type # "free" /\ (dinode[i].type = "dir" <=> m = 1)

LEMMA LinkDinodes ==
    ASSUME Inv, NEW p \in Procs, NEW a, NEW b, NEW i, NEW d, Linking(p, a, b, i, d), CreateLink(p), NEW m, m = One(kind[p] = "mkdir")
    PROVE  NewLinks(i, d, m)
<1>1. a \in Slots /\ i \in Inums /\ d \in Inums /\ i # d
  BY DEF Linking
<1>2. TwoInodes(p, a, b, i, d)
  BY LinkingCache
<1>3. kind[p] \in WantsParent /\ dinode[i] = NewDinode(p)
      /\ dinode[d] = [type |-> icache[a].type, nlink |-> icache[a].nlink, size |-> icache[a].size]
  BY <1>2 DEF TwoInodes
<1>4. m \in {0, 1} /\ (m = 1 <=> kind[p] = "mkdir")
  BY DEF One
<1>5. PICK t : t = NewType[kind[p]]
  OBVIOUS
<1>6. t \in Types /\ t # "free" /\ (t = "dir" <=> m = 1)
  BY <1>3, <1>4, <1>5 DEF NewType, WantsParent, Types
<1>7. dinode[i].nlink = 0 /\ dinode[i].type = t
  BY <1>3, <1>5 DEF NewDinode
<1>8. icache[a] \in Inodes /\ dinode \in [Inums -> Dinodes]
  BY <1>1 DEF Inv, Typed
<1>9. PICK u, v : u = [type |-> t, nlink |-> 1, size |-> 0]
                  /\ v = [type |-> icache[a].type, nlink |-> icache[a].nlink + m, size |-> icache[a].size]
  OBVIOUS
<1>10. /\ u \in Dinodes /\ u.type = t /\ u.nlink = 1
       /\ v \in Dinodes /\ v.type = dinode[d].type /\ v.nlink = dinode[d].nlink + m
  <2>1. icache[a].nlink + m \in Nat /\ icache[a].type \in Types /\ icache[a].size \in 0..MAXFILE
    BY <1>4, <1>8 DEF Inodes
  <2> QED
    BY <1>3, <1>6, <1>9, <2>1, Ranges DEF Dinodes
<1>11. dinode' = [[dinode EXCEPT ![i] = u] EXCEPT ![d] = v]
  <2>1. AfterLink(p, a, b, i, d, m)
    BY LinkCache
  <2> QED
    BY <1>5, <1>9, <2>1 DEF AfterLink
<1>12. /\ dinode' \in [Inums -> Dinodes] /\ dinode'[i] = u /\ dinode'[d] = v
       /\ \A j \in Inums : j # i /\ j # d => dinode'[j] = dinode[j]
  BY <1>1, <1>8, <1>10, <1>11
<1> QED
  BY <1>4, <1>6, <1>7, <1>10, <1>12 DEF NewLinks

\* The directories and the inodes agree after the link.
LEMMA LinkTree ==
    ASSUME Inv, NEW i \in Inums, NEW d \in Inums, i # d, NEW m, NEW n, NewEnts(i, d, m, n), NewLinks(i, d, m),
           ents[i] = {}, \A l \in Inums : \A e \in ents[l] : e[2] # i, \A e \in ents[d] : e[1] # n,
           dinode[d].type = "dir", dinode[d].nlink > 0
    PROVE  TreeOK'
<1>1. /\ n \in Names /\ m \in {0, 1} /\ ents' \in [Inums -> SUBSET (Elems \X Inums)] /\ ents'[d] = ents[d] \cup {<<n, i>>}
      /\ ents'[i] = (IF m = 1 THEN {<<".", i>>, <<"..", d>>} ELSE {})
      /\ \A l \in Inums : l # i /\ l # d => ents'[l] = ents[l]
  BY DEF NewEnts
<1>2. /\ dinode' \in [Inums -> Dinodes]
      /\ dinode'[i].type = dinode[i].type /\ dinode'[i].nlink = 1
      /\ dinode'[d].type = dinode[d].type /\ dinode'[d].nlink = dinode[d].nlink + m
      /\ \A j \in Inums : j # i /\ j # d => dinode'[j] = dinode[j]
      /\ dinode[i].nlink = 0 /\ dinode[i].type # "free" /\ (dinode[i].type = "dir" <=> m = 1)
  BY DEF NewLinks
<1>3. \A j \in Inums : dinode'[j].type = dinode[j].type
  BY <1>2
<1>4. \A j \in Inums : dinode[j].nlink \in Nat
  <2>1. \A j \in Inums : dinode[j] \in Dinodes
    BY DEF Inv, Typed
  <2> QED
    BY <2>1 DEF Dinodes
<1>5. \A l \in Inums : \A e \in ents[l] : e[2] \in Inums /\ dinode[e[2]].type # "free" /\ (e[1] = "." => e[2] = l)
  <2>1. \A l \in Inums : \A e \in ents[l] : e[2] \in Inums
    BY DEF Inv, Typed
  <2> QED
    BY <2>1 DEF Inv, TreeOK
<1>6. "." \notin Names /\ ".." \notin Names
  BY Sizes
<1>7. ASSUME NEW l \in Inums, NEW e \in ents'[l], NEW g \in ents'[l], e[1] = g[1] PROVE e = g
  <2>1. CASE l = d
    <3>1. CASE e \in ents[d] /\ g \in ents[d]
      BY <1>7, <3>1 DEF Inv, TreeOK
    <3>2. CASE e = <<n, i>> /\ g = <<n, i>>
      BY <3>2
    <3>3. CASE e = <<n, i>> /\ g \in ents[d]
      BY <1>7, <3>3
    <3>4. CASE e \in ents[d] /\ g = <<n, i>>
      BY <1>7, <3>4
    <3> QED
      BY <1>1, <1>7, <2>1, <3>1, <3>2, <3>3, <3>4
  <2>2. CASE l = i
    <3>1. e \in {<<".", i>>, <<"..", d>>} /\ g \in {<<".", i>>, <<"..", d>>}
      BY <1>1, <1>7, <2>2
    <3> QED
      BY <1>7, <3>1
  <2>3. CASE l # d /\ l # i
    BY <1>1, <1>7, <2>3 DEF Inv, TreeOK
  <2> QED
    BY <2>1, <2>2, <2>3
<1>8. ASSUME NEW l \in Inums, NEW e \in ents'[l] PROVE dinode'[e[2]].type # "free" /\ (e[1] = "." => e[2] = l)
  <2>1. CASE l = d /\ e = <<n, i>>
    BY <1>1, <1>2, <1>6, <2>1
  <2>2. CASE l = i
    <3>1. e \in {<<".", i>>, <<"..", d>>}
      BY <1>1, <1>8, <2>2
    <3>2. dinode'[i].type # "free" /\ dinode'[d].type # "free"
      BY <1>2
    <3> QED
      BY <2>2, <3>1, <3>2
  <2>3. CASE e \in ents[l] /\ l # i
    BY <1>3, <1>5, <2>3
  <2> QED
    BY <1>1, <1>8, <2>1, <2>2, <2>3
<1>9. ASSUME NEW j \in Inums PROVE dinode'[j].nlink = Cardinality(Counted(j)')
  <2>1. Cardinality(Counted(j)') = Cardinality(Counted(j)) + One(j = i) + (IF j = d THEN m ELSE 0)
    BY LinkCounts
  <2>2. PICK c, c1, o : c = Cardinality(Counted(j)) /\ c1 = Cardinality(Counted(j)') /\ o = One(j = i)
    OBVIOUS
  <2>3. dinode[j].nlink = c
    BY <2>2 DEF Inv, TreeOK
  <2>4. c1 = c + o + (IF j = d THEN m ELSE 0)
    BY <2>1, <2>2
  <2>5. o = IF j = i THEN 1 ELSE 0
    BY <2>2 DEF One
  <2>6. dinode'[j].nlink = c1
    BY <1>1, <1>2, <1>4, <2>3, <2>4, <2>5
  <2> QED
    BY <2>2, <2>6
<1>10. \A j \in Inums : dinode'[j].nlink = 0 => ents'[j] = {}
  BY <1>1, <1>2, <1>4 DEF Inv, TreeOK
<1>11. \A j \in Inums : dinode'[j].type = "free" => dinode'[j].nlink = 0
  BY <1>2, <1>4 DEF Inv, TreeOK
<1>12. ASSUME NEW j \in Inums, dinode'[j].type = "dir", dinode'[j].nlink > 0, NEW s \in {".", ".."}
       PROVE  \E e \in ents'[j] : e[1] = s
  <2>1. CASE j = i
    <3>1. ents'[i] = {<<".", i>>, <<"..", d>>}
      BY <1>1, <1>2, <1>12, <2>1
    <3> QED
      BY <1>12, <2>1, <3>1
  <2>2. CASE j = d
    <3>1. \E e \in ents[d] : e[1] = s
      BY DEF Inv, TreeOK
    <3> QED
      BY <1>1, <2>2, <3>1
  <2>3. CASE j # i /\ j # d
    <3>1. dinode[j].type = "dir" /\ dinode[j].nlink > 0 /\ ents'[j] = ents[j]
      BY <1>1, <1>2, <1>12, <2>3
    <3>2. \E e \in ents[j] : e[1] = s
      BY <1>12, <3>1 DEF Inv, TreeOK
    <3> QED
      BY <3>1, <3>2
  <2> QED
    BY <2>1, <2>2, <2>3
<1>13. dinode'[ROOTINO].type = "dir" /\ dinode'[ROOTINO].nlink > 0
  <2>1. ROOTINO \in Inums /\ dinode[ROOTINO].type = "dir" /\ dinode[ROOTINO].nlink > 0
    BY Ranges DEF Inv, TreeOK
  <2> QED
    BY <1>1, <1>2, <1>4, <2>1
<1> QED
  BY <1>7, <1>8, <1>9, <1>10, <1>11, <1>12, <1>13 DEF TreeOK

\* The cache after the link says what the disk says.
LEMMA LinkCoherent ==
    ASSUME Inv, NEW p \in Procs, NEW a, NEW b, NEW i, NEW d, Linking(p, a, b, i, d), CreateLink(p)
    PROVE  /\ CacheOK(icache, dinode)' /\ Keeps(icache, icache') /\ icache' \in [Slots -> Inodes]
           /\ \A s \in Slots : icache'[s].ref = icache[s].ref /\ (icache[s].ref > 0 => icache'[s].inum = icache[s].inum)
           /\ icache'[b].valid /\ \A s \in Slots : s # a /\ s # b => icache'[s] = icache[s]
<1>1. a \in Slots /\ b \in Slots /\ i \in Inums /\ d \in Inums /\ i # d /\ a # b /\ i = icache[b].inum /\ d = icache[a].inum
  BY DEF Linking
<1>2. TwoInodes(p, a, b, i, d)
  BY LinkingCache
<1>3. /\ icache[a].valid /\ icache[b].ref = 1 /\ ~ icache[b].valid /\ icache[a].ref > 0
      /\ \A s \in Slots : icache[s].ref > 0 /\ s # a => icache[s].inum # d
      /\ \A s \in Slots : icache[s].ref > 0 /\ s # b => icache[s].inum # i
      /\ kind[p] \in WantsParent
  BY <1>2 DEF TwoInodes
<1>4. PICK m, t : m = One(kind[p] = "mkdir") /\ t = NewType[kind[p]]
  OBVIOUS
<1>5. m \in {0, 1} /\ t \in Types /\ t # "free"
  BY <1>3, <1>4, NewTypes DEF One
<1>6. /\ icache' \in [Slots -> Inodes]
      /\ \A s \in Slots : s # a /\ s # b => icache'[s] = icache[s]
      /\ icache'[b] = [inum |-> i, ref |-> 1, valid |-> TRUE, type |-> t, nlink |-> 1, size |-> 0]
      /\ icache'[a] = [icache[a] EXCEPT !.nlink = icache[a].nlink + m]
      /\ dinode' = [[dinode EXCEPT ![i] = [type |-> t, nlink |-> 1, size |-> 0]]
                    EXCEPT ![d] = [type |-> icache[a].type, nlink |-> icache[a].nlink + m, size |-> icache[a].size]]
  <2>1. AfterLink(p, a, b, i, d, m)
    BY <1>4, LinkCache
  <2> QED
    BY <1>4, <2>1 DEF AfterLink
<1>7. icache[a] \in Inodes /\ dinode \in [Inums -> Dinodes] /\ \A s \in Slots : icache[s] \in Inodes
  BY <1>1 DEF Inv, Typed
<1>8. /\ icache'[a].inum = d /\ icache'[a].ref = icache[a].ref /\ icache'[a].valid /\ icache'[a].type = icache[a].type
      /\ icache'[a].nlink = icache[a].nlink + m /\ icache'[a].size = icache[a].size
  BY <1>1, <1>3, <1>6, <1>7 DEF Inodes
<1>9. /\ icache'[b].inum = i /\ icache'[b].ref = 1 /\ icache'[b].valid /\ icache'[b].type = t
      /\ icache'[b].nlink = 1 /\ icache'[b].size = 0
  BY <1>6
<1>10. /\ dinode'[i] = [type |-> t, nlink |-> 1, size |-> 0]
       /\ dinode'[d] = [type |-> icache[a].type, nlink |-> icache[a].nlink + m, size |-> icache[a].size]
       /\ \A j \in Inums : j # i /\ j # d => dinode'[j] = dinode[j]
  BY <1>1, <1>6, <1>7
<1>11. ASSUME NEW s \in Slots PROVE icache'[s].ref = icache[s].ref /\ icache'[s].inum = icache[s].inum
  <2>1. CASE s = a
    BY <1>1, <1>8, <2>1
  <2>2. CASE s = b
    BY <1>1, <1>3, <1>9, <2>2
  <2>3. CASE s # a /\ s # b
    BY <1>6, <2>3
  <2> QED
    BY <2>1, <2>2, <2>3
<1>12. ASSUME NEW s \in Slots, icache'[s].ref > 0
       PROVE  /\ icache'[s].inum \in Inums /\ dinode'[icache'[s].inum].type # "free"
              /\ icache'[s].valid => dinode'[icache'[s].inum] = [type |-> icache'[s].type, nlink |-> icache'[s].nlink, size |-> icache'[s].size]
  <2>1. CASE s = a
    <3>1. icache[a].type # "free"
      <4>1. icache[a].type = "dir"
        BY <1>2 DEF TwoInodes
      <4> QED
        BY <4>1
    <3> QED
      BY <1>1, <1>8, <1>10, <2>1, <3>1
  <2>2. CASE s = b
    BY <1>1, <1>5, <1>9, <1>10, <2>2
  <2>3. CASE s # a /\ s # b
    <3>1. icache'[s] = icache[s] /\ icache[s].ref > 0
      BY <1>6, <1>12, <2>3
    <3>2. icache[s].inum \in Inums /\ icache[s].inum # i /\ icache[s].inum # d
      BY <1>3, <2>3, <3>1 DEF Inv, CacheOK
    <3>3. dinode'[icache[s].inum] = dinode[icache[s].inum]
      BY <1>10, <3>2
    <3> QED
      BY <3>1, <3>3 DEF Inv, CacheOK
  <2> QED
    BY <2>1, <2>2, <2>3
<1>13. \A s, t1 \in Slots : icache'[s].ref > 0 /\ icache'[t1].ref > 0 /\ icache'[s].inum = icache'[t1].inum => s = t1
  BY <1>11 DEF Inv, CacheOK
<1>14. CacheOK(icache, dinode)'
  BY <1>6, <1>12, <1>13 DEF CacheOK
<1>15. Keeps(icache, icache')
  <2> SUFFICES ASSUME NEW s \in Slots, icache[s].ref > 0
               PROVE  /\ icache'[s].inum = icache[s].inum
                      /\ icache[s].valid => icache'[s].valid /\ icache'[s].type = icache[s].type /\ icache'[s].size >= icache[s].size
    BY DEF Keeps
  <2>1. icache[s].size \in Nat
    BY <1>7, Sizes DEF Inodes
  <2>2. CASE s = b
    BY <1>3, <1>11, <2>2
  <2>3. CASE s = a
    BY <1>8, <1>11, <2>1, <2>3
  <2>4. CASE s # a /\ s # b
    BY <1>6, <2>1, <2>4
  <2> QED
    BY <2>2, <2>3, <2>4
<1> QED
  BY <1>6, <1>9, <1>11, <1>14, <1>15

\* The locks change hands: dp's is released, ind's is taken.
LEMMA LinkHold ==
    ASSUME Inv, Typed', NEW p \in Procs, Alone(p), FilesStay, NEW a \in Slots, NEW b \in Slots, a # b,
           pc[p] = "link", ip[p] = a, nxt[p] = b, Free(b), pc'[p] = "linked", nxt'[p] = b,
           kept' = kept, holder' = [holder EXCEPT ![a] = None, ![b] = p]
    PROVE  HoldOK'
<1>1. holder'[a] = None /\ holder'[b] = p /\ \A s \in Slots : s # a /\ s # b => holder'[s] = holder[s]
  BY DEF Inv, Typed
<1>2. Holding(p, a) /\ \A s \in Slots : Holding(p, s) => s = a
  BY DEF Holding
<1>3. holder[a] = p /\ a \notin kept
  BY <1>2 DEF Inv, HoldOK
<1>4. holder[b] = None /\ b \notin kept
  BY DEF Inv, HoldOK, Free
<1>5. \A s \in Slots : Holding(p, s)' <=> s = b
  BY DEF Holding
<1>6. \A s \in Slots : holder'[s] # holder[s] => holder[s] \in {None, p} /\ s \notin kept /\ holder'[s] \in {None, p}
  BY <1>1, <1>3, <1>4
<1>7. ASSUME NEW s \in Slots, s \notin kept', holder'[s] = p PROVE Holding(p, s)'
  <2>1. s # a
    BY <1>1, <1>7, Sizes
  <2>2. s # b => Holding(p, s)
    BY <1>1, <1>7, <2>1 DEF Inv, HoldOK
  <2> QED
    BY <1>2, <1>5, <2>1, <2>2
<1>8. \A s \in Slots : Holding(p, s)' /\ pc'[p] # "panic" => holder'[s] = p /\ s \notin kept'
  BY <1>1, <1>4, <1>5
<1> QED
  BY <1>6, <1>7, <1>8, HoldStep

LEMMA LinkReach ==
    ASSUME Inv, NEW p \in Procs, Alone(p), NEW b, nxt[p] = b, NEW i \in Inums, NEW d \in Inums, i # d, NEW m, NewLinks(i, d, m),
           icache[b].inum = i,
           \A s \in Slots : icache'[s].ref = icache[s].ref /\ (icache[s].ref > 0 => icache'[s].inum = icache[s].inum)
    PROVE  Reach'
<1>1. /\ m \in {0, 1} /\ dinode'[i].nlink = 1 /\ dinode'[d].nlink = dinode[d].nlink + m
      /\ \A j \in Inums : j # i /\ j # d => dinode'[j] = dinode[j]
  BY DEF NewLinks
<1>2. \A j \in Inums : dinode[j].nlink \in Nat
  <2>1. \A j \in Inums : dinode[j] \in Dinodes
    BY DEF Inv, Typed
  <2> QED
    BY <2>1 DEF Dinodes
<1>3. \A j \in Inums : dinode[j].nlink > 0 => dinode'[j].nlink > 0
  BY <1>1, <1>2
<1> SUFFICES ASSUME NEW s \in Slots, icache'[s].ref > 0
             PROVE  dinode'[icache'[s].inum].nlink > 0 \/ \E q \in Procs : pc'[q] = "link" /\ nxt'[q] = s
  BY DEF Reach
<1>4. icache[s].ref > 0 /\ icache'[s].inum = icache[s].inum
  OBVIOUS
<1>5. icache[s].inum \in Inums
  BY <1>4 DEF Inv, CacheOK
<1>6. dinode[icache[s].inum].nlink > 0 \/ \E q \in Procs : pc[q] = "link" /\ nxt[q] = s
  BY <1>4 DEF Inv, Reach
<1>7. CASE dinode[icache[s].inum].nlink > 0
  BY <1>3, <1>4, <1>5, <1>7
<1>8. ASSUME NEW q \in Procs, pc[q] = "link", nxt[q] = s
      PROVE  dinode'[icache'[s].inum].nlink > 0 \/ \E r \in Procs : pc'[r] = "link" /\ nxt'[r] = s
  <2>1. CASE q = p
    <3>1. icache'[s].inum = i
      BY <1>4, <1>8, <2>1
    <3> QED
      BY <1>1, <3>1
  <2>2. CASE q # p
    BY <1>8, <2>2 DEF Alone
  <2> QED
    BY <2>1, <2>2
<1> QED
  BY <1>6, <1>7, <1>8

LEMMA CreateLinkOK ==
    ASSUME Inv, NEW p \in Procs, CreateLink(p)
    PROVE  Inv'
<1>1. pc[p] = "link" /\ Free(nxt[p])
  BY DEF CreateLink
<1>2. PICK a, b, i, d : a = ip[p] /\ b = nxt[p] /\ i = icache[nxt[p]].inum /\ d = icache[ip[p]].inum
  OBVIOUS
<1>3. Linking(p, a, b, i, d)
  BY <1>1, <1>2, IsLinking
<1>4. a \in Slots /\ b \in Slots /\ i \in Inums /\ d \in Inums /\ a # b /\ i # d /\ i = icache[b].inum /\ d = icache[a].inum
  BY <1>3 DEF Linking
<1>5. PICK m : m = One(kind[p] = "mkdir")
  OBVIOUS
<1>6. NewEnts(i, d, m, elems[p][1]) /\ NewLinks(i, d, m)
  BY <1>3, <1>5, LinkEnts, LinkDinodes
<1>7. /\ CacheOK(icache, dinode)' /\ Keeps(icache, icache') /\ icache' \in [Slots -> Inodes]
      /\ \A s \in Slots : icache'[s].ref = icache[s].ref /\ (icache[s].ref > 0 => icache'[s].inum = icache[s].inum)
      /\ icache'[b].valid /\ \A s \in Slots : s # a /\ s # b => icache'[s] = icache[s]
  BY <1>3, LinkCoherent
<1>8. /\ \A e \in ents[d] : e[1] # elems[p][1]
      /\ ents[i] = {} /\ \A j \in Inums : \A e \in ents[j] : e[2] # i
  BY <1>3, LinkingEnts
<1>9. dinode[d].type = "dir" /\ dinode[d].nlink > 0 /\ kind[p] \in WantsParent
  <2>1. TwoInodes(p, a, b, i, d)
    BY <1>3, LinkingCache
  <2> QED
    BY <2>1 DEF TwoInodes
<1>10. TreeOK'
  BY <1>4, <1>6, <1>8, <1>9, LinkTree
<1>11. /\ ents' \in [Inums -> SUBSET (Elems \X Inums)] /\ \A j \in Inums : j # i /\ j # d => ents'[j] = ents[j]
       /\ dinode' \in [Inums -> Dinodes] /\ \A j \in Inums : j # i /\ j # d => dinode'[j] = dinode[j]
  BY <1>6 DEF NewEnts, NewLinks
<1>12. /\ holder' = [holder EXCEPT ![a] = None, ![b] = p] /\ pc' = [pc EXCEPT ![p] = "linked"]
       /\ ftable' = ftable /\ ofile' = ofile /\ cwd' = cwd /\ kind' = kind /\ elems' = elems /\ ip' = ip /\ nxt' = nxt
       /\ io' = io /\ leaked' = leaked /\ kept' = kept
  BY <1>2 DEF CreateLink, Goto, fileVars, walkVars
<1>13. holder' \in [Slots -> Procs \cup {None}]
  BY <1>4, <1>12 DEF Inv, Typed
<1>14. pc' \in [Procs -> Points] /\ pc'[p] = "linked" /\ \A q \in Procs : q # p => pc'[q] = pc[q]
  BY <1>12 DEF Inv, Typed, Points
<1>15. Typed'
  BY <1>7, <1>11, <1>12, <1>13, <1>14 DEF Inv, Typed
<1>16. Alone(p)
  BY <1>12, <1>14 DEF Alone
<1>17. FilesOK' /\ FilesStay
  BY <1>12, FilesSame
<1>18. OpenOK'
  BY <1>7, <1>12, <1>15, OpenSame
<1>19. HoldOK'
  BY <1>1, <1>2, <1>4, <1>12, <1>14, <1>15, <1>16, <1>17, LinkHold
<1>20. RefsOK'
  BY <1>1, <1>7, <1>12, <1>14, <1>15, <1>16, RefsSame
<1>21. Reach'
  BY <1>2, <1>4, <1>6, <1>7, <1>16, LinkReach
<1>22. NewApart'
  BY <1>14, <1>16, ApartStays
<1>23. ASSUME NEW q \in Procs, q # p PROVE Known(q)' /\ ProcOK(q)'
  <2>1. /\ pc[q] = "link" => /\ nxt[q] \in Slots /\ nxt[q] # a /\ nxt[q] # b
                             /\ icache[nxt[q]].inum \in Inums /\ icache[nxt[q]].inum # i /\ icache[nxt[q]].inum # d
        /\ pc[q] = "new" => nxt[q] # i /\ nxt[q] # d
        /\ pc[q] \in {"new", "link"} => icache[ip[q]].inum \in Inums /\ icache[ip[q]].inum # i /\ icache[ip[q]].inum # d
    BY <1>3, <1>23, LinkingOthers
  <2>2. pc[q] = "link" => /\ icache'[nxt[q]] = icache[nxt[q]]
                          /\ dinode'[icache[nxt[q]].inum] = dinode[icache[nxt[q]].inum]
    BY <1>7, <1>11, <2>1
  <2>3. pc[q] = "new" => dinode'[nxt[q]] = dinode[nxt[q]]
    BY <1>11, <2>1, NewIsNotFree
  <2>4. pc[q] = "new" => \A s \in Slots : icache'[s].ref > 0 => icache'[s].inum # nxt[q]
    BY <1>7 DEF Inv, Known
  <2>5. pc[q] \in {"new", "link"} => ents'[icache[ip[q]].inum] = ents[icache[ip[q]].inum]
    BY <1>11, <2>1
  <2> QED
    BY <1>7, <1>16, <1>17, <1>23, <2>2, <2>3, <2>4, <2>5, KnownOthers, ProcOthers
<1>24. cwd[p] \in Slots
  BY <1>1 DEF Inv, ProcOK
<1>25. ProcOK(p)'
  BY <1>2, <1>4, <1>9, <1>12, <1>14, <1>24 DEF ProcOK, Walking
<1>26. Known(p)'
  BY <1>2, <1>7, <1>12, <1>14 DEF Known
<1> QED
  BY <1>7, <1>10, <1>15, <1>17, <1>18, <1>19, <1>20, <1>21, <1>22, <1>23, <1>25, <1>26 DEF Inv

-----------------------------------------------------------------------------
(* The first state.                                                        *)

LEMMA InitTyped ==
    ASSUME Init
    PROVE  Typed
<1>1. dinode \in [Inums -> Dinodes]
  BY Ranges DEF Init, Dinodes, Types
<1>2. ents \in [Inums -> SUBSET (Elems \X Inums)]
  BY DEF Init, Elems
<1>3. icache \in [Slots -> Inodes]
  BY Ranges DEF Init, Inodes, Types
<1>4. ftable \in [Files -> OpenFiles]
  BY DEF Init, OpenFiles
<1>5. io \in [Procs -> [file : Files \cup {0}, n : Nat, fin : Nat]]
  BY DEF Init, NoIo
<1>6. /\ holder \in [Slots -> Procs \cup {None}] /\ ofile \in [Procs -> [Fds -> Files \cup {0}]]
      /\ cwd \in [Procs -> Slots \cup {0}] /\ pc \in [Procs -> Points]
      /\ kind \in [Procs -> Kinds \cup {"none", "read", "write"}]
      /\ ip \in [Procs -> Slots \cup {0}] /\ nxt \in [Procs -> Nat]
      /\ leaked \in [Slots -> Nat] /\ kept \subseteq Slots
  BY Ranges DEF Init, Points
<1>7. elems \in [Procs -> Seq(Elems)]
  BY DEF Init
<1> QED
  BY <1>1, <1>2, <1>3, <1>4, <1>5, <1>6, <1>7 DEF Typed

LEMMA InitCounts ==
    ASSUME Init
    PROVE  RefsOK /\ FilesOK
<1>1. ASSUME NEW s \in Slots PROVE icache[s].ref = Pointers(s) + leaked[s]
  <2>1. s # 0
    BY Ranges
  <2>2. Opens(s) = {} /\ Paths(s) = {} /\ Nexts(s) = {}
    BY <2>1 DEF Init, Opens, Paths, Nexts
  <2>3. Dirs(s) = IF s = 1 THEN {initproc} ELSE {}
    BY <2>1, Sizes DEF Init, Dirs
  <2>4. Cardinality({}) = 0 /\ Cardinality({initproc}) = 1
    BY FS_EmptySet, FS_Singleton
  <2>5. Pointers(s) = Cardinality(Dirs(s)) + Cardinality(Opens(s)) + Cardinality(Paths(s)) + Cardinality(Nexts(s))
    BY PointersAre
  <2>6. Pointers(s) = IF s = 1 THEN 1 ELSE 0
    BY <2>2, <2>3, <2>4, <2>5
  <2>7. leaked[s] = 0 /\ icache[s].ref = IF s = 1 THEN 1 ELSE 0
    BY DEF Init
  <2> QED
    BY <2>6, <2>7
<1>2. ASSUME NEW f \in Files
      PROVE  /\ ftable[f].ref = Cardinality({x \in Procs \X Fds : ofile[x[1]][x[2]] = f})
             /\ ftable[f].ref > 0 <=> ftable[f].type = "inode"
  <2>1. f # 0
    BY Ranges
  <2>2. {x \in Procs \X Fds : ofile[x[1]][x[2]] = f} = {}
    <3>1. \A q \in Procs, d \in Fds : ofile[q][d] # f
      BY <2>1 DEF Init
    <3> QED
      BY <3>1
  <2>3. ftable[f].ref = 0 /\ ftable[f].type = "none"
    BY DEF Init
  <2>4. Cardinality({x \in Procs \X Fds : ofile[x[1]][x[2]] = f}) = 0
    BY <2>2, FS_EmptySet
  <2> QED
    BY <2>3, <2>4
<1> QED
  BY <1>1, <1>2 DEF RefsOK, FilesOK

\* mkfs makes a root with "." and "..", which only ".." counts for.
LEMMA InitTree ==
    ASSUME Init
    PROVE  TreeOK
<1>1. ROOTINO \in Inums
  BY Ranges
<1>2. /\ ents[ROOTINO] = {<<".", ROOTINO>>, <<"..", ROOTINO>>}
      /\ \A i \in Inums : i # ROOTINO => ents[i] = {} /\ dinode[i].type = "free" /\ dinode[i].nlink = 0
      /\ dinode[ROOTINO].type = "dir" /\ dinode[ROOTINO].nlink = 1
  BY <1>1 DEF Init
<1>3. "." \notin Names
  BY Sizes
<1>4. Counted(ROOTINO) = {<<ROOTINO, "..">>}
  <2>1. ASSUME NEW l \in Inums, NEW s \in Names \cup {".."} PROVE <<s, ROOTINO>> \in ents[l] <=> l = ROOTINO /\ s = ".."
    <3>1. CASE l = ROOTINO
      <4>1. s # "."
        BY <1>3
      <4>2. <<s, ROOTINO>> # <<".", ROOTINO>> /\ (<<s, ROOTINO>> = <<"..", ROOTINO>> <=> s = "..")
        BY <4>1
      <4> QED
        BY <1>2, <3>1, <4>2
    <3>2. CASE l # ROOTINO
      BY <1>2, <3>2
    <3> QED
      BY <3>1, <3>2
  <2> QED
    BY <1>1, <2>1 DEF Counted
<1>5. \A i \in Inums : i # ROOTINO => Counted(i) = {}
  <2> SUFFICES ASSUME NEW i \in Inums, i # ROOTINO, NEW l \in Inums, NEW s \in Names \cup {".."} PROVE <<s, i>> \notin ents[l]
    BY DEF Counted
  <2>1. <<s, i>> # <<".", ROOTINO>> /\ <<s, i>> # <<"..", ROOTINO>>
    OBVIOUS
  <2> QED
    BY <1>2, <2>1
<1>6. \A i \in Inums : dinode[i].nlink = Cardinality(Counted(i))
  <2>1. Cardinality({<<ROOTINO, "..">>}) = 1 /\ Cardinality({}) = 0
    BY FS_EmptySet, FS_Singleton
  <2>2. Cardinality(Counted(ROOTINO)) = 1 /\ \A i \in Inums : i # ROOTINO => Cardinality(Counted(i)) = 0
    BY <1>4, <1>5, <2>1
  <2> QED
    BY <1>2, <2>2
<1>7. \A i \in Inums : \A e, g \in ents[i] : e[1] = g[1] => e = g
  <2>1. \A e, g \in {<<".", ROOTINO>>, <<"..", ROOTINO>>} : e[1] = g[1] => e = g
    OBVIOUS
  <2> QED
    BY <1>2, <2>1
<1>8. \A i \in Inums : \A e \in ents[i] : dinode[e[2]].type # "free" /\ (e[1] = "." => e[2] = i)
  <2>1. \A e \in {<<".", ROOTINO>>, <<"..", ROOTINO>>} : e[2] = ROOTINO
    OBVIOUS
  <2> QED
    BY <1>2, <2>1
<1>9. \A i \in Inums : dinode[i].type = "dir" /\ dinode[i].nlink > 0 => \A n \in {".", ".."} : \E e \in ents[i] : e[1] = n
  <2>1. \A n \in {".", ".."} : \E e \in {<<".", ROOTINO>>, <<"..", ROOTINO>>} : e[1] = n
    OBVIOUS
  <2> QED
    BY <1>2, <2>1
<1> QED
  BY <1>1, <1>2, <1>6, <1>7, <1>8, <1>9 DEF TreeOK

LEMMA InitOK ==
    ASSUME Init
    PROVE  Inv
<1>1. Typed /\ RefsOK /\ FilesOK /\ TreeOK
  BY InitTyped, InitCounts, InitTree
<1>2. \A p \in Procs : /\ pc[p] \in {"user", "unused"} /\ ip[p] = 0 /\ nxt[p] = 0
                       /\ ofile[p] = [d \in Fds |-> 0]
                       /\ (pc[p] = "unused" => cwd[p] = 0) /\ (pc[p] # "unused" => cwd[p] \in Slots)
  BY Ranges DEF Init
<1>3. \A p \in Procs : ProcOK(p)
  BY <1>2 DEF ProcOK, Walking
<1>4. \A s \in Slots : /\ icache[s].inum = (IF s = 1 THEN ROOTINO ELSE 0) /\ icache[s].ref = (IF s = 1 THEN 1 ELSE 0)
                       /\ ~ icache[s].valid /\ holder[s] = None
  BY DEF Init
<1>5. ROOTINO \in Inums /\ dinode[ROOTINO].type = "dir" /\ dinode[ROOTINO].nlink > 0
  BY <1>1, Ranges DEF TreeOK
<1>6. CacheOK(icache, dinode)
  <2>1. \A s \in Slots : icache[s].ref > 0 => s = 1 /\ icache[s].inum = ROOTINO
    BY <1>4
  <2>2. dinode[ROOTINO].type # "free"
    BY <1>5
  <2>3. icache \in [Slots -> Inodes]
    BY <1>1 DEF Typed
  <2> QED
    BY <1>4, <1>5, <2>1, <2>2, <2>3 DEF CacheOK
<1>7. OpenOK
  BY DEF Init, OpenOK
<1>8. (\A p \in Procs : Known(p)) /\ NewApart
  BY <1>2 DEF Known, NewApart
<1>9. Reach
  BY <1>4, <1>5 DEF Reach
<1>10. HoldOK
  <2>1. \A p \in Procs, s \in Slots : ~ Holding(p, s)
    BY <1>2 DEF Holding
  <2>2. kept = {}
    BY DEF Init
  <2> QED
    BY <1>4, <2>1, <2>2, Sizes DEF HoldOK
<1> QED
  BY <1>1, <1>3, <1>6, <1>7, <1>8, <1>9, <1>10 DEF Inv

-----------------------------------------------------------------------------
(* Every step.                                                             *)

LEMMA Stutter ==
    ASSUME Inv, UNCHANGED vars
    PROVE  Inv'
<1>1. UNCHANGED <<dinode, ents, icache, holder, ftable, ofile, cwd, pc, kind, elems, ip, nxt, io, leaked, kept>>
  BY DEF vars, diskVars, fileVars, walkVars
<1>2. Typed'
  BY <1>1 DEF Inv, Typed
<1>3. (\A p \in Procs : ProcOK(p)')
  BY <1>1 DEF Inv, ProcOK
<1>4. PICK p \in Procs : p = initproc
  BY Sizes
<1>5. Alone(p) /\ FilesStay /\ FilesOK'
  BY <1>1, FilesSame DEF Alone
<1>6. CacheStep(p, icache')
  BY <1>1, StepNone
<1>7. RefsOK'
  <2>1. \A s \in Slots : Pointers(s)' = Pointers(s)
    BY <1>1 DEF Pointers
  <2> QED
    BY <1>1, <2>1 DEF Inv, RefsOK
<1>8. OpenOK'
  BY <1>1, <1>2, <1>6, OpenSame DEF CacheStep
<1>9. HoldOK'
  BY <1>1 DEF Inv, HoldOK, Holding
<1>10. TreeOK'
  BY <1>1, TreeStays
<1>11. \A q \in Procs : Known(q)'
  <2>1. \A q \in Procs : Known(q)' = Known(q)
    BY <1>1 DEF Known, NewDinode, Inode, File
  <2> QED
    BY <2>1 DEF Inv
<1>12. CacheOK(icache, dinode)' /\ NewApart' /\ Reach'
  BY <1>1 DEF Inv, CacheOK, NewApart, Reach
<1> QED
  BY <1>2, <1>3, <1>5, <1>7, <1>8, <1>9, <1>10, <1>11, <1>12 DEF Inv

LEMMA StepOK ==
    ASSUME Inv, NEW p \in Procs,
           \/ \E c \in Calls : NamexStart(p, c)
           \/ NamexNext(p) \/ CreateNext(p) \/ PathNext(p) \/ FileNext(p)
           \/ \E d \in Fds : Dup(p, d) \/ Close(p, d)
           \/ \E d \in Fds, n \in Lengths, k \in {"read", "write"} : IoStart(p, d, n, k)
           \/ \E q \in Procs : Fork(p, q)
           \/ ExitStart(p) \/ ExitClose(p) \/ ExitPut(p)
    PROVE  Inv'
<1>1. ASSUME NEW c \in Calls, NamexStart(p, c) PROVE Inv'
  BY <1>1, NamexStartOK
<1>2. CASE NamexNext(p)
  BY <1>2, NamexLookOK, NamexParentOK, NamexStepOK, NamexNoParentOK DEF NamexNext
<1>3. CASE CreateNext(p)
  BY <1>3, CreateFoundOK, CreateExistsOK, CreateAllocOK, CreateGetOK, CreateLinkOK, CreatePutOK DEF CreateNext
<1>4. CASE PathNext(p)
  BY <1>4, OpenLockOK, OpenFileOK, OpenNoFileOK, StatOK, ChdirLookOK, ChdirPutOK, ExecLoadOK, ExecFailsOK, PutAndReturnOK DEF PathNext
<1>5. CASE FileNext(p)
  BY <1>5, FileReadOK, FileWriteOK, WriteFailsOK, DevEnterOK, DirReadOK, DevRefusedOK, DevReadOK, DevWriteOK DEF FileNext
<1>6. ASSUME NEW d \in Fds, Dup(p, d) \/ Close(p, d) PROVE Inv'
  <2>1. CASE Dup(p, d)
    BY <2>1, DupOK
  <2>2. CASE Close(p, d)
    BY <2>2, CloseOK DEF Close
  <2> QED
    BY <1>6, <2>1, <2>2
<1>7. ASSUME NEW d \in Fds, NEW n \in Lengths, NEW k \in {"read", "write"}, IoStart(p, d, n, k) PROVE Inv'
  BY <1>7, IoStartOK
<1>8. ASSUME NEW q \in Procs, Fork(p, q) PROVE Inv'
  BY <1>8, ForkOK
<1>9. CASE ExitStart(p) \/ ExitClose(p) \/ ExitPut(p)
  BY <1>9, ExitStartOK, ExitCloseOK, ExitPutOK
<1> QED
  BY <1>1, <1>2, <1>3, <1>4, <1>5, <1>6, <1>7, <1>8, <1>9

-----------------------------------------------------------------------------
(* What the invariant says of the system.                                  *)

LEMMA InvRefExact ==
    ASSUME Inv
    PROVE  RefExact
<1>1. TypeOK
  BY DEF Inv, Typed, TypeOK, Dinodes, Inodes, OpenFiles
<1> QED
  BY <1>1 DEF Inv, RefsOK, FilesOK, RefExact

LEMMA InvCacheCoherent ==
    ASSUME Inv
    PROVE  CacheCoherent
<1>1. OffWithinSize
  BY DEF Inv, OpenOK, OffWithinSize
<1> QED
  BY <1>1 DEF Inv, CacheOK, CacheCoherent

LEMMA InvTreeSound ==
    ASSUME Inv
    PROVE  TreeSound
  BY DEF Inv, TreeOK, TreeSound, Counted

LEMMA InvIputNeverFrees ==
    ASSUME Inv
    PROVE  IputNeverFrees
<1> SUFFICES ASSUME NEW p \in Procs, NEW s \in {ip[p], cwd[p]} \ {0}, icache[s].valid
             PROVE  icache[s].nlink > 0
  BY DEF IputNeverFrees
<1>1. s \in Slots /\ (cwd[p] = s \/ ip[p] = s)
  BY DEF Inv, Typed
<1>2. icache[s].ref > 0 /\ icache[s].inum \in Inums /\ dinode[icache[s].inum].nlink > 0
  BY <1>1, Pointed
<1>3. dinode[icache[s].inum] = [type |-> icache[s].type, nlink |-> icache[s].nlink, size |-> icache[s].size]
  BY <1>1, <1>2 DEF Inv, CacheOK
<1> QED
  BY <1>2, <1>3

LEMMA InvHolderRuns ==
    ASSUME Inv
    PROVE  HolderRuns
<1> SUFFICES ASSUME NEW s \in Slots \ kept, holder[s] # None, NEW p, p = holder[s]
             PROVE  /\ pc[p] \in {"new", "link", "linked", "locked", "panic", "halt"}
                    /\ pc[p] = "link" => holder[nxt[p]] = None /\ icache[nxt[p]].ref = 1
  BY DEF HolderRuns
<1>1. p \in Procs
  BY DEF Inv, Typed
<1>2. Holding(p, s)
  BY <1>1 DEF Inv, HoldOK
<1>3. pc[p] \in {"new", "link", "linked", "locked", "panic", "halt"}
  BY <1>2 DEF Holding
<1>4. ASSUME pc[p] = "link" PROVE holder[nxt[p]] = None /\ icache[nxt[p]].ref = 1
  <2>1. /\ nxt[p] \in Slots /\ icache[nxt[p]].ref = 1 /\ leaked[nxt[p]] = 0
        /\ \A q \in Procs : cwd[q] # nxt[p] /\ ip[q] # nxt[p]
        /\ \A q \in Procs : q # p /\ pc[q] # "new" => nxt[q] # nxt[p]
        /\ \A f \in Files : ~ (ftable[f].type = "inode" /\ ftable[f].ip = nxt[p])
    BY <1>1, <1>4, Lonely
  <2>2. nxt[p] \notin kept
    <3>1. leaked[nxt[p]] \in Nat
      BY <2>1 DEF Inv, Typed
    <3> QED
      BY <2>1, <3>1 DEF Inv, HoldOK
  <2>3. \A q \in Procs : ~ Holding(q, nxt[p])
    BY <1>4, <2>1 DEF Holding
  <2>4. holder[nxt[p]] \in Procs \cup {None}
    BY <2>1 DEF Inv, Typed
  <2> QED
    BY <2>1, <2>2, <2>3, <2>4 DEF Inv, HoldOK
<1> QED
  BY <1>3, <1>4

-----------------------------------------------------------------------------
(* The theorems.                                                           *)

\* Every reachable state of the file system calls satisfies the inductive
\* invariant, whatever the sizes of the tables and the calls of the processes.
THEOREM SpecInv == Spec => []Inv
<1>1. Init => Inv
  BY InitOK
<1>2. Inv /\ [Next]_vars => Inv'
  <2> SUFFICES ASSUME Inv, [Next]_vars PROVE Inv'
    OBVIOUS
  <2>1. CASE Next
    BY <2>1, StepOK DEF Next
  <2>2. CASE UNCHANGED vars
    BY <2>2, Stutter
  <2> QED
    BY <2>1, <2>2
<1> QED
  BY <1>1, <1>2, PTL DEF Spec

\* The reference counts of iget(), idup(), iput(), filealloc(), filedup() and
\* fileclose() are exact in every state: ref of an inode is the number of
\* pointers to it and of references lost, ref of a file the number of its
\* descriptors, so nothing is recycled under a pointer.
THEOREM SpecRefExact == Spec => []RefExact
<1>1. Inv => RefExact
  BY InvRefExact
<1> QED
  BY <1>1, SpecInv, PTL

\* The inode cache is write-through and has one entry for an inode: what a
\* valid entry says is what iupdate() has put on disk, and no open file stands
\* beyond the end of its inode.
THEOREM SpecCacheCoherent == Spec => []CacheCoherent
<1>1. Inv => CacheCoherent
  BY InvCacheCoherent
<1> QED
  BY <1>1, SpecInv, PTL

\* create() and dirlink() keep names unique in a directory, no entry stands for
\* a free inode, and nlink is the number of entries but "." for the inode.
THEOREM SpecTreeSound == Spec => []TreeSound
<1>1. Inv => TreeSound
  BY InvTreeSound
<1> QED
  BY <1>1, SpecInv, PTL

\* iput() never meets a valid inode without links: the part of it that
\* truncates and frees an inode is not reached.
THEOREM SpecIputNeverFrees == Spec => []IputNeverFrees
<1>1. Inv => IputNeverFrees
  BY InvIputNeverFrees
<1> QED
  BY <1>1, SpecInv, PTL

\* Whoever holds the lock of an inode, but for those left locked by a call that
\* has returned, is at a point where he waits for no other inode, or for the
\* new one of create(), which is free: there is no circle of waiting.
THEOREM SpecHolderRuns == Spec => []HolderRuns
<1>1. Inv => HolderRuns
  BY InvHolderRuns
<1> QED
  BY <1>1, SpecInv, PTL
=============================================================================
