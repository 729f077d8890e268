---------------------------- MODULE BlocksProofs ----------------------------
(***************************************************************************)
(* Proofs about the blocks of files: NoSharedBlock and FileContents, for   *)
(* any number of processes and files, any geometry of inode and bitmap and *)
(* any number of writes.                                                   *)
(*                                                                         *)
(* A block is referred to from a spot of a file (a direct address, the     *)
(* address of the indirect block, a word of that) or it is claimed by a    *)
(* process: taken from the bitmap and not yet in the file, or about to be  *)
(* written.  IInv says that no block is at two spots (Once), that a block  *)
(* being cleared is at none (Fresh), that a block about to be written is   *)
(* at none but the one bmap() looked up (Mine), and that no two processes  *)
(* claim one block (Apart).  It holds for every image as long as bmap()    *)
(* returns no writer a word of a recycled buffer (NoStaleWrite); readers   *)
(* may get any block.                                                      *)
(*                                                                         *)
(* bmap() does read a buffer after brelse(), and it does not log an        *)
(* indirect block it changes.  For a writer both are harmless only if the  *)
(* buffer is pinned, as it is from the bzero() of an indirect block made   *)
(* by the kernel, but not for one made by mkfs.  On an image with such     *)
(* files, which are read as a whole and written in their direct blocks     *)
(* only (SafeWrites), CInv is inductive too: NoStaleWrite is true and all  *)
(* files hold what was written.                                            *)
(***************************************************************************)
EXTENDS Blocks, FiniteSetTheorems, WellFoundedInduction, TLAPS

Spots   == 0..MAXFILE
Zeroing == {"zero_direct", "zero_indirect", "zero_word"}
PcSet   == {"out", "bmap", "peek", "use"} \cup Zeroing
Inodes  == [addrs : [0..NDIRECT -> Blocks], size : 0..MAXFILE]

\* The block at each spot of a file: k is the k-th address for k <= NDIRECT, a
\* word of the indirect block behind that; 0 for none.
RefIn(i, m) ==
    [f \in Files |-> [k \in Spots |->
        IF k <= NDIRECT THEN i[f].addrs[k]
        ELSE IF i[f].addrs[NDIRECT] = 0 THEN 0 ELSE m[i[f].addrs[NDIRECT]][k - NDIRECT - 1]]]
Ref == RefIn(ip, mem)

\* The spot of the n-th block of a file.
Spot(n) == IF n < NDIRECT THEN n ELSE n + 1

Typed ==
    /\ bits \subseteq Blocks /\ pinned \subseteq Blocks
    /\ mem \in [Blocks -> [Words -> Nat]]
    /\ ip \in [Files -> Inodes] /\ dinode \in [Files -> Inodes]
    /\ lock \in [Files -> Procs \cup {None}]
    /\ pc \in [Procs -> PcSet] /\ op \in [Procs -> {"read", "write"}]
    /\ bn \in [Procs -> 0..(MAXFILE - 1)] /\ blk \in [Procs -> Blocks]
    /\ latest \in [Files -> [0..(MAXFILE - 1) -> [Words -> Nat]]]
    /\ stale \in [Procs -> BOOLEAN] /\ writes \in Nat

\* A process has the lock of one file during an operation, and of none outside.
Locks ==
    /\ \A p \in Procs : pc[p] # "out" => \E f \in Files : lock[f] = p
    /\ \A f \in Files : lock[f] # None => pc[lock[f]] # "out"
    /\ \A f, g \in Files : lock[f] = lock[g] /\ lock[f] # None => f = g

\* No bit is lost: the buffer of the bitmap is pinned once a bit was set.
BitsKept == MkfsBits \subseteq bits /\ (Bitmap \in pinned \/ bits = MkfsBits)

Claims(p) == pc[p] \in Zeroing \/ (pc[p] = "use" /\ op[p] = "write")

Marked ==
    /\ \A f \in Files : \A k \in Spots : Ref[f][k] # 0 => Ref[f][k] \in bits /\ Ref[f][k] >= nmeta
    /\ \A p \in Procs : Claims(p) => blk[p] \in bits /\ blk[p] >= nmeta

Once  == \A f, g \in Files : \A k, l \in Spots : Ref[f][k] # 0 /\ Ref[f][k] = Ref[g][l] => f = g /\ k = l
Fresh == \A p \in Procs : pc[p] \in Zeroing => \A f \in Files : \A k \in Spots : Ref[f][k] # blk[p]
Mine  == \A p \in Procs : pc[p] = "use" /\ op[p] = "write" =>
            \A f \in Files : \A k \in Spots : Ref[f][k] = blk[p] => lock[f] = p /\ k = Spot(bn[p])
Apart == \A p, q \in Procs : Claims(p) /\ Claims(q) /\ blk[p] = blk[q] => p = q

\* What lies below the size of a file has its address in the inode.
Sized ==
    \A f \in Files :
        /\ \A k \in 0..(NDIRECT - 1) : k < ip[f].size => ip[f].addrs[k] # 0
        /\ ip[f].size > NDIRECT => ip[f].addrs[NDIRECT] # 0

\* The inode in memory differs from the logged one only while its file grows.
Saved == \A f \in Files : dinode[f] # ip[f] => lock[f] # None /\ bn[lock[f]] = ip[f].size

\* What each point of bmap() knows about the file it works on.
WhereIn(f, p) ==
    /\ bn[p] <= ip[f].size
    /\ op[p] = "read" => bn[p] < ip[f].size
    /\ pc[p] = "zero_direct" => bn[p] < NDIRECT /\ ip[f].addrs[bn[p]] = 0
    /\ pc[p] = "zero_indirect" => bn[p] >= NDIRECT /\ ip[f].addrs[NDIRECT] = 0
    /\ pc[p] = "zero_word" => /\ bn[p] >= NDIRECT /\ ip[f].addrs[NDIRECT] # 0
                              /\ mem[ip[f].addrs[NDIRECT]][bn[p] - NDIRECT] = 0
    /\ pc[p] = "peek" => /\ bn[p] >= NDIRECT /\ ip[f].addrs[NDIRECT] # 0
                         /\ stale[p] \/ mem[ip[f].addrs[NDIRECT]][bn[p] - NDIRECT] # 0
    /\ pc[p] = "use" => IF bn[p] < NDIRECT THEN blk[p] = ip[f].addrs[bn[p]] ELSE ip[f].addrs[NDIRECT] # 0

Where == \A f \in Files : \A p \in Procs : lock[f] = p => WhereIn(f, p)

\* Recycling an indirect block only forgets words.
WordsKept ==
    \A f \in Files : LET b == ip[f].addrs[NDIRECT] IN
        b # 0 /\ b \notin pinned => \A w \in Words : MkfsMem[b][w] = 0 \/ MkfsMem[b][w] = mem[b][w]

\* The inductive invariant of every image.
IInv == /\ Typed /\ Locks /\ BitsKept /\ Marked /\ Once /\ Fresh /\ Mine /\ Apart
        /\ Sized /\ Saved /\ Where /\ WordsKept

\* bmap() gives no writer a word of a buffer that was recycled after its brelse().
NoStaleWrite == \A p \in Procs : stale[p] => op[p] = "read"

\* A file for which mkfs made an indirect block is written in its direct blocks
\* only; all others are written anywhere.
SafeWrites == \A f \in Files : MkfsSize[f] > NDIRECT => Writable[f] <= NDIRECT

\* Only a reader, between bmap() and the end of readi(), has a recycled buffer.
StaleReads == \A p \in Procs : stale[p] => op[p] = "read" /\ pc[p] \in {"peek", "use"}

\* Writers stay below the limit of the file.
Bounded == \A f \in Files : \A p \in Procs : lock[f] = p /\ op[p] = "write" => bn[p] < Writable[f]

\* Recycling an indirect block changes nothing: it is pinned, or mkfs made it and
\* it has never been changed.
IndirectIn(f) ==
    LET b == ip[f].addrs[NDIRECT] IN
    b # 0 => IF MkfsSize[f] > NDIRECT THEN mem[b] = MkfsMem[b] ELSE b \in pinned
IndirectKept == \A f \in Files : IndirectIn(f)

\* The block a process uses is the one at its spot.
Looked == \A f \in Files : \A p \in Procs :
              lock[f] = p /\ pc[p] = "use" /\ ~ stale[p] => blk[p] = Ref[f][Spot(bn[p])]

\* Blocks of files hold what was written last, and on disk too if they may be
\* recycled.
Holds ==
    \A f \in Files : \A k \in 0..(MAXFILE - 1) : k < ip[f].size =>
        LET b == Ref[f][Spot(k)] IN
        /\ b # 0 /\ mem[b] = latest[f][k]
        /\ b \notin pinned => MkfsMem[b] = latest[f][k]

CInv == IInv /\ StaleReads /\ Bounded /\ IndirectKept /\ Looked /\ Holds

-----------------------------------------------------------------------------
(* Constants, the least element of a set, and the file of a process.       *)

\* The sizes are positive numbers; the bitmap and the metadata are blocks.
LEMMA Sizes ==
    /\ NFILES \in Nat /\ NDIRECT \in Nat /\ NINDIRECT \in Nat /\ nmeta \in Nat /\ BPB \in Nat
    /\ NDIRECT > 0 /\ NINDIRECT > 0 /\ nmeta > 1 /\ BPB > 0
    /\ MAXFILE = NDIRECT + NINDIRECT /\ None \notin Procs
    /\ MkfsSize \in [Files -> 0..MAXFILE]
  BY BlocksAssumption DEF MAXFILE

\* A set of natural numbers has a least element.
LEMMA Lowest ==
    ASSUME NEW T \in SUBSET Nat, T # {}
    PROVE  Min(T) \in T /\ \A y \in T : Min(T) <= y
<1> DEFINE R == OpToRel(<, Nat)
<1>1. IsWellFoundedOn(R, Nat)
  BY NatLessThanWellFounded, Zenon
<1>2. \A x, y \in Nat : x < y => <<x, y>> \in R
  BY DEF OpToRel
<1> HIDE DEF R
<1>3. PICK x \in T : \A y \in T : ~ (<<y, x>> \in R)
  BY <1>1, WFMin
<1>4. ASSUME NEW y \in T PROVE x <= y
  <2>1. x \in Nat /\ y \in Nat /\ ~ (y < x)
    BY <1>2, <1>3
  <2> QED
    BY <2>1
<1> QED
  BY <1>4 DEF Min

\* The files of the image follow one another.
LEMMA BaseUp ==
    ASSUME NEW f \in 1..(NFILES + 1), NEW g \in 1..(NFILES + 1), f <= g
    PROVE  Base[f] <= Base[g]
<1> DEFINE T == {x \in 1..(NFILES + 1) : f <= x /\ ~ (Base[f] <= Base[x])}
<1>1. \A x \in 1..(NFILES + 1) : Base[x] \in Nat
  BY LayoutAssumption
<1>2. \A x \in Files : Base[x + 1] >= Base[x]
  <2> SUFFICES ASSUME NEW x \in Files PROVE Base[x + 1] >= Base[x]
    OBVIOUS
  <2>1. Taken(x) \in Nat
    BY Sizes DEF Taken
  <2>2. Base[x] \in Nat /\ Base[x + 1] = Base[x] + Taken(x)
    BY <1>1, Sizes, LayoutAssumption DEF Files
  <2> QED
    BY <2>1, <2>2
<1>3. ASSUME T # {} PROVE FALSE
  <2>1. T \in SUBSET Nat
    BY Sizes
  <2>2. PICK x \in T : \A y \in T : x <= y
    BY <1>3, <2>1, Lowest
  <2>3. x # f /\ x - 1 \in Files /\ x - 1 \in 1..(NFILES + 1) /\ f <= x - 1 /\ x - 1 \notin T
    BY <1>1, <2>2, Sizes DEF Files
  <2>4. Base[f] <= Base[x - 1] /\ Base[(x - 1) + 1] >= Base[x - 1] /\ (x - 1) + 1 = x
    BY <1>2, <2>2, <2>3
  <2> QED
    BY <1>1, <2>2, <2>3, <2>4
<1> QED
  BY <1>3

\* The blocks of a file of the image lie behind the metadata, before the next
\* file and inside the bitmap.
LEMMA BaseRange ==
    ASSUME NEW f \in Files
    PROVE  /\ Base[f] \in Nat /\ Taken(f) \in 0..(MAXFILE + 1) /\ Base[f] >= nmeta
           /\ Base[f] + Taken(f) <= Base[NFILES + 1] /\ Base[NFILES + 1] \in Nat /\ Base[NFILES + 1] < BPB
           /\ \A g \in Files : f < g => Base[f] + Taken(f) <= Base[g]
<1>1. Taken(f) \in 0..(MAXFILE + 1)
  BY Sizes DEF Taken
<1>2. f \in 1..(NFILES + 1) /\ f + 1 \in 1..(NFILES + 1) /\ 1 \in 1..(NFILES + 1) /\ NFILES + 1 \in 1..(NFILES + 1)
  BY Sizes DEF Files
<1>3. Base[1] <= Base[f] /\ Base[f + 1] <= Base[NFILES + 1]
  BY <1>2, BaseUp, Sizes DEF Files
<1>4. ASSUME NEW g \in Files, f < g PROVE Base[f + 1] <= Base[g]
  BY <1>2, <1>4, BaseUp, Sizes DEF Files
<1>5. /\ Base[f] \in Nat /\ Base[NFILES + 1] \in Nat /\ Base[1] = nmeta
      /\ Base[f + 1] = Base[f] + Taken(f) /\ Base[NFILES + 1] < BPB
  BY <1>2, LayoutAssumption
<1> QED
  BY <1>1, <1>3, <1>4, <1>5

\* Metadata is marked, and so are the blocks of the image.
LEMMA MkfsBitsAre ==
    /\ MkfsBits \subseteq Blocks
    /\ \A b \in Blocks \ MkfsBits : b >= nmeta
<1>1. Base[NFILES + 1] >= nmeta /\ Base[NFILES + 1] < BPB /\ Base[NFILES + 1] \in Nat
  BY BaseUp, LayoutAssumption, Sizes
<1> QED
  BY <1>1, Sizes DEF MkfsBits, Blocks

\* A process inside an operation has one file.
LEMMA FileOf ==
    ASSUME Typed, Locks, NEW p \in Procs, pc[p] # "out"
    PROVE  File(p) \in Files /\ lock[File(p)] = p /\ \A f \in Files : lock[f] = p => f = File(p)
<1>1. PICK f \in Files : lock[f] = p
  BY DEF Locks
<1>2. \A g \in Files : lock[g] = p => g = f
  BY <1>1, Sizes DEF Locks
<1> QED
  BY <1>1, <1>2 DEF File

\* The addresses of an inode are blocks.
LEMMA InodeOf ==
    ASSUME NEW n \in Inodes
    PROVE  /\ n.size \in 0..MAXFILE /\ n.addrs \in [0..NDIRECT -> Blocks]
           /\ \A k \in 0..NDIRECT : n.addrs[k] \in Blocks
           /\ n.addrs[NDIRECT] \in Blocks
  BY Sizes DEF Inodes

\* The spots of the blocks of a file.
LEMMA SpotOf ==
    ASSUME NEW n \in 0..(MAXFILE - 1)
    PROVE  /\ Spot(n) \in Spots /\ Spot(n) # NDIRECT
           /\ n < NDIRECT => Spot(n) = n
           /\ n >= NDIRECT => Spot(n) = n + 1 /\ n - NDIRECT \in Words
           /\ \A m \in 0..(MAXFILE - 1) : Spot(m) = Spot(n) => m = n
  BY Sizes DEF Spot, Spots, Words

\* The block at a spot.
LEMMA RefInOf ==
    ASSUME NEW i, NEW m, NEW f \in Files
    PROVE  /\ \A k \in 0..NDIRECT : k \in Spots /\ RefIn(i, m)[f][k] = i[f].addrs[k]
           /\ NDIRECT \in Spots /\ RefIn(i, m)[f][NDIRECT] = i[f].addrs[NDIRECT]
           /\ \A w \in Words : /\ w + NDIRECT + 1 \in Spots
                               /\ RefIn(i, m)[f][w + NDIRECT + 1] = IF i[f].addrs[NDIRECT] = 0 THEN 0
                                                            ELSE m[i[f].addrs[NDIRECT]][w]
           /\ \A k \in Spots : k \notin 0..NDIRECT => k - NDIRECT - 1 \in Words /\ k = (k - NDIRECT - 1) + NDIRECT + 1
           /\ \A n \in 0..(MAXFILE - 1) : RefIn(i, m)[f][Spot(n)] =
                 IF n < NDIRECT THEN i[f].addrs[n]
                 ELSE IF i[f].addrs[NDIRECT] = 0 THEN 0 ELSE m[i[f].addrs[NDIRECT]][n - NDIRECT]
<1>1. /\ \A k \in 0..NDIRECT : k \in Spots
      /\ \A w \in Words : w + NDIRECT + 1 \in Spots /\ ~ (w + NDIRECT + 1 <= NDIRECT) /\ (w + NDIRECT + 1) - NDIRECT - 1 = w
      /\ \A k \in Spots : k \notin 0..NDIRECT => k - NDIRECT - 1 \in Words /\ k = (k - NDIRECT - 1) + NDIRECT + 1
  BY Sizes DEF Spots, Words
<1>2. /\ NDIRECT \in 0..NDIRECT
      /\ \A k \in 0..NDIRECT : k <= NDIRECT
  BY Sizes
<1>3. \A k \in 0..NDIRECT : RefIn(i, m)[f][k] = i[f].addrs[k]
  BY <1>1, <1>2 DEF RefIn
<1>4. \A w \in Words : RefIn(i, m)[f][w + NDIRECT + 1] = IF i[f].addrs[NDIRECT] = 0 THEN 0
                                                  ELSE m[i[f].addrs[NDIRECT]][w]
  BY <1>1 DEF RefIn
<1>5. ASSUME NEW n \in 0..(MAXFILE - 1)
      PROVE  RefIn(i, m)[f][Spot(n)] =
                 IF n < NDIRECT THEN i[f].addrs[n]
                 ELSE IF i[f].addrs[NDIRECT] = 0 THEN 0 ELSE m[i[f].addrs[NDIRECT]][n - NDIRECT]
  <2>1. CASE n < NDIRECT
    <3>1. Spot(n) = n /\ n \in 0..NDIRECT
      BY <2>1, Sizes DEF Spot
    <3> QED
      BY <1>3, <2>1, <3>1
  <2>2. CASE ~ (n < NDIRECT)
    <3>1. n - NDIRECT \in Words /\ Spot(n) = (n - NDIRECT) + NDIRECT + 1
      BY <2>2, Sizes DEF Spot, Words
    <3> QED
      BY <1>4, <2>2, <3>1
  <2> QED
    BY <2>1, <2>2
<1> QED
  BY <1>1, <1>2, <1>3, <1>4, <1>5

LEMMA RefOf ==
    ASSUME NEW f \in Files
    PROVE  /\ \A k \in 0..NDIRECT : k \in Spots /\ Ref[f][k] = ip[f].addrs[k]
           /\ NDIRECT \in Spots /\ Ref[f][NDIRECT] = ip[f].addrs[NDIRECT]
           /\ \A w \in Words : /\ w + NDIRECT + 1 \in Spots
                               /\ Ref[f][w + NDIRECT + 1] = IF ip[f].addrs[NDIRECT] = 0 THEN 0
                                                            ELSE mem[ip[f].addrs[NDIRECT]][w]
           /\ \A k \in Spots : k \notin 0..NDIRECT => k - NDIRECT - 1 \in Words /\ k = (k - NDIRECT - 1) + NDIRECT + 1
           /\ \A n \in 0..(MAXFILE - 1) : Ref[f][Spot(n)] =
                 IF n < NDIRECT THEN ip[f].addrs[n]
                 ELSE IF ip[f].addrs[NDIRECT] = 0 THEN 0 ELSE mem[ip[f].addrs[NDIRECT]][n - NDIRECT]
  BY RefInOf DEF Ref

LEMMA RefOfNext ==
    ASSUME NEW f \in Files
    PROVE  /\ \A k \in 0..NDIRECT : k \in Spots /\ Ref'[f][k] = ip'[f].addrs[k]
           /\ NDIRECT \in Spots /\ Ref'[f][NDIRECT] = ip'[f].addrs[NDIRECT]
           /\ \A w \in Words : /\ w + NDIRECT + 1 \in Spots
                               /\ Ref'[f][w + NDIRECT + 1] = IF ip'[f].addrs[NDIRECT] = 0 THEN 0
                                                            ELSE mem'[ip'[f].addrs[NDIRECT]][w]
           /\ \A k \in Spots : k \notin 0..NDIRECT => k - NDIRECT - 1 \in Words /\ k = (k - NDIRECT - 1) + NDIRECT + 1
           /\ \A n \in 0..(MAXFILE - 1) : Ref'[f][Spot(n)] =
                 IF n < NDIRECT THEN ip'[f].addrs[n]
                 ELSE IF ip'[f].addrs[NDIRECT] = 0 THEN 0 ELSE mem'[ip'[f].addrs[NDIRECT]][n - NDIRECT]
  BY RefInOf DEF Ref

-----------------------------------------------------------------------------
(* What a step does to who refers to a block and who claims it.            *)

Owned == Marked /\ Once /\ Fresh /\ Mine /\ Apart

\* References do not change when inodes and indirect blocks do not.
LEMMA RefSame ==
    ASSUME ip' = ip,
           \A f \in Files : ip[f].addrs[NDIRECT] # 0 => mem'[ip[f].addrs[NDIRECT]] = mem[ip[f].addrs[NDIRECT]]
    PROVE  \A f \in Files : \A k \in Spots : Ref'[f][k] = Ref[f][k]
<1> SUFFICES ASSUME NEW f \in Files, NEW k \in Spots PROVE Ref'[f][k] = Ref[f][k]
  OBVIOUS
<1>1. CASE k \in 0..NDIRECT
  BY <1>1, RefOf, RefOfNext
<1>2. CASE k \notin 0..NDIRECT
  <2>1. PICK w \in Words : k = w + NDIRECT + 1
    BY <1>2, RefOf
  <2> QED
    BY <2>1, RefOf, RefOfNext
<1> QED
  BY <1>1, <1>2

\* References are forgotten at most, and nobody claims a block he did not.
LEMMA OwnKept ==
    ASSUME Owned, bits \subseteq bits',
           \A f \in Files : \A k \in Spots : Ref'[f][k] = 0 \/ Ref'[f][k] = Ref[f][k],
           \A q \in Procs : Claims(q)' =>
               /\ pc'[q] = pc[q] /\ op'[q] = op[q] /\ blk'[q] = blk[q] /\ bn'[q] = bn[q]
               /\ \A f \in Files : lock[f] = q => lock'[f] = q
    PROVE  Owned'
<1> USE DEF Owned, Claims
<1>1. \A p \in Procs : Claims(p) => blk[p] # 0
  BY Sizes DEF Marked
<1>2. Marked'
  BY DEF Marked
<1>3. Once'
  BY DEF Once
<1>4. Fresh'
  BY <1>1 DEF Fresh
<1>5. Mine'
  <2> SUFFICES ASSUME NEW p \in Procs, pc'[p] = "use", op'[p] = "write", NEW f \in Files, NEW k \in Spots, Ref'[f][k] = blk'[p]
               PROVE  lock'[f] = p /\ k = Spot(bn'[p])
    BY DEF Mine, Spot
  <2>1. pc[p] = "use" /\ op[p] = "write" /\ blk'[p] = blk[p] /\ bn'[p] = bn[p] /\ (lock[f] = p => lock'[f] = p)
    OBVIOUS
  <2>2. Ref[f][k] = blk[p]
    BY <1>1, <2>1
  <2> QED
    BY <2>1, <2>2 DEF Mine
<1>6. Apart'
  BY DEF Apart
<1> QED
  BY <1>2, <1>3, <1>4, <1>5, <1>6

\* A process begins to use the block that bmap() found in its file.
LEMMA OwnUse ==
    ASSUME Owned, Typed, Locks, bits' = bits, lock' = lock, op' = op, bn' = bn,
           NEW p \in Procs, NEW f \in Files, lock[f] = p, ~ Claims(p),
           Ref[f][Spot(bn[p])] # 0,
           pc' = [pc EXCEPT ![p] = "use"], blk' = [blk EXCEPT ![p] = Ref[f][Spot(bn[p])]],
           \A g \in Files : \A k \in Spots : Ref'[g][k] = Ref[g][k]
    PROVE  Owned'
<1> DEFINE b == Ref[f][Spot(bn[p])]
<1> USE DEF Owned, Claims
<1>1. Spot(bn[p]) \in Spots
  BY SpotOf DEF Typed
<1>2. blk'[p] = b /\ pc'[p] = "use"
  BY DEF Typed
<1>3. \A q \in Procs \ {p} : pc'[q] = pc[q] /\ blk'[q] = blk[q]
  BY DEF Typed
<1>4. b \in bits /\ b >= nmeta
  BY <1>1 DEF Marked
<1>5. \A g \in Files : \A k \in Spots : Ref[g][k] = b => g = f /\ k = Spot(bn[p])
  BY <1>1 DEF Once
<1>6. ASSUME NEW q \in Procs, q # p, Claims(q) PROVE blk[q] # b
  <2>1. CASE pc[q] \in Zeroing
    BY <1>1, <2>1 DEF Fresh
  <2>2. CASE pc[q] = "use" /\ op[q] = "write"
    BY <1>1, <1>6, <2>2 DEF Mine
  <2> QED
    BY <1>6, <2>1, <2>2
<1> HIDE DEF b
<1>7. Marked'
  <2>1. \A g \in Files : \A k \in Spots : Ref'[g][k] # 0 => Ref'[g][k] \in bits' /\ Ref'[g][k] >= nmeta
    BY DEF Marked
  <2>2. \A q \in Procs : Claims(q)' => blk'[q] \in bits' /\ blk'[q] >= nmeta
    BY <1>2, <1>3, <1>4 DEF Marked
  <2> QED
    BY <2>1, <2>2 DEF Marked
<1>8. Once'
  BY DEF Once
<1>9. Fresh'
  BY <1>2, <1>3 DEF Fresh, Zeroing
<1>10. Mine'
  <2> SUFFICES ASSUME NEW q \in Procs, pc'[q] = "use", op'[q] = "write", NEW g \in Files, NEW k \in Spots, Ref'[g][k] = blk'[q]
               PROVE  lock'[g] = q /\ k = Spot(bn'[q])
    BY DEF Mine, Spot
  <2>1. CASE q = p
    BY <1>2, <1>5, <2>1
  <2>2. CASE q # p
    BY <1>3, <2>2 DEF Mine
  <2> QED
    BY <2>1, <2>2
<1>11. Apart'
  BY <1>2, <1>3, <1>6 DEF Apart
<1> QED
  BY <1>7, <1>8, <1>9, <1>10, <1>11

\* balloc(): a process claims a block that was not marked.
LEMMA OwnNew ==
    ASSUME Owned, Typed, NEW b \in Blocks, b \notin bits, b >= nmeta, bits' = bits \cup {b}, lock' = lock, op' = op, bn' = bn,
           NEW p \in Procs, ~ Claims(p), NEW l \in Zeroing,
           pc' = [pc EXCEPT ![p] = l], blk' = [blk EXCEPT ![p] = b],
           \A g \in Files : \A k \in Spots : Ref'[g][k] = Ref[g][k]
    PROVE  Owned'
<1> USE DEF Owned, Claims
<1>1. blk'[p] = b /\ pc'[p] = l /\ l # "use"
  BY DEF Typed, Zeroing
<1>2. \A q \in Procs \ {p} : pc'[q] = pc[q] /\ blk'[q] = blk[q]
  BY DEF Typed
<1>3. \A g \in Files : \A k \in Spots : Ref[g][k] # b
  BY Sizes DEF Marked
<1>4. \A q \in Procs : Claims(q) => blk[q] # b
  BY DEF Marked
<1>5. Marked'
  <2>1. \A g \in Files : \A k \in Spots : Ref'[g][k] # 0 => Ref'[g][k] \in bits' /\ Ref'[g][k] >= nmeta
    BY DEF Marked
  <2>2. \A q \in Procs : Claims(q)' => blk'[q] \in bits' /\ blk'[q] >= nmeta
    BY <1>1, <1>2 DEF Marked
  <2> QED
    BY <2>1, <2>2 DEF Marked
<1>6. Once'
  BY DEF Once
<1>7. Fresh'
  BY <1>1, <1>2, <1>3 DEF Fresh
<1>8. Mine'
  BY <1>1, <1>2 DEF Mine, Spot
<1>9. Apart'
  BY <1>1, <1>2, <1>4 DEF Apart
<1> QED
  BY <1>5, <1>6, <1>7, <1>8, <1>9

\* bzero() is done and the new block goes to a spot of the file, where bmap()
\* finds it or returns it at once.
LEMMA OwnPlace ==
    ASSUME Owned, Typed, Locks, bits' = bits, lock' = lock, op' = op, bn' = bn, blk' = blk,
           NEW p \in Procs, pc[p] \in Zeroing, NEW f \in Files, lock[f] = p, NEW s \in Spots,
           NEW l \in {"use", "bmap", "peek"}, l = "use" => s = Spot(bn[p]),
           pc' = [pc EXCEPT ![p] = l],
           Ref'[f][s] = blk[p],
           \A g \in Files : \A k \in Spots : (g # f \/ k # s) => Ref'[g][k] = 0 \/ Ref'[g][k] = Ref[g][k]
    PROVE  Owned'
<1> USE DEF Owned, Claims
<1>1. pc'[p] = l /\ l \notin Zeroing
  BY DEF Typed, Zeroing
<1>2. \A q \in Procs \ {p} : pc'[q] = pc[q]
  BY DEF Typed
<1>3. \A g \in Files : \A k \in Spots : Ref[g][k] # blk[p]
  BY DEF Fresh
<1>4. blk[p] \in bits /\ blk[p] >= nmeta /\ blk[p] # 0
  BY Sizes DEF Marked
<1>5. \A q \in Procs : Claims(q) => blk[q] # 0
  BY Sizes DEF Marked
<1>6. \A g \in Files : \A k \in Spots : (g = f /\ k = s) \/ Ref'[g][k] = 0 \/ Ref'[g][k] = Ref[g][k]
  OBVIOUS
<1>7. Marked'
  <2>1. \A g \in Files : \A k \in Spots : Ref'[g][k] # 0 => Ref'[g][k] \in bits' /\ Ref'[g][k] >= nmeta
    BY <1>4, <1>6 DEF Marked
  <2>2. \A q \in Procs : Claims(q)' => blk'[q] \in bits' /\ blk'[q] >= nmeta
    BY <1>1, <1>2, <1>4 DEF Marked
  <2> QED
    BY <2>1, <2>2 DEF Marked
<1>8. Once'
  BY <1>3, <1>6 DEF Once
<1>9. \A q \in Procs \ {p} : Claims(q) => blk[q] # blk[p]
  BY DEF Apart
<1>10. Fresh'
  BY <1>1, <1>2, <1>5, <1>6, <1>9 DEF Fresh
<1>11. Mine'
  <2> SUFFICES ASSUME NEW q \in Procs, pc'[q] = "use", op'[q] = "write", NEW g \in Files, NEW k \in Spots, Ref'[g][k] = blk'[q]
               PROVE  lock'[g] = q /\ k = Spot(bn'[q])
    BY DEF Mine, Spot
  <2>1. CASE q = p
    BY <1>1, <1>3, <1>4, <1>6, <2>1
  <2>2. CASE q # p
    BY <1>2, <1>5, <1>6, <1>9, <2>2 DEF Mine
  <2> QED
    BY <2>1, <2>2
<1>12. Apart'
  BY <1>1, <1>2 DEF Apart
<1> QED
  BY <1>7, <1>8, <1>10, <1>11, <1>12

-----------------------------------------------------------------------------
(* The steps preserve IInv.                                                *)

\* What mkfs wrote has the shape of the disk.
LEMMA MkfsMemIs == MkfsMem \in [Blocks -> [Words -> Nat]]
<1> SUFFICES ASSUME NEW b \in Blocks PROVE MkfsMem[b] \in [Words -> Nat]
  BY DEF MkfsMem
<1>1. \A f : f \in Files => MkfsWords(f) \in [Words -> Nat]
  BY BaseRange, Sizes DEF MkfsWords, Words
<1>2. Data(0) \in [Words -> Nat] /\ Zero \in [Words -> Nat]
  BY Sizes DEF Data, Zero
<1>3. CASE \E f \in Files : iappend(f).addrs[NDIRECT] = b /\ b # 0
  <2>1. (CHOOSE f \in Files : iappend(f).addrs[NDIRECT] = b) \in Files
    BY <1>3
  <2>2. MkfsMem[b] = MkfsWords(CHOOSE f \in Files : iappend(f).addrs[NDIRECT] = b)
    BY <1>3 DEF MkfsMem
  <2> QED
    BY <1>1, <2>1, <2>2
<1>4. CASE ~ (\E f \in Files : iappend(f).addrs[NDIRECT] = b /\ b # 0)
  BY <1>2, <1>4 DEF MkfsMem
<1> QED
  BY <1>3, <1>4

\* A process that does not move, with a file that does not change.
LEMMA WhereKept ==
    ASSUME NEW g \in Files, NEW q \in Procs, WhereIn(g, q), ip'[g] = ip[g],
           pc[q] = "zero_word" \/ (pc[q] = "peek" /\ ~ stale'[q]) =>
               mem'[ip[g].addrs[NDIRECT]][bn[q] - NDIRECT] = mem[ip[g].addrs[NDIRECT]][bn[q] - NDIRECT],
           pc'[q] = pc[q], op'[q] = op[q], bn'[q] = bn[q], blk'[q] = blk[q],
           stale[q] => stale'[q]
    PROVE  WhereIn(g, q)'
  BY DEF WhereIn

\* The buffer of a block that is not pinned is given to another.
LEMMA RecycleStep ==
    ASSUME IInv, NEW b \in Blocks, Recycle(b)
    PROVE  IInv'
<1> USE DEF IInv
<1>1. bits' = bits
  BY DEF Recycle, BitsKept
<1>2. /\ mem' = [mem EXCEPT ![b] = MkfsMem[b]] /\ b \notin pinned
      /\ UNCHANGED <<pinned, ip, dinode, lock, latest, writes, pc, op, bn, blk>>
      /\ stale' = [p \in Procs |-> stale[p] \/ (pc[p] = "peek" /\ Indirect(p) = b)]
  BY DEF Recycle, fileVars
<1>3. Typed'
  <2>1. mem' \in [Blocks -> [Words -> Nat]]
    BY <1>2, MkfsMemIs DEF Typed
  <2>2. stale' \in [Procs -> BOOLEAN]
    BY <1>2 DEF Typed
  <2> QED
    BY <1>1, <1>2, <2>1, <2>2 DEF Typed
<1>4. Locks' /\ BitsKept' /\ Sized' /\ Saved'
  BY <1>1, <1>2 DEF Locks, BitsKept, Sized, Saved
<1>5. \A f \in Files : \A k \in Spots : Ref'[f][k] = 0 \/ Ref'[f][k] = Ref[f][k]
  <2> SUFFICES ASSUME NEW f \in Files, NEW k \in Spots PROVE Ref'[f][k] = 0 \/ Ref'[f][k] = Ref[f][k]
    OBVIOUS
  <2>1. CASE k \in 0..NDIRECT
    BY <1>2, <2>1, RefOf, RefOfNext
  <2>2. CASE k \notin 0..NDIRECT
    <3> DEFINE i == ip[f].addrs[NDIRECT]
    <3>1. PICK w \in Words : k = w + NDIRECT + 1
      BY <2>2, RefOf
    <3>2. i \in Blocks
      BY InodeOf DEF Typed
    <3>3. i # 0 => mem'[i][w] = 0 \/ mem'[i][w] = mem[i][w]
      <4>1. CASE i = b
        BY <1>2, <4>1 DEF Typed, WordsKept
      <4>2. CASE i # b
        BY <1>2, <3>2, <4>2 DEF Typed
      <4> QED
        BY <4>1, <4>2
    <3> QED
      BY <1>2, <3>1, <3>3, RefOf, RefOfNext
  <2> QED
    BY <2>1, <2>2
<1>6. Owned'
  BY <1>1, <1>2, <1>5, OwnKept DEF Owned, Claims
<1>7. Where'
  <2> SUFFICES ASSUME NEW f \in Files, NEW p \in Procs, lock[f] = p PROVE WhereIn(f, p)'
    BY <1>2 DEF Where
  <2>1. pc[p] # "out"
    BY Sizes DEF Locks
  <2>2. File(p) = f
    BY <2>1, FileOf
  <2>3. (pc[p] = "peek" /\ Indirect(p) = b => stale'[p]) /\ (stale[p] => stale'[p])
    BY <1>2
  <2>4. pc[p] = "zero_word" \/ (pc[p] = "peek" /\ ~ stale'[p]) => ip[f].addrs[NDIRECT] # b
    BY <2>2, <2>3 DEF Recycle, InUse, Indirect
  <2>5. ip[f].addrs[NDIRECT] \in Blocks
    BY InodeOf DEF Typed
  <2>6. pc[p] = "zero_word" \/ (pc[p] = "peek" /\ ~ stale'[p])
           => mem'[ip[f].addrs[NDIRECT]] = mem[ip[f].addrs[NDIRECT]]
    BY <1>2, <2>4, <2>5 DEF Typed
  <2>7. WhereIn(f, p)
    BY DEF Where
  <2> QED
    BY <1>2, <2>3, <2>6, <2>7, WhereKept
<1>8. WordsKept'
  <2> SUFFICES ASSUME NEW f \in Files, ip[f].addrs[NDIRECT] # 0, ip[f].addrs[NDIRECT] \notin pinned, NEW w \in Words
               PROVE  LET i == ip[f].addrs[NDIRECT] IN MkfsMem[i][w] = 0 \/ MkfsMem[i][w] = mem'[i][w]
    BY <1>2 DEF WordsKept
  <2>1. ip[f].addrs[NDIRECT] \in Blocks
    BY InodeOf DEF Typed
  <2> QED
    BY <1>2, <2>1 DEF Typed, WordsKept
<1> QED
  BY <1>3, <1>4, <1>6, <1>7, <1>8 DEF Owned

\* The steps that leave inodes, blocks and claims alone.
LEMMA QuietStep ==
    ASSUME IInv, UNCHANGED <<bits, mem, pinned, ip, dinode, latest, stale>>, writes' \in Nat,
           lock' \in [Files -> Procs \cup {None}], pc' \in [Procs -> PcSet], op' \in [Procs -> {"read", "write"}],
           bn' \in [Procs -> 0..(MAXFILE - 1)], blk' = blk,
           Locks', Where', Saved',
           \A q \in Procs : Claims(q)' =>
               pc'[q] = pc[q] /\ op'[q] = op[q] /\ bn'[q] = bn[q] /\ \A f \in Files : lock[f] = q => lock'[f] = q
    PROVE  IInv'
<1> USE DEF IInv
<1>1. Typed'
  BY DEF Typed
<1>2. BitsKept' /\ Sized' /\ WordsKept'
  BY DEF BitsKept, Sized, WordsKept
<1>3. \A f \in Files : \A k \in Spots : Ref'[f][k] = Ref[f][k]
  BY RefSame
<1>4. Owned'
  BY <1>3, OwnKept DEF Owned
<1> QED
  BY <1>1, <1>2, <1>4 DEF Owned

\* ilock() reads an inode that is the same on disk.
LEMMA ReloadStep ==
    ASSUME IInv, NEW f \in Files, Reload(f)
    PROVE  IInv'
<1> USE DEF IInv
<1>1. ip' = ip
  BY DEF Reload, Saved, Typed
<1>2. Locks' /\ Saved' /\ Where'
  BY <1>1 DEF Reload, Locks, Saved, Where, WhereIn
<1>3. UNCHANGED <<bits, mem, pinned, dinode, latest, stale, lock, pc, op, bn, blk, writes>>
  BY DEF Reload
<1> QED
  BY <1>1, <1>2, <1>3, QuietStep DEF Typed, Claims

\* ilock() at the start of readi() or writei().
LEMMA StartStep ==
    ASSUME IInv, NEW p \in Procs, NEW f \in Files, NEW k \in 0..(MAXFILE - 1), Readi(p, f, k) \/ Writei(p, f, k)
    PROVE  IInv'
<1> USE DEF IInv
<1>1. /\ pc[p] = "out" /\ lock[f] = None /\ k <= ip[f].size
      /\ lock' = [lock EXCEPT ![f] = p] /\ bn' = [bn EXCEPT ![p] = k] /\ pc' = [pc EXCEPT ![p] = "bmap"]
      /\ UNCHANGED <<bits, mem, pinned, ip, dinode, blk, latest, stale>> /\ writes' \in Nat
  BY InodeOf DEF Readi, Writei, Goto, Typed
<1>2. PICK o \in {"read", "write"} : op' = [op EXCEPT ![p] = o] /\ (o = "read" => k < ip[f].size)
  BY DEF Readi, Writei
<1>3. /\ lock' \in [Files -> Procs \cup {None}] /\ pc' \in [Procs -> PcSet] /\ op' \in [Procs -> {"read", "write"}]
      /\ bn' \in [Procs -> 0..(MAXFILE - 1)]
  BY <1>1, <1>2 DEF Typed, PcSet
<1>4. \A g \in Files : lock[g] # p
  BY <1>1, Sizes DEF Locks
<1>5. /\ lock'[f] = p /\ \A g \in Files \ {f} : lock'[g] = lock[g]
      /\ pc'[p] = "bmap" /\ op'[p] = o /\ bn'[p] = k
      /\ \A q \in Procs \ {p} : pc'[q] = pc[q] /\ op'[q] = op[q] /\ bn'[q] = bn[q]
  BY <1>1, <1>2 DEF Typed
<1>6. Locks'
  BY <1>1, <1>4, <1>5, Sizes DEF Locks, Typed
<1>7. Saved'
  <2> SUFFICES ASSUME NEW g \in Files, dinode[g] # ip[g] PROVE lock'[g] # None /\ bn'[lock'[g]] = ip[g].size
    BY <1>1 DEF Saved
  <2>1. lock[g] # None /\ bn[lock[g]] = ip[g].size /\ g # f /\ lock[g] \in Procs /\ lock[g] # p
    BY <1>1, <1>4 DEF Saved, Typed
  <2> QED
    BY <1>5, <2>1
<1>8. Where'
  <2> SUFFICES ASSUME NEW g \in Files, NEW q \in Procs, lock'[g] = q PROVE WhereIn(g, q)'
    BY DEF Where
  <2>1. CASE g = f
    BY <1>1, <1>2, <1>5, <2>1 DEF WhereIn
  <2>2. CASE g # f
    <3>1. lock[g] = q /\ q # p
      BY <1>4, <1>5, <2>2
    <3>2. WhereIn(g, q)
      BY <3>1 DEF Where
    <3> QED
      BY <1>1, <1>5, <3>1, <3>2, WhereKept
  <2> QED
    BY <2>1, <2>2
<1>9. \A q \in Procs : Claims(q)' =>
         pc'[q] = pc[q] /\ op'[q] = op[q] /\ bn'[q] = bn[q] /\ \A g \in Files : lock[g] = q => lock'[g] = q
  BY <1>1, <1>5, Sizes DEF Claims, Zeroing
<1> QED
  BY <1>1, <1>3, <1>6, <1>7, <1>8, <1>9, QuietStep

\* A process moves on inside bmap(): its claims apart, IInv is kept if what its
\* new point says of the file is true.
LEMMA MoveStep ==
    ASSUME IInv, UNCHANGED <<mem, ip, dinode, lock, latest, writes, op, bn, stale>>,
           Typed', BitsKept', pinned \subseteq pinned', Owned',
           NEW p \in Procs, NEW f \in Files, lock[f] = p, pc'[p] # "out", WhereIn(f, p)',
           \A q \in Procs \ {p} : pc'[q] = pc[q] /\ blk'[q] = blk[q]
    PROVE  IInv'
<1> USE DEF IInv
<1>1. Locks'
  BY DEF Locks, Typed
<1>2. Sized' /\ Saved' /\ WordsKept'
  BY DEF Sized, Saved, WordsKept
<1>3. Where'
  <2> SUFFICES ASSUME NEW g \in Files, NEW q \in Procs, lock[g] = q PROVE WhereIn(g, q)'
    BY DEF Where
  <2>1. CASE q = p
    BY <2>1, Sizes DEF Locks
  <2>2. CASE q # p
    <3>1. WhereIn(g, q)
      BY DEF Where
    <3> QED
      BY <2>2, <3>1, WhereKept
  <2> QED
    BY <2>1, <2>2
<1> QED
  BY <1>1, <1>2, <1>3 DEF Owned

\* The block is there: a direct one, or a word of the indirect block once it is
\* read; a reader gets any block if the buffer was recycled.
LEMMA UseStep ==
    ASSUME IInv, NEW p \in Procs, BmapDirect(p) \/ (Peek(p) /\ NoStaleWrite)
    PROVE  IInv' /\ \E f \in Files : lock[f] = p /\ (~ stale[p] => blk'[p] = Ref[f][Spot(bn[p])])
<1> USE DEF IInv
<1>1. /\ pc[p] \in {"bmap", "peek"} /\ pc' = [pc EXCEPT ![p] = "use"]
      /\ UNCHANGED <<bits, mem, pinned, ip, dinode, lock, latest, writes, op, bn, stale>>
  BY DEF BmapDirect, Peek, Goto, fileVars
<1>2. PICK f \in Files : f = File(p) /\ lock[f] = p
  BY <1>1, FileOf
<1>3. WhereIn(f, p) /\ bn[p] \in 0..(MAXFILE - 1)
  BY <1>2 DEF Where, Typed
<1>4. CASE BmapDirect(p) \/ (Peek(p) /\ ~ stale[p])
  <2>1. /\ Ref[f][Spot(bn[p])] # 0 /\ blk' = [blk EXCEPT ![p] = Ref[f][Spot(bn[p])]]
        /\ Ref[f][Spot(bn[p])] \in Blocks
        /\ bn[p] < NDIRECT => Ref[f][Spot(bn[p])] = ip[f].addrs[bn[p]]
        /\ ~ (bn[p] < NDIRECT) => ip[f].addrs[NDIRECT] # 0
    <3>1. CASE BmapDirect(p)
      <4>1. bn[p] \in 0..NDIRECT /\ bn[p] < NDIRECT
        BY <1>3, <3>1, Sizes DEF BmapDirect
      <4>2. ip[f].addrs[bn[p]] \in Blocks
        BY <1>2, <4>1, InodeOf DEF Typed
      <4> QED
        BY <1>2, <1>3, <3>1, <4>1, <4>2, RefOf DEF BmapDirect
    <3>2. CASE Peek(p) /\ ~ stale[p]
      <4>1. PICK b \in {Indirect(p)} : blk' = [blk EXCEPT ![p] = mem[b][Word(p)]]
        BY <3>2 DEF Peek
      <4>2. bn[p] >= NDIRECT /\ ip[f].addrs[NDIRECT] # 0 /\ mem[ip[f].addrs[NDIRECT]][bn[p] - NDIRECT] # 0
        BY <1>3, <3>2 DEF WhereIn, Peek
      <4>3. ~ (bn[p] < NDIRECT)
        BY <1>3, <4>2, Sizes
      <4>4. b = ip[f].addrs[NDIRECT] /\ Word(p) = bn[p] - NDIRECT
        BY <1>2, <4>1 DEF Indirect, Word
      <4>5. Ref[f][Spot(bn[p])] = mem[b][Word(p)]
        BY <1>2, <1>3, <4>2, <4>3, <4>4, RefOf
      <4>6. Ref[f][Spot(bn[p])] # 0 /\ Spot(bn[p]) \in Spots
        BY <1>3, <4>2, <4>4, <4>5, SpotOf
      <4>7. Ref[f][Spot(bn[p])] \in Blocks
        BY <4>6 DEF Marked, Typed
      <4> QED
        BY <4>1, <4>2, <4>3, <4>5, <4>6, <4>7
    <3> QED
      BY <1>4, <3>1, <3>2
  <2>2. /\ pc'[p] = "use" /\ blk'[p] = Ref[f][Spot(bn[p])]
        /\ \A q \in Procs \ {p} : pc'[q] = pc[q] /\ blk'[q] = blk[q]
    BY <1>1, <2>1 DEF Typed
  <2>3. Typed'
    <3>1. pc' \in [Procs -> PcSet]
      BY <1>1 DEF Typed, PcSet
    <3>2. blk' \in [Procs -> Blocks]
      BY <2>1 DEF Typed
    <3> QED
      BY <1>1, <3>1, <3>2 DEF Typed
  <2>4. BitsKept'
    BY <1>1 DEF BitsKept
  <2>5. \A g \in Files : \A k \in Spots : Ref'[g][k] = Ref[g][k]
    BY <1>1, RefSame
  <2>6. Owned'
    <3>1. ~ Claims(p)
      BY <1>1 DEF Claims, Zeroing
    <3> QED
      BY <1>1, <1>2, <2>1, <2>5, <3>1, OwnUse DEF Owned
  <2>7. WhereIn(f, p)'
    <3>1. bn[p] <= ip[f].size /\ (op[p] = "read" => bn[p] < ip[f].size)
      BY <1>3 DEF WhereIn
    <3> QED
      BY <1>1, <2>1, <2>2, <3>1 DEF WhereIn
  <2>8. IInv'
    BY <1>1, <1>2, <2>2, <2>3, <2>4, <2>6, <2>7, MoveStep
  <2> QED
    BY <1>2, <2>2, <2>8
<1>5. CASE Peek(p) /\ stale[p] /\ op[p] = "read"
  <2>1. PICK b \in Blocks : blk' = [blk EXCEPT ![p] = b]
    BY <1>5 DEF Peek
  <2>2. /\ pc'[p] = "use" /\ blk'[p] = b
        /\ \A q \in Procs \ {p} : pc'[q] = pc[q] /\ blk'[q] = blk[q]
    BY <1>1, <2>1 DEF Typed
  <2>3. Typed'
    <3>1. pc' \in [Procs -> PcSet] /\ blk' \in [Procs -> Blocks]
      BY <1>1, <2>1 DEF Typed, PcSet
    <3> QED
      BY <1>1, <3>1 DEF Typed
  <2>4. BitsKept'
    BY <1>1 DEF BitsKept
  <2>5. \A g \in Files : \A k \in Spots : Ref'[g][k] = Ref[g][k]
    BY <1>1, RefSame
  <2>6. \A q \in Procs : Claims(q)' => pc'[q] = pc[q] /\ blk'[q] = blk[q]
    BY <1>1, <1>5, <2>2 DEF Claims, Zeroing
  <2>7. Owned'
    BY <1>1, <2>5, <2>6, OwnKept DEF Owned
  <2>8. WhereIn(f, p)'
    <3>1. bn[p] >= NDIRECT /\ ip[f].addrs[NDIRECT] # 0 /\ bn[p] <= ip[f].size /\ bn[p] < ip[f].size
      BY <1>3, <1>5 DEF WhereIn, Peek
    <3>2. ~ (bn[p] < NDIRECT)
      BY <1>3, <3>1, Sizes
    <3> QED
      BY <1>1, <2>2, <3>1, <3>2 DEF WhereIn
  <2>9. IInv'
    BY <1>1, <1>2, <2>2, <2>3, <2>4, <2>7, <2>8, MoveStep
  <2> QED
    BY <1>2, <1>5, <2>9
<1> QED
  BY <1>4, <1>5 DEF NoStaleWrite

\* The word of the indirect block is set.
LEMMA BmapWordStep ==
    ASSUME IInv, NEW p \in Procs, BmapWord(p)
    PROVE  IInv'
<1> USE DEF IInv
<1>1. PICK f \in Files : f = File(p) /\ lock[f] = p
  BY FileOf DEF BmapWord
<1>2. /\ pc[p] = "bmap" /\ pc' = [pc EXCEPT ![p] = "peek"]
      /\ UNCHANGED <<bits, mem, pinned, ip, dinode, lock, latest, writes, op, bn, blk, stale>>
      /\ bn[p] >= NDIRECT /\ ip[f].addrs[NDIRECT] # 0 /\ mem[ip[f].addrs[NDIRECT]][bn[p] - NDIRECT] # 0
  BY <1>1 DEF BmapWord, Goto, fileVars, Indirect, Word
<1>3. WhereIn(f, p)
  BY <1>1 DEF Where
<1>4. pc'[p] = "peek" /\ \A q \in Procs \ {p} : pc'[q] = pc[q] /\ blk'[q] = blk[q]
  BY <1>2 DEF Typed
<1>5. Typed'
  <2>1. pc' \in [Procs -> PcSet]
    BY <1>2 DEF Typed, PcSet
  <2> QED
    BY <1>2, <2>1 DEF Typed
<1>6. BitsKept'
  BY <1>2 DEF BitsKept
<1>7. \A g \in Files : \A k \in Spots : Ref'[g][k] = Ref[g][k]
  BY <1>2, RefSame
<1>8. \A q \in Procs : Claims(q)' => pc'[q] = pc[q]
  BY <1>4 DEF Claims, Zeroing
<1>9. Owned'
  BY <1>2, <1>7, <1>8, OwnKept DEF Owned
<1>10. WhereIn(f, p)'
  BY <1>2, <1>3, <1>4 DEF WhereIn
<1> QED
  BY <1>2, <1>1, <1>4, <1>5, <1>6, <1>9, <1>10, MoveStep

\* balloc() for a spot that is empty.
LEMMA BallocStep ==
    ASSUME IInv, NEW p \in Procs, pc[p] = "bmap", NEW l \in Zeroing, balloc(p, l),
           l = "zero_direct" => bn[p] < NDIRECT /\ ip[File(p)].addrs[bn[p]] = 0,
           l = "zero_indirect" => bn[p] >= NDIRECT /\ Indirect(p) = 0,
           l = "zero_word" => bn[p] >= NDIRECT /\ Indirect(p) # 0 /\ mem[Indirect(p)][Word(p)] = 0
    PROVE  IInv'
<1> USE DEF IInv
<1> DEFINE b == Min(Blocks \ bits)
<1>1. /\ Blocks \ bits # {} /\ bits' = bits \cup {b} /\ pinned' = pinned \cup {Bitmap}
      /\ blk' = [blk EXCEPT ![p] = b] /\ pc' = [pc EXCEPT ![p] = l]
      /\ UNCHANGED <<mem, ip, dinode, lock, latest, writes, op, bn, stale>>
  BY DEF balloc, log_write, Goto, fileVars
<1>2. b \in Blocks \ bits
  <2>1. (Blocks \ bits) \in SUBSET Nat
    BY Sizes DEF Blocks
  <2> QED
    BY <1>1, <2>1, Lowest
<1>3. PICK f \in Files : f = File(p) /\ lock[f] = p
  BY FileOf
<1>4. WhereIn(f, p)
  BY <1>3 DEF Where
<1>5. b >= nmeta
  BY <1>2, MkfsBitsAre DEF BitsKept
<1>6. Bitmap \in Blocks
  <2>1. nmeta <= BPB
    BY <1>2, <1>5, Sizes DEF Blocks
  <2> QED
    BY <2>1, Sizes DEF Bitmap, Blocks
<1>7. /\ l = "zero_direct" => bn[p] < NDIRECT /\ ip[f].addrs[bn[p]] = 0
      /\ l = "zero_indirect" => bn[p] >= NDIRECT /\ ip[f].addrs[NDIRECT] = 0
      /\ l = "zero_word" => bn[p] >= NDIRECT /\ ip[f].addrs[NDIRECT] # 0
                            /\ mem[ip[f].addrs[NDIRECT]][bn[p] - NDIRECT] = 0
  BY <1>3 DEF Indirect, Word
<1> HIDE DEF b
<1>8. pc'[p] = l /\ \A q \in Procs \ {p} : pc'[q] = pc[q] /\ blk'[q] = blk[q]
  BY <1>1 DEF Typed
<1>9. Typed'
  <2>1. pc' \in [Procs -> PcSet] /\ blk' \in [Procs -> Blocks]
    BY <1>1, <1>2 DEF Typed, PcSet
  <2>2. bits' \subseteq Blocks /\ pinned' \subseteq Blocks
    BY <1>1, <1>2, <1>6 DEF Typed
  <2> QED
    BY <1>1, <2>1, <2>2 DEF Typed
<1>10. BitsKept'
  BY <1>1 DEF BitsKept
<1>11. \A g \in Files : \A k \in Spots : Ref'[g][k] = Ref[g][k]
  BY <1>1, RefSame
<1>12. Owned'
  <2>1. ~ Claims(p)
    BY DEF Claims, Zeroing
  <2> QED
    BY <1>1, <1>2, <1>5, <1>11, <2>1, OwnNew DEF Owned
<1>13. WhereIn(f, p)'
  <2>1. l # "use" /\ l # "peek"
    BY DEF Zeroing
  <2> QED
    BY <1>1, <1>4, <1>7, <1>8, <2>1 DEF WhereIn
<1>14. pc'[p] # "out"
  BY <1>8 DEF Zeroing
<1> QED
  BY <1>1, <1>3, <1>8, <1>9, <1>10, <1>12, <1>13, <1>14, MoveStep

\* A block that is cleared is no indirect block.
LEMMA FreshIndirect ==
    ASSUME IInv, NEW p \in Procs, pc[p] \in Zeroing, NEW g \in Files
    PROVE  ip[g].addrs[NDIRECT] # blk[p] /\ ip[g].addrs[NDIRECT] \in Blocks
<1>1. Ref[g][NDIRECT] = ip[g].addrs[NDIRECT] /\ NDIRECT \in Spots
  BY RefOf
<1>2. ip[g].addrs[NDIRECT] \in Blocks
  BY InodeOf DEF IInv, Typed
<1> QED
  BY <1>1, <1>2 DEF IInv, Fresh

\* bzero() ends and the new block goes into the inode, at the address a where the
\* file ended.
LEMMA ZeroInodeStep ==
    ASSUME IInv, NEW p \in Procs, ZeroInode(p)
    PROVE  /\ IInv'
           /\ \E f \in Files : \E a \in 0..NDIRECT :
                /\ lock[f] = p /\ bn[p] = ip[f].size /\ ip'[f].addrs[a] = blk[p]
                /\ \A g \in Files : ip'[g].size = ip[g].size
                /\ pc[p] = "zero_direct" => a = bn[p] /\ a < NDIRECT
                /\ pc[p] = "zero_indirect" => a = NDIRECT /\ ip[f].size <= NDIRECT
                /\ \A g \in Files : \A k \in Spots :
                      g # f \/ (k # a /\ (a = NDIRECT => k < NDIRECT)) => Ref'[g][k] = Ref[g][k]
<1> USE DEF IInv
<1>1. PICK f \in Files : f = File(p) /\ lock[f] = p
  BY FileOf DEF ZeroInode
<1>2. PICK b \in Blocks : b = blk[p]
  BY DEF Typed
<1>3. PICK l \in {"use", "bmap"} : l = IF pc[p] = "zero_direct" THEN "use" ELSE "bmap"
  OBVIOUS
<1>4. PICK a : a = IF pc[p] = "zero_direct" THEN bn[p] ELSE NDIRECT
  OBVIOUS
<1>5. /\ pc[p] \in {"zero_direct", "zero_indirect"} /\ pc' = [pc EXCEPT ![p] = l]
      /\ mem' = [mem EXCEPT ![b] = Zero] /\ pinned' = pinned \cup {b}
      /\ ip' = [ip EXCEPT ![f].addrs[a] = b]
      /\ UNCHANGED <<bits, dinode, lock, latest, writes, op, bn, blk, stale>>
  BY <1>1, <1>2, <1>3, <1>4 DEF ZeroInode, bzero, log_write, Goto
<1>6. WhereIn(f, p) /\ bn[p] \in 0..(MAXFILE - 1) /\ pc[p] \in Zeroing
  BY <1>1, <1>5 DEF Where, Typed, Zeroing
<1>7. ip[f] \in Inodes
  BY DEF Typed
<1>8. /\ a \in 0..NDIRECT /\ ip[f].addrs[a] = 0 /\ bn[p] = ip[f].size
      /\ pc[p] = "zero_direct" => a = bn[p] /\ a < NDIRECT
      /\ pc[p] = "zero_indirect" => a = NDIRECT /\ ip[f].size <= NDIRECT
  <2>1. CASE pc[p] = "zero_direct"
    <3>1. bn[p] < NDIRECT /\ ip[f].addrs[bn[p]] = 0 /\ bn[p] <= ip[f].size
      BY <1>6, <2>1 DEF WhereIn
    <3>2. ~ (bn[p] < ip[f].size)
      BY <1>6, <3>1, Sizes DEF Sized
    <3>3. ip[f].size \in Nat
      BY <1>7, Sizes, InodeOf
    <3> QED
      BY <1>4, <1>6, <2>1, <3>1, <3>2, <3>3, Sizes
  <2>2. CASE pc[p] = "zero_indirect"
    <3>1. bn[p] >= NDIRECT /\ ip[f].addrs[NDIRECT] = 0 /\ bn[p] <= ip[f].size
      BY <1>6, <2>2 DEF WhereIn
    <3>2. ~ (NDIRECT < ip[f].size)
      BY <3>1 DEF Sized
    <3>3. ip[f].size \in Nat
      BY <1>7, Sizes, InodeOf
    <3> QED
      BY <1>4, <1>6, <2>2, <3>1, <3>2, <3>3, Sizes
  <2> QED
    BY <1>5, <2>1, <2>2
<1>9. /\ ip'[f] = [ip[f] EXCEPT !.addrs = [ip[f].addrs EXCEPT ![a] = b]]
      /\ \A g \in Files \ {f} : ip'[g] = ip[g]
  BY <1>5 DEF Typed
<1>10. /\ ip'[f].size = ip[f].size /\ ip'[f].addrs[a] = b /\ ip'[f] \in Inodes
       /\ \A k \in 0..NDIRECT : k # a => ip'[f].addrs[k] = ip[f].addrs[k]
  <2> DEFINE s == [ip[f].addrs EXCEPT ![a] = b]
  <2>1. s \in [0..NDIRECT -> Blocks] /\ s[a] = b /\ \A k \in 0..NDIRECT : k # a => s[k] = ip[f].addrs[k]
    BY <1>7, <1>8, InodeOf
  <2> HIDE DEF s
  <2>2. ip'[f].addrs = s /\ ip'[f].size = ip[f].size /\ ip'[f] \in Inodes
    BY <1>7, <1>9, <2>1 DEF Inodes, s
  <2> QED
    BY <2>1, <2>2
<1>11. \A g \in Files : ip[g].addrs[NDIRECT] \in Blocks /\ ip[g].addrs[NDIRECT] # b
  BY <1>2, <1>6, FreshIndirect
<1>12. mem'[b] = Zero /\ \A i \in Blocks : i # b => mem'[i] = mem[i]
  BY <1>5 DEF Typed
<1>13. pc'[p] = l /\ \A q \in Procs \ {p} : pc'[q] = pc[q]
  BY <1>5 DEF Typed
<1>14. b # 0 /\ b >= nmeta
  BY <1>2, <1>6, Sizes DEF Marked, Claims
<1>15. Typed'
  <2>1. ip' \in [Files -> Inodes]
    <3>1. \A g \in Files : ip'[g] \in Inodes
      BY <1>9, <1>10 DEF Typed
    <3>2. ip' = [g \in Files |-> ip'[g]]
      BY <1>5 DEF Typed
    <3> QED
      BY <3>1, <3>2
  <2>2. mem' \in [Blocks -> [Words -> Nat]]
    <3>1. Zero \in [Words -> Nat]
      BY DEF Zero
    <3> QED
      BY <1>5, <3>1 DEF Typed
  <2>3. pc' \in [Procs -> PcSet] /\ pinned' \subseteq Blocks
    BY <1>5 DEF Typed, PcSet
  <2> QED
    BY <1>5, <2>1, <2>2, <2>3 DEF Typed
<1>16. Locks'
  BY <1>1, <1>5, <1>13 DEF Locks, Typed
<1>17. BitsKept'
  BY <1>5 DEF BitsKept
<1>18. ASSUME NEW g \in Files, NEW k \in Spots, g # f \/ (k # a /\ (a = NDIRECT => k < NDIRECT))
       PROVE  Ref'[g][k] = Ref[g][k]
  <2>1. CASE k \in 0..NDIRECT
    <3>1. Ref[g][k] = ip[g].addrs[k] /\ Ref'[g][k] = ip'[g].addrs[k]
      BY <2>1, RefOf, RefOfNext
    <3>2. ip'[g].addrs[k] = ip[g].addrs[k]
      BY <1>9, <1>10, <1>18, <2>1
    <3> QED
      BY <3>1, <3>2
  <2>2. CASE k \notin 0..NDIRECT
    <3>1. PICK w \in Words : k = w + NDIRECT + 1
      BY <2>2, RefOf
    <3>2. g # f \/ a # NDIRECT
      BY <1>18, <2>2, Sizes DEF Spots
    <3>3. NDIRECT \in 0..NDIRECT
      BY Sizes
    <3>4. ip'[g].addrs[NDIRECT] = ip[g].addrs[NDIRECT]
      BY <1>9, <1>10, <3>2, <3>3
    <3>5. mem'[ip[g].addrs[NDIRECT]] = mem[ip[g].addrs[NDIRECT]]
      BY <1>11, <1>12
    <3>6. Ref[g][k] = IF ip[g].addrs[NDIRECT] = 0 THEN 0 ELSE mem[ip[g].addrs[NDIRECT]][w]
      BY <3>1, RefOf
    <3>7. Ref'[g][k] = IF ip'[g].addrs[NDIRECT] = 0 THEN 0 ELSE mem'[ip'[g].addrs[NDIRECT]][w]
      BY <3>1, RefOfNext
    <3> QED
      BY <3>4, <3>5, <3>6, <3>7
  <2> QED
    BY <2>1, <2>2
<1>19. Owned'
  <2>1. a \in Spots /\ (l = "use" => a = Spot(bn[p]))
    BY <1>3, <1>6, <1>8, SpotOf, Sizes DEF Spots
  <2>2. Ref'[f][a] = b
    BY <1>8, <1>10, RefOfNext
  <2>3. ASSUME NEW g \in Files, NEW k \in Spots, g # f \/ k # a PROVE Ref'[g][k] = 0 \/ Ref'[g][k] = Ref[g][k]
    <3>1. CASE g = f /\ a = NDIRECT /\ ~ (k < NDIRECT)
      <4>1. k \notin 0..NDIRECT
        BY <2>3, <3>1, Sizes DEF Spots
      <4>2. PICK w \in Words : k = w + NDIRECT + 1
        BY <4>1, RefOf
      <4>3. ip'[g].addrs[NDIRECT] = b /\ mem'[b][w] = 0
        BY <1>10, <1>12, <3>1, <4>2 DEF Zero
      <4> QED
        BY <1>14, <4>2, <4>3, RefOfNext
    <3>2. CASE ~ (g = f /\ a = NDIRECT /\ ~ (k < NDIRECT))
      BY <1>18, <2>3, <3>2
    <3> QED
      BY <3>1, <3>2
  <2> QED
    <3>1. l \in {"use", "bmap", "peek"} /\ Ref'[f][a] = blk[p]
      BY <1>2, <2>2
    <3> HIDE DEF IInv
    <3>2. Owned /\ Typed /\ Locks
      BY DEF IInv, Owned
    <3>3. bits' = bits /\ lock' = lock /\ op' = op /\ bn' = bn /\ blk' = blk /\ pc' = [pc EXCEPT ![p] = l] /\ lock[f] = p
      BY <1>1, <1>5
    <3> QED
      BY <1>6, <2>1, <2>3, <3>1, <3>2, <3>3, OwnPlace, ZenonT(90)
<1>20. Sized'
  <2> SUFFICES ASSUME NEW g \in Files
               PROVE  /\ \A k \in 0..(NDIRECT - 1) : k < ip'[g].size => ip'[g].addrs[k] # 0
                      /\ ip'[g].size > NDIRECT => ip'[g].addrs[NDIRECT] # 0
    BY DEF Sized
  <2>1. ip'[g].size = ip[g].size /\ \A k \in 0..NDIRECT : ip'[g].addrs[k] = ip[g].addrs[k] \/ ip'[g].addrs[k] = b
    BY <1>9, <1>10
  <2>2. 0..(NDIRECT - 1) \subseteq 0..NDIRECT /\ NDIRECT \in 0..NDIRECT
    BY Sizes
  <2> QED
    BY <1>14, <2>1, <2>2 DEF Sized
<1>21. Saved'
  BY <1>1, <1>5, <1>8, <1>9, <1>10, Sizes DEF Saved
<1>22. Where'
  <2> SUFFICES ASSUME NEW g \in Files, NEW q \in Procs, lock[g] = q PROVE WhereIn(g, q)'
    BY <1>5 DEF Where
  <2>1. CASE q = p
    <3>1. g = f
      BY <1>1, <2>1, Sizes DEF Locks
    <3>2. bn[p] <= ip[f].size /\ (op[p] = "read" => bn[p] < ip[f].size)
      BY <1>6 DEF WhereIn
    <3>3. l = "use" => bn[p] < NDIRECT /\ b = ip'[f].addrs[bn[p]]
      BY <1>3, <1>8, <1>10
    <3> QED
      BY <1>2, <1>5, <1>10, <1>13, <2>1, <3>1, <3>2, <3>3 DEF WhereIn
  <2>2. CASE q # p
    <3>1. g # f
      BY <1>1, <2>2
    <3>2. WhereIn(g, q) /\ ip'[g] = ip[g] /\ mem'[ip[g].addrs[NDIRECT]] = mem[ip[g].addrs[NDIRECT]]
      BY <1>9, <1>11, <1>12, <3>1 DEF Where
    <3> QED
      BY <1>5, <1>13, <2>2, <3>2, WhereKept
  <2> QED
    BY <2>1, <2>2
<1>23. WordsKept'
  <2> SUFFICES ASSUME NEW g \in Files, ip'[g].addrs[NDIRECT] # 0, ip'[g].addrs[NDIRECT] \notin pinned', NEW w \in Words
               PROVE  LET i == ip'[g].addrs[NDIRECT] IN MkfsMem[i][w] = 0 \/ MkfsMem[i][w] = mem'[i][w]
    BY DEF WordsKept
  <2>1. ip'[g].addrs[NDIRECT] = ip[g].addrs[NDIRECT]
    BY <1>5, <1>8, <1>9, <1>10, Sizes
  <2>2. mem'[ip[g].addrs[NDIRECT]] = mem[ip[g].addrs[NDIRECT]] /\ ip[g].addrs[NDIRECT] \notin pinned
    BY <1>5, <1>11, <1>12, <2>1
  <2> QED
    BY <2>1, <2>2 DEF WordsKept
<1>24. IInv'
  BY <1>15, <1>16, <1>17, <1>19, <1>20, <1>21, <1>22, <1>23 DEF Owned
<1>25. \A g \in Files : ip'[g].size = ip[g].size
  BY <1>9, <1>10
<1> QED
  BY <1>1, <1>2, <1>8, <1>10, <1>18, <1>24, <1>25

\* bzero() ends and the new block goes into the indirect block.
LEMMA ZeroWordStep ==
    ASSUME IInv, NEW p \in Procs, ZeroWord(p)
    PROVE  /\ IInv'
           /\ \E f \in Files :
                /\ lock[f] = p /\ ip[f].addrs[NDIRECT] # 0 /\ bn[p] >= NDIRECT
                /\ mem[ip[f].addrs[NDIRECT]][bn[p] - NDIRECT] = 0
                /\ \A j \in Blocks : j # blk[p] /\ j # ip[f].addrs[NDIRECT] => mem'[j] = mem[j]
                /\ \A g \in Files : \A k \in Spots : g # f \/ k # Spot(bn[p]) => Ref'[g][k] = Ref[g][k]
<1> USE DEF IInv
<1>1. PICK f \in Files : f = File(p) /\ lock[f] = p
  BY FileOf DEF ZeroWord
<1>2. PICK b \in Blocks : b = blk[p]
  BY DEF Typed
<1>3. PICK i \in Blocks : i = ip[f].addrs[NDIRECT]
  BY InodeOf DEF Typed
<1>4. PICK v : v = bn[p] - NDIRECT
  OBVIOUS
<1>5. /\ pc[p] = "zero_word" /\ pc' = [pc EXCEPT ![p] = "peek"]
      /\ mem' = [mem EXCEPT ![b] = Zero, ![i][v] = b] /\ pinned' = pinned \cup {b}
      /\ UNCHANGED <<bits, ip, dinode, lock, latest, writes, op, bn, blk, stale>>
  BY <1>1, <1>2, <1>3, <1>4 DEF ZeroWord, log_write, Goto, Indirect, Word, fileVars
<1>6. WhereIn(f, p) /\ bn[p] \in 0..(MAXFILE - 1) /\ pc[p] \in Zeroing
  BY <1>1, <1>5 DEF Where, Typed, Zeroing
<1>7. bn[p] >= NDIRECT /\ i # 0 /\ mem[i][v] = 0
  BY <1>3, <1>4, <1>5, <1>6 DEF WhereIn
<1>8. v \in Words /\ Spot(bn[p]) = v + NDIRECT + 1
  BY <1>4, <1>6, <1>7, Sizes DEF Words, Spot
<1>9. \A g \in Files : ip[g].addrs[NDIRECT] \in Blocks /\ ip[g].addrs[NDIRECT] # b
  BY <1>2, <1>6, FreshIndirect
<1>10. i # b
  BY <1>3, <1>9
<1>11. /\ mem'[i] = [mem[i] EXCEPT ![v] = b] /\ mem'[b] = Zero
       /\ \A j \in Blocks : j # b /\ j # i => mem'[j] = mem[j]
       /\ mem'[i][v] = b /\ \A w \in Words : w # v => mem'[i][w] = mem[i][w]
  BY <1>5, <1>8, <1>10 DEF Typed
<1>12. pc'[p] = "peek" /\ \A q \in Procs \ {p} : pc'[q] = pc[q]
  BY <1>5 DEF Typed
<1>13. b # 0 /\ b >= nmeta
  BY <1>2, <1>6, Sizes DEF Marked, Claims
<1>14. \A g \in Files : ip[g].addrs[NDIRECT] = i => g = f
  <2> SUFFICES ASSUME NEW g \in Files, ip[g].addrs[NDIRECT] = i PROVE g = f
    OBVIOUS
  <2>1. Ref[g][NDIRECT] = i /\ Ref[f][NDIRECT] = i /\ NDIRECT \in Spots
    BY <1>3, RefOf
  <2> QED
    BY <1>7, <2>1 DEF Once
<1>15. Typed'
  <2>1. mem' \in [Blocks -> [Words -> Nat]]
    <3>1. Zero \in [Words -> Nat] /\ b \in Nat
      BY Sizes DEF Zero, Blocks
    <3> QED
      BY <1>5, <1>8, <3>1 DEF Typed
  <2>2. pc' \in [Procs -> PcSet] /\ pinned' \subseteq Blocks
    BY <1>5 DEF Typed, PcSet
  <2> QED
    BY <1>5, <2>1, <2>2 DEF Typed
<1>16. Locks'
  BY <1>1, <1>5, <1>12 DEF Locks, Typed
<1>17. BitsKept' /\ Sized' /\ Saved'
  BY <1>5 DEF BitsKept, Sized, Saved
<1>18. ASSUME NEW g \in Files, NEW k \in Spots, g # f \/ k # v + NDIRECT + 1 PROVE Ref'[g][k] = Ref[g][k]
  <2>1. CASE k \in 0..NDIRECT
    BY <1>5, <2>1, RefOf, RefOfNext
  <2>2. CASE k \notin 0..NDIRECT
    <3>1. PICK w \in Words : k = w + NDIRECT + 1
      BY <2>2, RefOf
    <3>2. ip[g].addrs[NDIRECT] # 0 => mem'[ip[g].addrs[NDIRECT]][w] = mem[ip[g].addrs[NDIRECT]][w]
      <4>1. CASE g = f
        BY <1>3, <1>11, <1>18, <3>1, <4>1
      <4>2. CASE g # f
        <5>1. ip[g].addrs[NDIRECT] # i
          BY <1>14, <4>2
        <5> QED
          BY <1>9, <1>11, <5>1
      <4> QED
        BY <4>1, <4>2
    <3> QED
      <4>1. ip'[g].addrs[NDIRECT] = ip[g].addrs[NDIRECT]
        BY <1>5
      <4>2. Ref[g][k] = IF ip[g].addrs[NDIRECT] = 0 THEN 0 ELSE mem[ip[g].addrs[NDIRECT]][w]
        BY <3>1, RefOf
      <4>3. Ref'[g][k] = IF ip[g].addrs[NDIRECT] = 0 THEN 0 ELSE mem'[ip[g].addrs[NDIRECT]][w]
        BY <3>1, <4>1, RefOfNext
      <4> QED
        BY <3>2, <4>2, <4>3
  <2> QED
    BY <2>1, <2>2
<1>19. Owned'
  <2> DEFINE s == v + NDIRECT + 1
  <2>1. s \in Spots /\ Ref'[f][s] = blk[p]
    <3>1. ip'[f].addrs[NDIRECT] = i
      BY <1>3, <1>5
    <3>2. s \in Spots /\ Ref'[f][s] = mem'[i][v]
      BY <1>7, <1>8, <3>1, RefOfNext
    <3> QED
      BY <1>2, <1>11, <3>2
  <2>2. \A g \in Files : \A k \in Spots : (g # f \/ k # s) => Ref'[g][k] = 0 \/ Ref'[g][k] = Ref[g][k]
    BY <1>18
  <2> HIDE DEF s
  <2> QED
    <3> HIDE DEF IInv
    <3>1. Owned /\ Typed /\ Locks
      BY DEF IInv, Owned
    <3>2. bits' = bits /\ lock' = lock /\ op' = op /\ bn' = bn /\ blk' = blk /\ pc' = [pc EXCEPT ![p] = "peek"] /\ lock[f] = p
      BY <1>1, <1>5
    <3>3. "peek" \in {"use", "bmap", "peek"} /\ ("peek" = "use" => s = Spot(bn[p]))
      OBVIOUS
    <3> QED
      BY <1>6, <2>1, <2>2, <3>1, <3>2, <3>3, OwnPlace, ZenonT(60)
<1>20. Where'
  <2> SUFFICES ASSUME NEW g \in Files, NEW q \in Procs, lock[g] = q PROVE WhereIn(g, q)'
    BY <1>5 DEF Where
  <2>1. CASE q = p
    <3>1. g = f
      BY <1>1, <2>1, Sizes DEF Locks
    <3>2. bn[p] <= ip[f].size /\ (op[p] = "read" => bn[p] < ip[f].size)
      BY <1>6 DEF WhereIn
    <3> QED
      BY <1>3, <1>4, <1>5, <1>7, <1>11, <1>12, <1>13, <2>1, <3>1, <3>2 DEF WhereIn
  <2>2. CASE q # p
    <3>1. g # f
      BY <1>1, <2>2
    <3>2. WhereIn(g, q) /\ mem'[ip[g].addrs[NDIRECT]] = mem[ip[g].addrs[NDIRECT]]
      BY <1>9, <1>11, <1>14, <3>1 DEF Where
    <3> QED
      BY <1>5, <1>12, <2>2, <3>2, WhereKept
  <2> QED
    BY <2>1, <2>2
<1>21. WordsKept'
  <2> SUFFICES ASSUME NEW g \in Files, ip'[g].addrs[NDIRECT] # 0, ip'[g].addrs[NDIRECT] \notin pinned', NEW w \in Words
               PROVE  LET j == ip'[g].addrs[NDIRECT] IN MkfsMem[j][w] = 0 \/ MkfsMem[j][w] = mem'[j][w]
    BY DEF WordsKept
  <2>1. ip' = ip /\ ip[g].addrs[NDIRECT] # 0 /\ ip[g].addrs[NDIRECT] \notin pinned
    BY <1>5
  <2>2. MkfsMem[ip[g].addrs[NDIRECT]][w] = 0 \/ MkfsMem[ip[g].addrs[NDIRECT]][w] = mem[ip[g].addrs[NDIRECT]][w]
    BY <2>1 DEF WordsKept
  <2>3. CASE ip[g].addrs[NDIRECT] = i
    BY <1>7, <1>11, <2>2, <2>3, <2>1
  <2>4. CASE ip[g].addrs[NDIRECT] # i
    BY <1>9, <1>11, <2>2, <2>4, <2>1
  <2> QED
    BY <2>3, <2>4
<1>22. IInv'
  BY <1>15, <1>16, <1>17, <1>19, <1>20, <1>21 DEF Owned
<1> QED
  BY <1>1, <1>2, <1>3, <1>4, <1>7, <1>8, <1>11, <1>18, <1>22

\* The block is read or written, the file grows if it was behind its end, and
\* iunlock().
LEMMA CopyStep ==
    ASSUME IInv, NEW p \in Procs, Copy(p)
    PROVE  /\ IInv'
           /\ \A g \in Files : \A k \in Spots : Ref'[g][k] = Ref[g][k]
           /\ \A g \in Files : ip'[g].addrs = ip[g].addrs /\ mem'[ip[g].addrs[NDIRECT]] = mem[ip[g].addrs[NDIRECT]]
           /\ \E f \in Files :
                /\ f = File(p) /\ lock[f] = p /\ \A g \in Files \ {f} : lock'[g] = lock[g] /\ ip'[g].size = ip[g].size
                /\ lock'[f] = None
                /\ IF op[p] = "read"
                   THEN UNCHANGED <<mem, pinned, latest>> /\ ip'[f].size = ip[f].size
                   ELSE /\ mem' = [mem EXCEPT ![blk[p]] = Data(writes)] /\ pinned' = pinned \cup {blk[p]}
                        /\ latest' = [latest EXCEPT ![f][bn[p]] = Data(writes)]
                        /\ ip'[f].size = ip[f].size \/ (bn[p] = ip[f].size /\ ip'[f].size = ip[f].size + 1)
<1> USE DEF IInv
<1>1. PICK f \in Files : f = File(p) /\ lock[f] = p
  BY FileOf DEF Copy
<1>2. /\ pc[p] = "use" /\ lock' = [lock EXCEPT ![f] = None] /\ pc' = [pc EXCEPT ![p] = "out"]
      /\ blk' = [blk EXCEPT ![p] = 0] /\ stale' = [stale EXCEPT ![p] = FALSE] /\ UNCHANGED <<bits, op, bn, writes>>
  BY <1>1 DEF Copy, Goto
<1>3. WhereIn(f, p) /\ bn[p] \in 0..(MAXFILE - 1) /\ blk[p] \in Blocks /\ ip[f] \in Inodes
  BY <1>1, <1>2 DEF Where, Typed
<1>4. /\ pinned \subseteq pinned' /\ pinned' \subseteq Blocks
      /\ mem' \in [Blocks -> [Words -> Nat]] /\ \A b \in Blocks : b # blk[p] => mem'[b] = mem[b]
      /\ latest' \in [Files -> [0..(MAXFILE - 1) -> [Words -> Nat]]]
  <2>1. CASE op[p] = "read"
    BY <1>1, <2>1 DEF Copy, Typed
  <2>2. CASE op[p] # "read"
    <3>1. Data(writes) \in [Words -> Nat]
      BY Sizes DEF Data, Typed
    <3>2. /\ mem' = [mem EXCEPT ![blk[p]] = Data(writes)] /\ pinned' = pinned \cup {blk[p]}
          /\ latest' = [latest EXCEPT ![f][bn[p]] = Data(writes)]
      BY <1>1, <2>2 DEF Copy, log_write
    <3> QED
      BY <1>3, <3>1, <3>2 DEF Typed
  <2> QED
    BY <2>1, <2>2
<1>5. /\ dinode' \in [Files -> Inodes] /\ ip' \in [Files -> Inodes] /\ dinode'[f] = ip'[f]
      /\ ip'[f].addrs = ip[f].addrs
      /\ ip'[f].size = ip[f].size \/ (bn[p] = ip[f].size /\ ip'[f].size = ip[f].size + 1)
      /\ \A g \in Files \ {f} : dinode'[g] = dinode[g] /\ ip'[g] = ip[g]
  <2>1. CASE op[p] = "write" /\ bn[p] = ip[f].size
    <3>1. /\ ip' = [ip EXCEPT ![f].size = @ + 1] /\ dinode' = [dinode EXCEPT ![f] = ip'[f]]
      BY <1>1, <2>1 DEF Copy
    <3>2. ip[f].size + 1 \in 0..MAXFILE
      BY <1>3, <2>1, Sizes
    <3>3. ip'[f] = [ip[f] EXCEPT !.size = ip[f].size + 1]
      BY <3>1 DEF Typed
    <3>4. ip'[f] \in Inodes /\ ip'[f].addrs = ip[f].addrs /\ ip'[f].size = ip[f].size + 1
      BY <1>3, <3>2, <3>3 DEF Inodes
    <3>5. \A g \in Files \ {f} : dinode'[g] = dinode[g] /\ ip'[g] = ip[g]
      BY <3>1 DEF Typed
    <3>6. dinode' \in [Files -> Inodes] /\ dinode'[f] = ip'[f]
      BY <3>1, <3>4 DEF Typed
    <3>7. ip' \in [Files -> Inodes]
      <4>1. \A g \in Files : ip'[g] \in Inodes
        BY <3>4, <3>5 DEF Typed
      <4>2. ip' = [g \in Files |-> ip'[g]]
        BY <3>1 DEF Typed
      <4> QED
        BY <4>1, <4>2
    <3> QED
      BY <2>1, <3>4, <3>5, <3>6, <3>7
  <2>2. CASE ~ (op[p] = "write" /\ bn[p] = ip[f].size)
    <3>1. UNCHANGED <<ip, dinode>>
      BY <1>1, <2>2 DEF Copy, Typed
    <3>2. bn[p] # ip[f].size
      BY <1>3, <2>2, InodeOf, Sizes DEF WhereIn, Typed
    <3>3. dinode[f] = ip[f]
      BY <1>1, <3>2 DEF Saved
    <3> QED
      BY <3>1, <3>3 DEF Typed
  <2> QED
    BY <2>1, <2>2
<1>6. /\ lock'[f] = None /\ \A g \in Files \ {f} : lock'[g] = lock[g] /\ lock[g] # p
      /\ pc'[p] = "out" /\ \A q \in Procs \ {p} : pc'[q] = pc[q] /\ blk'[q] = blk[q] /\ stale'[q] = stale[q]
  BY <1>1, <1>2, Sizes DEF Typed, Locks
<1>7. \A g \in Files : ip[g].addrs[NDIRECT] \in Blocks /\ (op[p] = "write" => ip[g].addrs[NDIRECT] # blk[p])
  <2> SUFFICES ASSUME NEW g \in Files
               PROVE  ip[g].addrs[NDIRECT] \in Blocks /\ (op[p] = "write" => ip[g].addrs[NDIRECT] # blk[p])
    OBVIOUS
  <2>1. NDIRECT \in Spots /\ Ref[g][NDIRECT] = ip[g].addrs[NDIRECT] /\ NDIRECT # Spot(bn[p])
    BY <1>3, RefOf, SpotOf
  <2>2. ip[g].addrs[NDIRECT] \in Blocks
    BY InodeOf DEF Typed
  <2> QED
    BY <1>2, <2>1, <2>2 DEF Mine
<1>8. \A g \in Files : ip'[g].addrs = ip[g].addrs /\ mem'[ip[g].addrs[NDIRECT]] = mem[ip[g].addrs[NDIRECT]]
  <2>1. CASE op[p] = "write"
    BY <1>4, <1>5, <1>7, <2>1
  <2>2. CASE op[p] # "write"
    BY <1>1, <1>5, <2>2 DEF Copy, Typed
  <2> QED
    BY <2>1, <2>2
<1>9. Typed'
  <2>1. lock' \in [Files -> Procs \cup {None}] /\ pc' \in [Procs -> PcSet] /\ blk' \in [Procs -> Blocks]
    BY <1>2, Sizes DEF Typed, PcSet, Blocks
  <2>2. stale' \in [Procs -> BOOLEAN]
    BY <1>2 DEF Typed
  <2> QED
    BY <1>2, <1>4, <1>5, <2>1, <2>2 DEF Typed
<1>10. Locks'
  <2>1. \A q \in Procs : pc'[q] # "out" => \E g \in Files : lock'[g] = q
    <3> SUFFICES ASSUME NEW q \in Procs, pc'[q] # "out" PROVE \E g \in Files : lock'[g] = q
      OBVIOUS
    <3>1. q # p /\ pc[q] # "out"
      BY <1>6
    <3>2. PICK g \in Files : lock[g] = q
      BY <3>1 DEF Locks
    <3> QED
      BY <1>1, <1>6, <3>1, <3>2
  <2>2. ASSUME NEW g \in Files, lock'[g] # None PROVE pc'[lock'[g]] # "out"
    <3>1. g # f /\ lock'[g] = lock[g] /\ lock[g] # p /\ lock[g] \in Procs
      BY <1>6, <2>2 DEF Typed
    <3> QED
      BY <1>6, <2>2, <3>1 DEF Locks
  <2>3. \A g, h \in Files : lock'[g] = lock'[h] /\ lock'[g] # None => g = h
    BY <1>6 DEF Locks
  <2> QED
    BY <2>1, <2>2, <2>3 DEF Locks
<1>11. BitsKept'
  BY <1>2, <1>4 DEF BitsKept
<1>12. \A g \in Files : \A k \in Spots : Ref'[g][k] = Ref[g][k]
  <2> SUFFICES ASSUME NEW g \in Files, NEW k \in Spots PROVE Ref'[g][k] = Ref[g][k]
    OBVIOUS
  <2>1. CASE k \in 0..NDIRECT
    BY <1>8, <2>1, RefOf, RefOfNext
  <2>2. CASE k \notin 0..NDIRECT
    <3>1. PICK w \in Words : k = w + NDIRECT + 1
      BY <2>2, RefOf
    <3> QED
      BY <1>8, <3>1, RefOf, RefOfNext
  <2> QED
    BY <2>1, <2>2
<1>13. Owned'
  <2>1. \A q \in Procs : Claims(q)' =>
               /\ pc'[q] = pc[q] /\ op'[q] = op[q] /\ blk'[q] = blk[q] /\ bn'[q] = bn[q]
               /\ \A g \in Files : lock[g] = q => lock'[g] = q
    BY <1>1, <1>2, <1>6 DEF Claims, Zeroing
  <2> QED
    BY <1>2, <1>12, <2>1, OwnKept DEF Owned
<1>14. Sized'
  <2> SUFFICES ASSUME NEW g \in Files
               PROVE  /\ \A k \in 0..(NDIRECT - 1) : k < ip'[g].size => ip'[g].addrs[k] # 0
                      /\ ip'[g].size > NDIRECT => ip'[g].addrs[NDIRECT] # 0
    BY DEF Sized
  <2>1. CASE ip'[g].size = ip[g].size
    BY <1>8, <2>1 DEF Sized
  <2>2. CASE ip'[g].size # ip[g].size
    <3>1. g = f /\ bn[p] = ip[f].size /\ ip'[f].size = ip[f].size + 1
      BY <1>5, <2>2
    <3>2. blk[p] # 0
      <4>1. op[p] = "write"
        BY <1>1, <2>2, <3>1 DEF Copy, Typed
      <4> QED
        BY <1>2, <4>1, Sizes DEF Marked, Claims
    <3>3. IF bn[p] < NDIRECT THEN ip[f].addrs[bn[p]] # 0 ELSE ip[f].addrs[NDIRECT] # 0
      BY <1>2, <1>3, <3>2 DEF WhereIn
    <3>4. ip[f].size \in Nat
      BY <1>3, Sizes, InodeOf
    <3>5. ASSUME NEW k \in 0..(NDIRECT - 1), k < ip'[f].size PROVE ip[f].addrs[k] # 0
      BY <3>1, <3>3, <3>4, <3>5, Sizes DEF Sized
    <3>6. ip'[f].size > NDIRECT => ip[f].addrs[NDIRECT] # 0
      BY <3>1, <3>3, <3>4, Sizes DEF Sized
    <3> QED
      BY <1>8, <3>1, <3>5, <3>6
  <2> QED
    BY <2>1, <2>2
<1>15. Saved'
  BY <1>2, <1>5, <1>6 DEF Saved
<1>16. Where'
  <2> SUFFICES ASSUME NEW g \in Files, NEW q \in Procs, lock'[g] = q PROVE WhereIn(g, q)'
    BY DEF Where
  <2>1. g # f /\ lock[g] = q /\ q # p
    BY <1>6, Sizes
  <2>2. WhereIn(g, q) /\ ip'[g] = ip[g] /\ mem'[ip[g].addrs[NDIRECT]] = mem[ip[g].addrs[NDIRECT]]
    BY <1>5, <1>8, <2>1 DEF Where
  <2> QED
    BY <1>2, <1>6, <2>1, <2>2, WhereKept
<1>17. WordsKept'
  BY <1>4, <1>8 DEF WordsKept
<1>18. IInv'
  BY <1>9, <1>10, <1>11, <1>13, <1>14, <1>15, <1>16, <1>17 DEF Owned
<1>19. op[p] = "read" => UNCHANGED <<mem, pinned, latest>> /\ ip'[f].size = ip[f].size
  BY <1>1 DEF Copy
<1>20. op[p] # "read" => /\ mem' = [mem EXCEPT ![blk[p]] = Data(writes)] /\ pinned' = pinned \cup {blk[p]}
                         /\ latest' = [latest EXCEPT ![f][bn[p]] = Data(writes)]
  BY <1>1 DEF Copy, log_write
<1> HIDE DEF IInv
<1> QED
  BY <1>1, <1>5, <1>6, <1>8, <1>12, <1>18, <1>19, <1>20

-----------------------------------------------------------------------------
(* The image of mkfs, and the theorems.                                    *)

\* Of two rows of blocks one lies behind the other.
LEMMA RowsApart ==
    ASSUME NEW f \in Nat, NEW g \in Nat, NEW x \in Nat, NEW y \in Nat, NEW t \in Nat, NEW u \in Nat,
           NEW k \in Nat, NEW l \in Nat, k < t, l < u, x + k = y + l,
           f < g => x + t <= y, g < f => y + u <= x
    PROVE  f = g
  OBVIOUS

\* The addresses mkfs gives a file are blocks in a row.
LEMMA MkfsAddrs ==
    ASSUME NEW f \in Files
    PROVE  /\ iappend(f) \in Inodes /\ iappend(f).size = MkfsSize[f]
           /\ \A k \in 0..NDIRECT : iappend(f).addrs[k] = IF k < Taken(f) THEN Base[f] + k ELSE 0
<1>1. \A k \in 0..NDIRECT : k < MkfsSize[f] <=> k < Taken(f)
  BY Sizes DEF Taken
<1>2. \A k \in 0..NDIRECT : iappend(f).addrs[k] = IF k < Taken(f) THEN Base[f] + k ELSE 0
  BY <1>1 DEF iappend
<1>3. \A k \in 0..NDIRECT : (IF k < MkfsSize[f] THEN Base[f] + k ELSE 0) \in Blocks
  BY <1>1, BaseRange, Sizes DEF Blocks
<1>4. [k \in 0..NDIRECT |-> IF k < MkfsSize[f] THEN Base[f] + k ELSE 0] \in [0..NDIRECT -> Blocks]
  BY <1>3
<1>5. MkfsSize[f] \in 0..MAXFILE
  BY Sizes
<1> QED
  BY <1>2, <1>4, <1>5 DEF iappend, Inodes

\* The indirect block of a file holds the numbers of the blocks behind it.
LEMMA MkfsIndirect ==
    ASSUME NEW f \in Files, iappend(f).addrs[NDIRECT] # 0
    PROVE  MkfsMem[iappend(f).addrs[NDIRECT]] = MkfsWords(f)
<1> DEFINE b == iappend(f).addrs[NDIRECT]
<1>1. NDIRECT \in 0..NDIRECT
  BY Sizes
<1>2. b \in Blocks
  BY <1>1, MkfsAddrs, InodeOf
<1>3. ASSUME NEW g \in Files, iappend(g).addrs[NDIRECT] = b PROVE g = f
  <2>1. NDIRECT < Taken(f) /\ b = Base[f] + NDIRECT /\ NDIRECT < Taken(g) /\ b = Base[g] + NDIRECT
    BY <1>1, <1>3, MkfsAddrs
  <2>2. Base[f] \in Nat /\ Base[g] \in Nat /\ Taken(f) \in Nat /\ Taken(g) \in Nat
    BY BaseRange, Sizes
  <2>3. f < g => Base[f] + Taken(f) <= Base[g]
    BY BaseRange
  <2>4. g < f => Base[g] + Taken(g) <= Base[f]
    BY BaseRange
  <2>5. f \in Nat /\ g \in Nat /\ NDIRECT \in Nat
    BY Sizes DEF Files
  <2>6. Base[f] + NDIRECT = Base[g] + NDIRECT
    BY <2>1
  <2> HIDE DEF b
  <2> QED
    BY <2>1, <2>2, <2>3, <2>4, <2>5, <2>6, RowsApart
<1> HIDE DEF b
<1>4. b # 0 /\ b = iappend(f).addrs[NDIRECT]
  BY DEF b
<1>5. (CHOOSE g \in Files : iappend(g).addrs[NDIRECT] = b) = f
  BY <1>3, <1>4
<1>6. MkfsMem[b] = MkfsWords(CHOOSE g \in Files : iappend(g).addrs[NDIRECT] = b)
  BY <1>2, <1>4 DEF MkfsMem
<1> QED
  BY <1>4, <1>5, <1>6

\* The references of the image.
LEMMA InitRef ==
    ASSUME Init, NEW f \in Files, NEW k \in Spots
    PROVE  Ref[f][k] = IF k < Taken(f) THEN Base[f] + k ELSE 0
<1>1. ip[f] = iappend(f)
  BY DEF Init
<1>2. CASE k \in 0..NDIRECT
  BY <1>1, <1>2, RefOf, MkfsAddrs
<1>3. CASE k \notin 0..NDIRECT
  <2>1. PICK w \in Words : k = w + NDIRECT + 1
    BY <1>3, RefOf
  <2>2. NDIRECT \in 0..NDIRECT /\ w \in Nat
    BY Sizes DEF Words
  <2>3. iappend(f).addrs[NDIRECT] = IF NDIRECT < Taken(f) THEN Base[f] + NDIRECT ELSE 0
    BY <2>2, MkfsAddrs
  <2>4. Base[f] \in Nat /\ Base[f] >= nmeta /\ Taken(f) \in Nat
    BY BaseRange, Sizes
  <2>5. CASE NDIRECT < Taken(f)
    <3>1. iappend(f).addrs[NDIRECT] # 0
      BY <2>3, <2>4, <2>5, Sizes
    <3>2. mem[iappend(f).addrs[NDIRECT]] = MkfsWords(f)
      BY <3>1, MkfsIndirect DEF Init
    <3>3. Ref[f][k] = MkfsWords(f)[w]
      BY <1>1, <2>1, <3>1, <3>2, RefOf
    <3>4. MkfsWords(f)[w] = IF NDIRECT + w < MkfsSize[f] THEN Base[f] + NDIRECT + 1 + w ELSE 0
      BY DEF MkfsWords
    <3>5. Taken(f) = MkfsSize[f] + 1 /\ MkfsSize[f] \in Nat
      BY <2>5, Sizes DEF Taken
    <3>6. NDIRECT + w < MkfsSize[f] <=> k < Taken(f)
      BY <2>1, <2>2, <3>5, Sizes
    <3>7. Base[f] + NDIRECT + 1 + w = Base[f] + k
      BY <2>1, <2>2, <2>4, Sizes
    <3> QED
      BY <3>3, <3>4, <3>6, <3>7
  <2>6. CASE ~ (NDIRECT < Taken(f))
    <3>1. Ref[f][k] = 0
      BY <1>1, <2>1, <2>3, <2>6, RefOf
    <3>2. ~ (k < Taken(f))
      BY <2>1, <2>2, <2>4, <2>6, Sizes
    <3> QED
      BY <3>1, <3>2
  <2> QED
    BY <2>5, <2>6
<1> QED
  BY <1>2, <1>3

\* The image satisfies IInv.
LEMMA InitIInv == Init => IInv
<1> SUFFICES ASSUME Init PROVE IInv
  OBVIOUS
<1>1. \A f \in Files : ip[f] = iappend(f) /\ dinode[f] = ip[f]
  BY DEF Init
<1>2. \A f \in Files : lock[f] = None
  BY DEF Init
<1>3. \A p \in Procs : pc[p] = "out" /\ ~ Claims(p)
  BY DEF Init, Claims, Zeroing
<1>4. Typed
  <2>1. ip \in [Files -> Inodes] /\ dinode \in [Files -> Inodes]
    BY MkfsAddrs DEF Init
  <2>2. mem \in [Blocks -> [Words -> Nat]] /\ bits \subseteq Blocks /\ pinned \subseteq Blocks
    BY MkfsMemIs, MkfsBitsAre DEF Init
  <2>3. /\ lock \in [Files -> Procs \cup {None}] /\ pc \in [Procs -> PcSet] /\ op \in [Procs -> {"read", "write"}]
        /\ writes \in Nat /\ stale \in [Procs -> BOOLEAN]
    BY DEF Init, PcSet
  <2>4. bn \in [Procs -> 0..(MAXFILE - 1)] /\ blk \in [Procs -> Blocks]
    BY Sizes DEF Init, Blocks
  <2>5. latest \in [Files -> [0..(MAXFILE - 1) -> [Words -> Nat]]]
    <3>1. Data(0) \in [Words -> Nat]
      BY Sizes DEF Data
    <3> QED
      BY <3>1 DEF Init
  <2> QED
    BY <2>1, <2>2, <2>3, <2>4, <2>5 DEF Typed
<1>5. Locks /\ Fresh /\ Mine /\ Apart /\ Saved
  BY <1>1, <1>2, <1>3 DEF Locks, Fresh, Mine, Apart, Saved, Claims, Zeroing
<1>6. Where
  BY <1>2, Sizes DEF Where
<1>7. BitsKept
  BY DEF Init, BitsKept
<1>8. Marked
  <2>1. ASSUME NEW f \in Files, NEW k \in Spots, Ref[f][k] # 0 PROVE Ref[f][k] \in bits /\ Ref[f][k] >= nmeta
    <3>1. k < Taken(f) /\ Ref[f][k] = Base[f] + k
      BY <2>1, InitRef
    <3> QED
      <4>1. /\ Base[f] \in Nat /\ Taken(f) \in Nat /\ Base[f] >= nmeta /\ Base[NFILES + 1] \in Nat
            /\ Base[f] + Taken(f) <= Base[NFILES + 1] /\ k \in Nat /\ nmeta \in Nat
        BY BaseRange, Sizes DEF Spots
      <4>2. Base[f] + k \in 0..(Base[NFILES + 1] - 1) /\ Base[f] + k >= nmeta
        BY <3>1, <4>1
      <4> QED
        BY <3>1, <4>2 DEF Init, MkfsBits
  <2> QED
    BY <1>3, <2>1 DEF Marked
<1>9. Once
  <2> SUFFICES ASSUME NEW f \in Files, NEW g \in Files, NEW k \in Spots, NEW l \in Spots,
                      Ref[f][k] # 0, Ref[f][k] = Ref[g][l]
               PROVE  f = g /\ k = l
    BY DEF Once
  <2>1. k < Taken(f) /\ Ref[f][k] = Base[f] + k /\ l < Taken(g) /\ Ref[f][k] = Base[g] + l
    BY InitRef
  <2>2. Base[f] \in Nat /\ Base[g] \in Nat /\ Taken(f) \in Nat /\ Taken(g) \in Nat /\ k \in Nat /\ l \in Nat
    BY BaseRange, Sizes DEF Spots
  <2>3. f < g => Base[f] + Taken(f) <= Base[g]
    BY BaseRange
  <2>4. g < f => Base[g] + Taken(g) <= Base[f]
    BY BaseRange
  <2>5. f = g
    <3>1. f \in Nat /\ g \in Nat /\ Base[f] + k = Base[g] + l
      BY <2>1, Sizes DEF Files
    <3> QED
      BY <2>1, <2>2, <2>3, <2>4, <3>1, RowsApart
  <2> QED
    BY <2>1, <2>2, <2>5
<1>10. Sized
  <2> SUFFICES ASSUME NEW f \in Files
               PROVE  /\ \A k \in 0..(NDIRECT - 1) : k < ip[f].size => ip[f].addrs[k] # 0
                      /\ ip[f].size > NDIRECT => ip[f].addrs[NDIRECT] # 0
    BY DEF Sized
  <2>1. ip[f].size = MkfsSize[f] /\ \A k \in 0..NDIRECT : ip[f].addrs[k] = IF k < Taken(f) THEN Base[f] + k ELSE 0
    BY <1>1, MkfsAddrs
  <2>2. \A k \in 0..NDIRECT : k < MkfsSize[f] => k < Taken(f)
    BY Sizes DEF Taken
  <2>3. Base[f] \in Nat /\ Base[f] >= nmeta
    BY BaseRange
  <2>4. \A k \in 0..NDIRECT : k < ip[f].size => ip[f].addrs[k] # 0
    BY <2>1, <2>2, <2>3, Sizes
  <2> QED
    BY <2>4, Sizes
<1>11. WordsKept
  BY DEF Init, WordsKept
<1> QED
  BY <1>4, <1>5, <1>6, <1>7, <1>8, <1>9, <1>10, <1>11 DEF IInv

\* Every step preserves IInv, unless it gives a writer a word of a recycled buffer.
LEMMA NextIInv == IInv /\ NoStaleWrite /\ [Next]_vars => IInv'
<1> SUFFICES ASSUME IInv, NoStaleWrite, [Next]_vars PROVE IInv'
  OBVIOUS
<1>1. ASSUME NEW b \in Blocks, Recycle(b) PROVE IInv'
  BY <1>1, RecycleStep
<1>2. ASSUME NEW f \in Files, Reload(f) PROVE IInv'
  BY <1>2, ReloadStep
<1>3. ASSUME NEW p \in Procs, NEW f \in Files, NEW k \in 0..(MAXFILE - 1), Readi(p, f, k) \/ Writei(p, f, k) PROVE IInv'
  BY <1>3, StartStep
<1>4. ASSUME NEW p \in Procs, Copy(p) PROVE IInv'
  BY <1>4, CopyStep
<1>5. ASSUME NEW p \in Procs, BmapDirect(p) \/ Peek(p) PROVE IInv'
  BY <1>5, UseStep
<1>6. ASSUME NEW p \in Procs, BmapNewDirect(p) PROVE IInv'
  <2>1. "zero_direct" \in Zeroing /\ "zero_direct" # "zero_indirect" /\ "zero_direct" # "zero_word"
    BY DEF Zeroing
  <2> QED
    BY <1>6, <2>1, BallocStep DEF BmapNewDirect
<1>7. ASSUME NEW p \in Procs, BmapNewIndirect(p) PROVE IInv'
  <2>1. "zero_indirect" \in Zeroing /\ "zero_indirect" # "zero_direct" /\ "zero_indirect" # "zero_word"
    BY DEF Zeroing
  <2> QED
    BY <1>7, <2>1, BallocStep DEF BmapNewIndirect
<1>8. ASSUME NEW p \in Procs, BmapNewWord(p) PROVE IInv'
  <2>1. "zero_word" \in Zeroing /\ "zero_word" # "zero_direct" /\ "zero_word" # "zero_indirect"
    BY DEF Zeroing
  <2> QED
    BY <1>8, <2>1, BallocStep DEF BmapNewWord
<1>9. ASSUME NEW p \in Procs, BmapWord(p) PROVE IInv'
  BY <1>9, BmapWordStep
<1>10. ASSUME NEW p \in Procs, ZeroInode(p) PROVE IInv'
  BY <1>10, ZeroInodeStep
<1>11. ASSUME NEW p \in Procs, ZeroWord(p) PROVE IInv'
  BY <1>11, ZeroWordStep
<1>12. CASE UNCHANGED vars
  <2>1. UNCHANGED <<bits, mem, pinned, ip, dinode, lock, pc, op, bn, blk, stale, latest, writes>>
    BY <1>12 DEF vars
  <2>2. Locks' /\ Where' /\ Saved'
    BY <2>1 DEF IInv, Locks, Where, WhereIn, Saved
  <2> QED
    BY <2>1, <2>2, QuietStep DEF IInv, Typed, Claims
<1> QED
  BY <1>1, <1>2, <1>3, <1>4, <1>5, <1>6, <1>7, <1>8, <1>9, <1>10, <1>11, <1>12 DEF Next

\* The pairs of a block and its spot, as NoSharedBlock counts them.
Used == {x \in UNION {Refs(f) : f \in Files} : x[1] # 0}

LEMMA UsedAre ==
    ASSUME NEW x \in Used
    PROVE  \E f \in Files : \E k \in Spots : x = <<Ref[f][k], f, k>> /\ Ref[f][k] # 0
<1>1. PICK f \in Files : x \in Refs(f)
  BY DEF Used
<1>2. x[1] # 0
  BY DEF Used
<1>3. CASE \E k \in 0..NDIRECT : x = <<ip[f].addrs[k], f, k>>
  <2>1. PICK k \in 0..NDIRECT : x = <<ip[f].addrs[k], f, k>>
    BY <1>3
  <2>2. k \in Spots /\ Ref[f][k] = ip[f].addrs[k]
    BY RefOf
  <2> QED
    BY <1>2, <2>1, <2>2
<1>4. CASE ip[f].addrs[NDIRECT] # 0 /\ \E w \in Words : x = <<mem[ip[f].addrs[NDIRECT]][w], f, NDIRECT + 1 + w>>
  <2>1. PICK w \in Words : x = <<mem[ip[f].addrs[NDIRECT]][w], f, NDIRECT + 1 + w>>
    BY <1>4
  <2>2. w + NDIRECT + 1 \in Spots /\ Ref[f][w + NDIRECT + 1] = mem[ip[f].addrs[NDIRECT]][w]
    BY <1>4, RefOf
  <2>3. w + NDIRECT + 1 = NDIRECT + 1 + w
    BY Sizes DEF Words
  <2> QED
    BY <1>2, <2>1, <2>2, <2>3
<1> QED
  BY <1>1, <1>3, <1>4 DEF Refs

\* IInv is what NoSharedBlock needs.
LEMMA IInvNoShared == IInv => NoSharedBlock
<1> SUFFICES ASSUME IInv PROVE NoSharedBlock
  OBVIOUS
<1> USE DEF IInv
<1> DEFINE T == {x[1] : x \in Used}
           h == [z \in Used |-> z[1]]
<1>1. \A x \in Used : x[1] \in bits /\ x[1] >= nmeta
  <2> SUFFICES ASSUME NEW x \in Used PROVE x[1] \in bits /\ x[1] >= nmeta
    OBVIOUS
  <2>1. PICK f \in Files, k \in Spots : x = <<Ref[f][k], f, k>> /\ Ref[f][k] # 0
    BY UsedAre
  <2> QED
    BY <2>1 DEF Marked
<1>2. ASSUME NEW x \in Used, NEW y \in Used, x[1] = y[1] PROVE x = y
  <2>1. PICK f \in Files, k \in Spots : x = <<Ref[f][k], f, k>> /\ Ref[f][k] # 0
    BY UsedAre
  <2>2. PICK g \in Files, l \in Spots : y = <<Ref[g][l], g, l>> /\ Ref[g][l] # 0
    BY UsedAre
  <2>3. Ref[f][k] = Ref[g][l]
    BY <1>2, <2>1, <2>2
  <2>4. f = g /\ k = l
    BY <2>1, <2>3 DEF Once
  <2> QED
    BY <2>1, <2>2, <2>4
<1>3. IsFiniteSet(T)
  <2>1. T \in SUBSET (0..(BPB - 1))
    <3>1. bits \subseteq 0..(BPB - 1)
      BY DEF Typed, Blocks
    <3> QED
      BY <1>1, <3>1
  <2>2. IsFiniteSet(0..(BPB - 1))
    BY FS_Interval, Sizes
  <2> HIDE DEF T
  <2> QED
    BY <2>1, <2>2, FS_Subset
<1>4. h \in [Used -> T] /\ \A t \in T : \E z \in Used : h[z] = t
  OBVIOUS
<1>5. \A z, w \in Used : h[z] = h[w] => z = w
  BY <1>2
<1> HIDE DEF T, h
<1>6. h \in Injection(Used, T) /\ h \in Surjection(Used, T)
  BY <1>4, <1>5 DEF Injection, Surjection, IsInjective
<1>7. Cardinality(Used) = Cardinality(T)
  BY <1>3, <1>6, FS_Injection
<1> QED
  BY <1>1, <1>7 DEF NoSharedBlock, T, Used

\* For every image, whatever is written: as long as bmap() gives no writer a word
\* of a recycled buffer, balloc() gives no block away twice, and bmap() and mkfs
\* put none into two places.
THEOREM SpecNoShared == Spec /\ []NoStaleWrite => []NoSharedBlock
  BY InitIInv, NextIInv, IInvNoShared, PTL DEF Spec

-----------------------------------------------------------------------------
(* Files with an indirect block of mkfs, written below it: CInv.           *)

\* Blocks of files hold what was written last in the image of mkfs.
LEMMA InitCInv ==
    ASSUME Init
    PROVE  CInv
<1>1. IInv
  BY InitIInv
<1>2. StaleReads
  BY DEF Init, StaleReads
<1>3. Bounded
  BY Sizes DEF Init, Bounded
<1>4. \A f \in Files : NDIRECT \in Spots /\ iappend(f).addrs[NDIRECT] = Ref[f][NDIRECT]
  BY RefOf DEF Init
<1>5. IndirectKept
  <2> SUFFICES ASSUME NEW f \in Files PROVE IndirectIn(f)
    BY DEF IndirectKept
  <2>1. mem = MkfsMem /\ ip[f].addrs[NDIRECT] = iappend(f).addrs[NDIRECT]
    BY DEF Init
  <2>2. CASE MkfsSize[f] > NDIRECT
    BY <2>1, <2>2 DEF IndirectIn
  <2>3. CASE ~ (MkfsSize[f] > NDIRECT)
    <3>1. NDIRECT \in 0..NDIRECT /\ ~ (NDIRECT < Taken(f))
      BY <2>3, Sizes DEF Taken
    <3>2. iappend(f).addrs[NDIRECT] = 0
      BY <3>1, MkfsAddrs
    <3> QED
      BY <2>1, <3>2 DEF IndirectIn
  <2> QED
    BY <2>2, <2>3
<1>6. Looked
  BY DEF Init, Looked
<1>7. Holds
  <2> SUFFICES ASSUME NEW f \in Files, NEW k \in 0..(MAXFILE - 1), k < ip[f].size
               PROVE  /\ Ref[f][Spot(k)] # 0
                      /\ mem[Ref[f][Spot(k)]] = latest[f][k] /\ MkfsMem[Ref[f][Spot(k)]] = latest[f][k]
    BY DEF Holds
  <2>1. k < MkfsSize[f]
    BY MkfsAddrs DEF Init
  <2>2. Spot(k) \in Spots /\ Spot(k) # NDIRECT /\ Spot(k) < Taken(f)
    BY <2>1, Sizes, SpotOf DEF Spot, Taken
  <2>3. PICK b \in Nat : b = Base[f] + Spot(k) /\ Ref[f][Spot(k)] = b
    BY <2>2, InitRef, BaseRange, Sizes DEF Spots
  <2>4. /\ Base[f] \in Nat /\ Taken(f) \in Nat /\ Base[f] >= nmeta /\ Base[NFILES + 1] \in Nat
        /\ Base[f] + Taken(f) <= Base[NFILES + 1] /\ Base[NFILES + 1] < BPB
    BY BaseRange, Sizes
  <2>5. b \in Blocks /\ b \in nmeta..(Base[NFILES + 1] - 1) /\ b # 0
    BY <2>2, <2>3, <2>4, Sizes DEF Blocks, Spots
  <2>6. \A g \in Files : iappend(g).addrs[NDIRECT] # b
    BY <1>1, <1>4, <2>2, <2>3, <2>5 DEF IInv, Once
  <2>7. MkfsMem[b] = Data(0)
    BY <2>5, <2>6 DEF MkfsMem
  <2>8. mem = MkfsMem /\ latest[f][k] = Data(0)
    BY DEF Init
  <2> QED
    BY <2>3, <2>5, <2>7, <2>8
<1> QED
  BY <1>1, <1>2, <1>3, <1>5, <1>6, <1>7 DEF CInv

\* Behind the direct blocks of a file for which mkfs made an indirect block there
\* are only readers, and the word is there.
LEMMA LargeRead ==
    ASSUME SafeWrites, CInv, NEW p \in Procs, NEW f \in Files, lock[f] = p, bn[p] >= NDIRECT, MkfsSize[f] > NDIRECT
    PROVE  op[p] = "read" /\ bn[p] < ip[f].size /\ Ref[f][Spot(bn[p])] # 0
<1>1. bn[p] \in 0..(MAXFILE - 1) /\ op[p] \in {"read", "write"} /\ Writable[f] \in Nat /\ Writable[f] <= NDIRECT
  BY BlocksAssumption, Sizes DEF CInv, IInv, Typed, SafeWrites
<1>2. op[p] # "write"
  BY <1>1, Sizes DEF CInv, Bounded
<1>3. op[p] = "read" /\ bn[p] < ip[f].size
  BY <1>1, <1>2 DEF CInv, IInv, Where, WhereIn
<1> QED
  BY <1>1, <1>3 DEF CInv, Holds

\* A step that changes no inode, no block of a file and no history.
LEMMA QuietCInv ==
    ASSUME CInv, IInv', StaleReads', Bounded', UNCHANGED <<mem, ip, latest, stale>>, pinned \subseteq pinned',
           \A q \in Procs : \A g \in Files : lock'[g] = q /\ pc'[q] = "use" /\ ~ stale[q] =>
               \/ lock[g] = q /\ pc[q] = "use" /\ blk'[q] = blk[q] /\ bn'[q] = bn[q]
               \/ blk'[q] = Ref[g][Spot(bn'[q])]
    PROVE  CInv'
<1> USE DEF CInv
<1>1. \A g \in Files : \A k \in Spots : Ref'[g][k] = Ref[g][k]
  BY RefSame
<1>2. \A k \in 0..(MAXFILE - 1) : Spot(k) \in Spots
  BY SpotOf
<1>3. IndirectKept'
  BY DEF IndirectKept, IndirectIn
<1>4. Looked'
  <2> SUFFICES ASSUME NEW g \in Files, NEW q \in Procs, lock'[g] = q, pc'[q] = "use", ~ stale[q]
               PROVE  blk'[q] = Ref'[g][Spot(bn'[q])]
    BY DEF Looked, Spot
  <2>1. blk'[q] = Ref[g][Spot(bn'[q])]
    BY DEF Looked
  <2>2. bn'[q] \in 0..(MAXFILE - 1)
    BY DEF IInv, Typed
  <2> QED
    BY <1>1, <1>2, <2>1, <2>2
<1>5. Holds'
  <2> SUFFICES ASSUME NEW f \in Files, NEW k \in 0..(MAXFILE - 1), k < ip[f].size
               PROVE  /\ Ref'[f][Spot(k)] # 0 /\ mem[Ref'[f][Spot(k)]] = latest[f][k]
                      /\ Ref'[f][Spot(k)] \notin pinned' => MkfsMem[Ref'[f][Spot(k)]] = latest[f][k]
    BY DEF Holds, Spot
  <2>1. Ref'[f][Spot(k)] = Ref[f][Spot(k)]
    BY <1>1, <1>2
  <2> QED
    BY <2>1 DEF Holds
<1> QED
  BY <1>3, <1>4, <1>5

\* Recycling the buffer of an indirect block changes nothing but what its readers
\* get; that of another block of a file is recycled only if the disk has the same.
LEMMA RecycleCInv ==
    ASSUME SafeWrites, CInv, NEW b \in Blocks, Recycle(b)
    PROVE  CInv'
<1> USE DEF CInv
<1>1. /\ mem' = [mem EXCEPT ![b] = MkfsMem[b]] /\ b \notin pinned
      /\ UNCHANGED <<pinned, ip, dinode, lock, latest, writes, pc, op, bn, blk>>
      /\ stale' = [p \in Procs |-> stale[p] \/ (pc[p] = "peek" /\ Indirect(p) = b)]
  BY DEF Recycle, fileVars
<1>2. ASSUME NEW f \in Files, ip[f].addrs[NDIRECT] # 0, ip[f].addrs[NDIRECT] = b
      PROVE  MkfsSize[f] > NDIRECT /\ mem[b] = MkfsMem[b]
  BY <1>1, <1>2 DEF IndirectKept, IndirectIn
<1>3. StaleReads'
  <2> SUFFICES ASSUME NEW p \in Procs, stale'[p] PROVE op[p] = "read" /\ pc[p] \in {"peek", "use"}
    BY <1>1 DEF StaleReads
  <2>1. CASE stale[p]
    BY <2>1 DEF StaleReads
  <2>2. CASE ~ stale[p]
    <3>1. pc[p] = "peek" /\ Indirect(p) = b
      BY <1>1, <2>2
    <3>2. PICK f \in Files : f = File(p) /\ lock[f] = p
      BY <3>1, FileOf DEF IInv
    <3>3. WhereIn(f, p)
      BY <3>2 DEF IInv, Where
    <3>4. bn[p] >= NDIRECT /\ ip[f].addrs[NDIRECT] # 0 /\ ip[f].addrs[NDIRECT] = b
      BY <3>1, <3>2, <3>3 DEF WhereIn, Indirect
    <3> QED
      BY <1>2, <3>1, <3>2, <3>4, LargeRead
  <2> QED
    BY <2>1, <2>2
<1>4. IInv'
  BY RecycleStep
<1>5. \A f \in Files : ip[f].addrs[NDIRECT] # 0 => mem'[ip[f].addrs[NDIRECT]] = mem[ip[f].addrs[NDIRECT]]
  <2> SUFFICES ASSUME NEW f \in Files, ip[f].addrs[NDIRECT] # 0
               PROVE  mem'[ip[f].addrs[NDIRECT]] = mem[ip[f].addrs[NDIRECT]]
    OBVIOUS
  <2>1. ip[f].addrs[NDIRECT] \in Blocks
    BY InodeOf DEF IInv, Typed
  <2>2. CASE ip[f].addrs[NDIRECT] = b
    BY <1>1, <1>2, <2>2 DEF IInv, Typed
  <2>3. CASE ip[f].addrs[NDIRECT] # b
    BY <1>1, <2>1, <2>3 DEF IInv, Typed
  <2> QED
    BY <2>2, <2>3
<1>6. \A f \in Files : \A k \in Spots : Ref'[f][k] = Ref[f][k]
  BY <1>1, <1>5, RefSame
<1>7. IndirectKept'
  BY <1>1, <1>5 DEF IndirectKept, IndirectIn
<1>10. Bounded'
  BY <1>1 DEF Bounded
<1>8. Looked'
  <2> SUFFICES ASSUME NEW g \in Files, NEW q \in Procs, lock[g] = q, pc[q] = "use", ~ stale'[q]
               PROVE  blk[q] = Ref'[g][Spot(bn[q])]
    BY <1>1 DEF Looked, Spot
  <2>1. Spot(bn[q]) \in Spots
    BY SpotOf DEF IInv, Typed
  <2>2. ~ stale[q]
    BY <1>1
  <2> QED
    BY <1>6, <2>1, <2>2 DEF Looked
<1>9. Holds'
  <2> SUFFICES ASSUME NEW f \in Files, NEW k \in 0..(MAXFILE - 1), k < ip[f].size
               PROVE  /\ Ref'[f][Spot(k)] # 0 /\ mem'[Ref'[f][Spot(k)]] = latest[f][k]
                      /\ Ref'[f][Spot(k)] \notin pinned => MkfsMem[Ref'[f][Spot(k)]] = latest[f][k]
    BY <1>1 DEF Holds, Spot
  <2>1. PICK r : r = Ref[f][Spot(k)]
    OBVIOUS
  <2>2. Ref'[f][Spot(k)] = r
    BY <1>6, <2>1, SpotOf
  <2>3. r # 0 /\ mem[r] = latest[f][k] /\ (r \notin pinned => MkfsMem[r] = latest[f][k])
    BY <2>1 DEF Holds
  <2>4. mem'[r] = mem[r] \/ (r = b /\ mem'[r] = MkfsMem[b])
    BY <1>1 DEF IInv, Typed
  <2> QED
    BY <1>1, <2>2, <2>3, <2>4
<1> QED
  BY <1>3, <1>4, <1>7, <1>8, <1>9, <1>10

\* The block of a file below its size is at a spot, marked, and neither an
\* indirect block nor one that is being cleared.
LEMMA HeldBlock ==
    ASSUME CInv, NEW f \in Files, NEW k \in 0..(MAXFILE - 1), k < ip[f].size
    PROVE  /\ Spot(k) \in Spots /\ Ref[f][Spot(k)] \in Blocks
           /\ \A g \in Files : Ref[f][Spot(k)] # ip[g].addrs[NDIRECT]
           /\ \A p \in Procs : pc[p] \in Zeroing => Ref[f][Spot(k)] # blk[p]
<1>1. Spot(k) \in Spots /\ Spot(k) # NDIRECT
  BY SpotOf
<1>2. Ref[f][Spot(k)] # 0
  BY DEF CInv, Holds
<1>3. Ref[f][Spot(k)] \in Blocks
  BY <1>1, <1>2 DEF CInv, IInv, Marked, Typed
<1>4. \A g \in Files : Ref[f][Spot(k)] # ip[g].addrs[NDIRECT]
  <2> SUFFICES ASSUME NEW g \in Files, Ref[f][Spot(k)] = ip[g].addrs[NDIRECT] PROVE FALSE
    OBVIOUS
  <2>1. NDIRECT \in Spots /\ Ref[g][NDIRECT] = Ref[f][Spot(k)]
    BY RefOf
  <2> QED
    BY <1>1, <1>2, <2>1 DEF CInv, IInv, Once
<1>5. \A p \in Procs : pc[p] \in Zeroing => Ref[f][Spot(k)] # blk[p]
  BY <1>1 DEF CInv, IInv, Fresh
<1> QED
  BY <1>1, <1>3, <1>4, <1>5

\* A process uses a block of the file it has locked, and nobody else does.
LEMMA LookedKept ==
    ASSUME CInv, IInv', NEW p \in Procs, NEW f \in Files, lock[f] = p, UNCHANGED <<lock, bn, blk, stale>>,
           \A q \in Procs \ {p} : pc'[q] = pc[q],
           \A g \in Files \ {f} : \A k \in Spots : Ref'[g][k] = Ref[g][k],
           pc'[p] = "use" => blk[p] = Ref'[f][Spot(bn[p])]
    PROVE  Looked'
<1> SUFFICES ASSUME NEW g \in Files, NEW q \in Procs, lock[g] = q, pc'[q] = "use", ~ stale[q]
             PROVE  blk[q] = Ref'[g][Spot(bn[q])]
  BY DEF Looked, Spot
<1>1. Spot(bn[q]) \in Spots
  BY SpotOf DEF CInv, IInv, Typed
<1>2. CASE q = p
  <2>1. g = f
    BY <1>2, Sizes DEF CInv, IInv, Locks
  <2> QED
    BY <1>2, <2>1
<1>3. CASE q # p
  <2>1. g # f /\ pc[q] = "use"
    BY <1>3
  <2> QED
    BY <1>1, <2>1 DEF CInv, Looked
<1> QED
  BY <1>2, <1>3

\* A block that goes into the inode is behind the end of the file.
LEMMA ZeroInodeCInv ==
    ASSUME SafeWrites, CInv, NEW p \in Procs, ZeroInode(p)
    PROVE  CInv'
<1>1. IInv /\ IInv'
  BY ZeroInodeStep DEF CInv
<1>2. PICK f \in Files, a \in 0..NDIRECT :
                /\ lock[f] = p /\ bn[p] = ip[f].size /\ ip'[f].addrs[a] = blk[p]
                /\ \A g \in Files : ip'[g].size = ip[g].size
                /\ pc[p] = "zero_direct" => a = bn[p] /\ a < NDIRECT
                /\ pc[p] = "zero_indirect" => a = NDIRECT /\ ip[f].size <= NDIRECT
                /\ \A g \in Files : \A k \in Spots :
                      g # f \/ (k # a /\ (a = NDIRECT => k < NDIRECT)) => Ref'[g][k] = Ref[g][k]
  BY <1>1, ZeroInodeStep
<1>3. /\ pc[p] \in {"zero_direct", "zero_indirect"} /\ pc[p] \in Zeroing
      /\ mem' = [mem EXCEPT ![blk[p]] = Zero] /\ pinned' = pinned \cup {blk[p]}
      /\ pc' = [pc EXCEPT ![p] = IF pc[p] = "zero_direct" THEN "use" ELSE "bmap"]
      /\ UNCHANGED <<lock, latest, op, bn, blk, stale>>
  BY DEF ZeroInode, bzero, log_write, Goto, Zeroing
<1>4. StaleReads' /\ Bounded'
  BY <1>1, <1>3 DEF CInv, StaleReads, Bounded, IInv, Typed
<1>5. IndirectKept'
  <2> SUFFICES ASSUME NEW g \in Files PROVE IndirectIn(g)'
    BY DEF IndirectKept
  <2>1. NDIRECT \in Spots /\ Ref[g][NDIRECT] = ip[g].addrs[NDIRECT] /\ Ref'[g][NDIRECT] = ip'[g].addrs[NDIRECT]
    BY RefOf, RefOfNext
  <2>2. CASE g = f /\ a = NDIRECT
    <3>1. WhereIn(f, p)
      BY <1>1, <1>2 DEF IInv, Where
    <3>2. pc[p] = "zero_indirect" /\ bn[p] >= NDIRECT
      BY <1>2, <1>3, <2>2, <3>1, Sizes DEF WhereIn
    <3>3. ~ (bn[p] < ip[f].size)
      BY <1>1, <1>2, Sizes DEF IInv, Typed
    <3>4. ~ (MkfsSize[f] > NDIRECT)
      BY <1>2, <3>2, <3>3, LargeRead
    <3> QED
      BY <1>2, <1>3, <2>2, <3>4 DEF IndirectIn
  <2>3. CASE ~ (g = f /\ a = NDIRECT)
    <3>1. ip'[g].addrs[NDIRECT] = ip[g].addrs[NDIRECT]
      BY <1>2, <2>1, <2>3
    <3>2. ip[g].addrs[NDIRECT] # blk[p] /\ ip[g].addrs[NDIRECT] \in Blocks
      BY <1>1, <1>3, FreshIndirect
    <3>3. mem'[ip[g].addrs[NDIRECT]] = mem[ip[g].addrs[NDIRECT]]
      BY <1>1, <1>3, <3>2 DEF IInv, Typed
    <3>4. IndirectIn(g)
      BY DEF CInv, IndirectKept
    <3> QED
      BY <1>3, <3>1, <3>3, <3>4 DEF IndirectIn
  <2> QED
    BY <2>2, <2>3
<1>6. Looked'
  <2>1. \A q \in Procs \ {p} : pc'[q] = pc[q]
    BY <1>1, <1>3 DEF IInv, Typed
  <2>2. pc'[p] = "use" => blk[p] = Ref'[f][Spot(bn[p])]
    <3> SUFFICES ASSUME pc'[p] = "use" PROVE blk[p] = Ref'[f][Spot(bn[p])]
      OBVIOUS
    <3>1. pc[p] = "zero_direct"
      BY <1>1, <1>3 DEF IInv, Typed
    <3>2. Spot(bn[p]) = a
      BY <1>2, <3>1 DEF Spot
    <3>3. Ref'[f][a] = ip'[f].addrs[a]
      BY RefOfNext
    <3> QED
      BY <1>2, <3>2, <3>3
  <2> QED
    BY <1>1, <1>2, <1>3, <2>1, <2>2, LookedKept
<1>7. Holds'
  <2> SUFFICES ASSUME NEW g \in Files, NEW k \in 0..(MAXFILE - 1), k < ip'[g].size
               PROVE  /\ Ref'[g][Spot(k)] # 0 /\ mem'[Ref'[g][Spot(k)]] = latest[g][k]
                      /\ Ref'[g][Spot(k)] \notin pinned' => MkfsMem[Ref'[g][Spot(k)]] = latest[g][k]
    BY <1>3 DEF Holds, Spot
  <2>1. k < ip[g].size
    BY <1>2
  <2>2. PICK r \in Blocks : r = Ref[g][Spot(k)] /\ r # blk[p] /\ Spot(k) \in Spots
    BY <1>3, <2>1, HeldBlock
  <2>3. g # f \/ (Spot(k) # a /\ (a = NDIRECT => Spot(k) < NDIRECT))
    <3> SUFFICES ASSUME g = f PROVE Spot(k) # a /\ (a = NDIRECT => Spot(k) < NDIRECT)
      OBVIOUS
    <3>1. k < bn[p] /\ bn[p] \in Nat
      BY <1>1, <1>2, <2>1, Sizes DEF IInv, Typed
    <3>2. CASE pc[p] = "zero_direct"
      BY <1>2, <3>1, <3>2, Sizes DEF Spot
    <3>3. CASE pc[p] = "zero_indirect"
      <4>1. k < NDIRECT /\ a = NDIRECT
        BY <1>2, <3>1, <3>3, Sizes
      <4> QED
        BY <4>1 DEF Spot
    <3> QED
      BY <1>3, <3>2, <3>3
  <2>4. Ref'[g][Spot(k)] = r
    BY <1>2, <2>2, <2>3
  <2>5. mem'[r] = mem[r]
    BY <1>1, <1>3, <2>2 DEF IInv, Typed
  <2>6. r # 0 /\ mem[r] = latest[g][k] /\ (r \notin pinned => MkfsMem[r] = latest[g][k])
    BY <2>1, <2>2 DEF CInv, Holds
  <2> QED
    BY <1>3, <2>4, <2>5, <2>6
<1> QED
  BY <1>1, <1>4, <1>5, <1>6, <1>7 DEF CInv

\* A word that bmap() sets is behind the end of the file.
LEMMA ZeroWordCInv ==
    ASSUME SafeWrites, CInv, NEW p \in Procs, ZeroWord(p)
    PROVE  CInv'
<1>1. IInv /\ IInv'
  BY ZeroWordStep DEF CInv
<1>2. PICK f \in Files :
                /\ lock[f] = p /\ ip[f].addrs[NDIRECT] # 0 /\ bn[p] >= NDIRECT
                /\ mem[ip[f].addrs[NDIRECT]][bn[p] - NDIRECT] = 0
                /\ \A j \in Blocks : j # blk[p] /\ j # ip[f].addrs[NDIRECT] => mem'[j] = mem[j]
                /\ \A g \in Files : \A k \in Spots : g # f \/ k # Spot(bn[p]) => Ref'[g][k] = Ref[g][k]
  BY <1>1, ZeroWordStep
<1>3. /\ pc[p] = "zero_word" /\ pc[p] \in Zeroing /\ pinned' = pinned \cup {blk[p]}
      /\ pc' = [pc EXCEPT ![p] = "peek"]
      /\ UNCHANGED <<ip, lock, latest, op, bn, blk, stale>>
  BY DEF ZeroWord, log_write, Goto, Zeroing, fileVars
<1>4. StaleReads' /\ Bounded'
  BY <1>1, <1>3 DEF CInv, StaleReads, Bounded, IInv, Typed
<1>5. Looked'
  <2>1. pc'[p] = "peek" /\ \A q \in Procs \ {p} : pc'[q] = pc[q]
    BY <1>1, <1>3 DEF IInv, Typed
  <2>2. \A g \in Files \ {f} : \A k \in Spots : Ref'[g][k] = Ref[g][k]
    BY <1>2
  <2> QED
    BY <1>1, <1>2, <1>3, <2>1, <2>2, LookedKept
<1>6. Ref[f][Spot(bn[p])] = 0 /\ bn[p] \in 0..(MAXFILE - 1)
  <2>1. bn[p] \in 0..(MAXFILE - 1) /\ ~ (bn[p] < NDIRECT)
    BY <1>1, <1>2, Sizes DEF IInv, Typed
  <2> QED
    BY <1>2, <2>1, RefOf
<1>8. IndirectKept'
  <2> SUFFICES ASSUME NEW g \in Files PROVE IndirectIn(g)'
    BY DEF IndirectKept
  <2>1. IndirectIn(g)
    BY DEF CInv, IndirectKept
  <2>2. CASE g = f
    <3>1. ~ (MkfsSize[f] > NDIRECT)
      BY <1>2, <1>6, LargeRead
    <3> QED
      BY <1>3, <2>1, <2>2, <3>1 DEF IndirectIn
  <2>3. CASE g # f /\ ip[g].addrs[NDIRECT] # 0
    <3>1. ip[g].addrs[NDIRECT] # blk[p] /\ ip[g].addrs[NDIRECT] \in Blocks
      BY <1>1, <1>3, FreshIndirect
    <3>2. NDIRECT \in Spots /\ Ref[g][NDIRECT] = ip[g].addrs[NDIRECT] /\ Ref[f][NDIRECT] = ip[f].addrs[NDIRECT]
      BY RefOf
    <3>3. ip[g].addrs[NDIRECT] # ip[f].addrs[NDIRECT]
      BY <1>1, <2>3, <3>2 DEF IInv, Once
    <3>4. mem'[ip[g].addrs[NDIRECT]] = mem[ip[g].addrs[NDIRECT]]
      BY <1>2, <3>1, <3>3
    <3> QED
      BY <1>3, <2>1, <3>4 DEF IndirectIn
  <2>4. CASE g # f /\ ip[g].addrs[NDIRECT] = 0
    BY <1>3, <2>4 DEF IndirectIn
  <2> QED
    BY <2>2, <2>3, <2>4
<1>7. Holds'
  <2> SUFFICES ASSUME NEW g \in Files, NEW k \in 0..(MAXFILE - 1), k < ip[g].size
               PROVE  /\ Ref'[g][Spot(k)] # 0 /\ mem'[Ref'[g][Spot(k)]] = latest[g][k]
                      /\ Ref'[g][Spot(k)] \notin pinned' => MkfsMem[Ref'[g][Spot(k)]] = latest[g][k]
    BY <1>3 DEF Holds, Spot
  <2>1. PICK r \in Blocks : r = Ref[g][Spot(k)] /\ r # blk[p] /\ r # ip[f].addrs[NDIRECT] /\ Spot(k) \in Spots
    BY <1>3, HeldBlock
  <2>2. r # 0 /\ mem[r] = latest[g][k] /\ (r \notin pinned => MkfsMem[r] = latest[g][k])
    BY <2>1 DEF CInv, Holds
  <2>3. g # f \/ Spot(k) # Spot(bn[p])
    BY <1>6, <2>1, <2>2
  <2>4. Ref'[g][Spot(k)] = r /\ mem'[r] = mem[r]
    BY <1>2, <2>1, <2>3
  <2> QED
    BY <1>3, <2>2, <2>4
<1> QED
  BY <1>1, <1>4, <1>5, <1>7, <1>8 DEF CInv

\* writei() writes the block that bmap() found, and no other block of a file.
LEMMA CopyCInv ==
    ASSUME CInv, NEW p \in Procs, Copy(p)
    PROVE  CInv'
<1>1. /\ IInv /\ IInv'
      /\ \A g \in Files : \A k \in Spots : Ref'[g][k] = Ref[g][k]
      /\ \A g \in Files : ip'[g].addrs = ip[g].addrs /\ mem'[ip[g].addrs[NDIRECT]] = mem[ip[g].addrs[NDIRECT]]
  BY CopyStep DEF CInv
<1>2. PICK f \in Files :
                /\ f = File(p) /\ lock[f] = p /\ \A g \in Files \ {f} : lock'[g] = lock[g] /\ ip'[g].size = ip[g].size
                /\ lock'[f] = None
                /\ IF op[p] = "read"
                   THEN UNCHANGED <<mem, pinned, latest>> /\ ip'[f].size = ip[f].size
                   ELSE /\ mem' = [mem EXCEPT ![blk[p]] = Data(writes)] /\ pinned' = pinned \cup {blk[p]}
                        /\ latest' = [latest EXCEPT ![f][bn[p]] = Data(writes)]
                        /\ ip'[f].size = ip[f].size \/ (bn[p] = ip[f].size /\ ip'[f].size = ip[f].size + 1)
  BY <1>1, CopyStep
<1>3. /\ pc[p] = "use" /\ pc' = [pc EXCEPT ![p] = "out"] /\ stale' = [stale EXCEPT ![p] = FALSE]
      /\ blk' = [blk EXCEPT ![p] = 0] /\ bn' = bn /\ op' = op
  BY DEF Copy, Goto
<1>4. StaleReads' /\ Bounded'
  <2>1. /\ pc'[p] = "out" /\ stale'[p] = FALSE
        /\ \A q \in Procs \ {p} : pc'[q] = pc[q] /\ stale'[q] = stale[q]
    BY <1>1, <1>3 DEF IInv, Typed
  <2>2. \A g \in Files : \A q \in Procs : lock'[g] = q => lock[g] = q
    BY <1>2, Sizes
  <2> QED
    BY <1>3, <2>1, <2>2 DEF CInv, StaleReads, Bounded
<1>5. pinned \subseteq pinned'
  BY <1>2
<1>6. IndirectKept'
  BY <1>1, <1>5 DEF CInv, IndirectKept, IndirectIn
<1>7. Looked'
  <2> SUFFICES ASSUME NEW g \in Files, NEW q \in Procs, lock'[g] = q, pc'[q] = "use", ~ stale'[q]
               PROVE  blk'[q] = Ref'[g][Spot(bn'[q])]
    BY DEF Looked, Spot
  <2>1. q # p /\ pc[q] = "use" /\ blk'[q] = blk[q] /\ bn'[q] = bn[q] /\ ~ stale[q]
    BY <1>1, <1>3 DEF IInv, Typed
  <2>2. g # f /\ lock[g] = q
    BY <1>2, Sizes
  <2>3. Spot(bn[q]) \in Spots
    BY <1>1, SpotOf DEF IInv, Typed
  <2> QED
    BY <1>1, <2>1, <2>2, <2>3 DEF CInv, Looked
<1>8. Holds'
  <2> SUFFICES ASSUME NEW g \in Files, NEW k \in 0..(MAXFILE - 1), k < ip'[g].size
               PROVE  /\ Ref'[g][Spot(k)] # 0 /\ mem'[Ref'[g][Spot(k)]] = latest'[g][k]
                      /\ Ref'[g][Spot(k)] \notin pinned' => MkfsMem[Ref'[g][Spot(k)]] = latest'[g][k]
    BY DEF Holds, Spot
  <2>1. Spot(k) \in Spots /\ Ref'[g][Spot(k)] = Ref[g][Spot(k)]
    BY <1>1, SpotOf
  <2>2. /\ bn[p] \in 0..(MAXFILE - 1) /\ blk[p] \in Blocks
        /\ op[p] # "read" => blk[p] = Ref[f][Spot(bn[p])] /\ blk[p] # 0
    <3>1. bn[p] \in 0..(MAXFILE - 1) /\ blk[p] \in Blocks
      BY <1>1 DEF IInv, Typed
    <3>2. op[p] # "read" => op[p] = "write" /\ ~ stale[p]
      BY <1>1 DEF CInv, StaleReads, IInv, Typed
    <3>3. op[p] # "read" => blk[p] = Ref[f][Spot(bn[p])]
      BY <1>2, <1>3, <3>2 DEF CInv, Looked
    <3>4. op[p] # "read" => blk[p] # 0
      BY <1>1, <1>3, <3>2, Sizes DEF IInv, Marked, Claims
    <3> QED
      BY <3>1, <3>3, <3>4
  <2>3. PICK d : d = Data(writes)
    OBVIOUS
  <2>4. /\ mem \in [Blocks -> [Words -> Nat]] /\ latest \in [Files -> [0..(MAXFILE - 1) -> [Words -> Nat]]]
        /\ op[p] # "read" => /\ mem' = [mem EXCEPT ![blk[p]] = d] /\ pinned' = pinned \cup {blk[p]}
                             /\ latest' = [latest EXCEPT ![f][bn[p]] = d]
    BY <1>1, <1>2, <2>3 DEF IInv, Typed
  <2>5. op[p] # "read" => /\ latest'[f] = [latest[f] EXCEPT ![bn[p]] = d]
                          /\ \A h \in Files \ {f} : latest'[h] = latest[h]
    BY <2>4
  <2>6. /\ op[p] # "read" => latest'[f][bn[p]] = d
        /\ \A l \in 0..(MAXFILE - 1) : op[p] # "read" /\ l # bn[p] => latest'[f][l] = latest[f][l]
    <3>1. latest[f] \in [0..(MAXFILE - 1) -> [Words -> Nat]]
      BY <2>4
    <3> QED
      BY <2>2, <2>5, <3>1
  <2>7. CASE op[p] = "read"
    <3>1. k < ip[g].size /\ UNCHANGED <<mem, pinned, latest>>
      BY <1>2, <2>7
    <3> QED
      BY <2>1, <3>1 DEF CInv, Holds
  <2>8. CASE op[p] # "read" /\ g = f /\ k = bn[p]
    <3>1. mem'[blk[p]] = d /\ blk[p] \in pinned' /\ latest'[f][bn[p]] = d
      BY <2>2, <2>4, <2>8, <2>6
    <3> QED
      BY <2>1, <2>2, <2>8, <3>1
  <2>9. CASE op[p] # "read" /\ ~ (g = f /\ k = bn[p])
    <3>1. k < ip[g].size
      <4>1. ip[g].size \in Nat
        BY <1>1, InodeOf, Sizes DEF IInv, Typed
      <4> QED
        BY <1>2, <2>2, <2>9, <4>1
    <3>2. latest'[g][k] = latest[g][k]
      BY <2>9, <2>5, <2>6
    <3>3. PICK r \in Blocks : r = Ref[g][Spot(k)]
      BY <3>1, HeldBlock
    <3>4. r # 0 /\ mem[r] = latest[g][k] /\ (r \notin pinned => MkfsMem[r] = latest[g][k])
      BY <3>1, <3>3 DEF CInv, Holds
    <3>5. r # blk[p]
      <4>1. Spot(bn[p]) \in Spots /\ (Spot(k) = Spot(bn[p]) => k = bn[p])
        BY <2>2, SpotOf
      <4> QED
        BY <1>1, <2>1, <2>2, <2>9, <3>3, <4>1 DEF IInv, Once
    <3>6. mem'[r] = mem[r]
      BY <2>2, <2>9, <2>4, <3>5
    <3> QED
      BY <1>5, <2>1, <3>2, <3>3, <3>4, <3>6
  <2> QED
    BY <2>7, <2>8, <2>9
<1> QED
  BY <1>1, <1>4, <1>6, <1>7, <1>8 DEF CInv

\* Every step preserves CInv.
LEMMA NextCInv == SafeWrites /\ CInv /\ [Next]_vars => CInv'
<1> SUFFICES ASSUME SafeWrites, CInv, [Next]_vars PROVE CInv'
  OBVIOUS
<1>1. ASSUME NEW b \in Blocks, Recycle(b) PROVE CInv'
  BY <1>1, RecycleCInv
<1>2. ASSUME NEW p \in Procs, Copy(p) PROVE CInv'
  BY <1>2, CopyCInv
<1>3. ASSUME NEW p \in Procs, ZeroInode(p) PROVE CInv'
  BY <1>3, ZeroInodeCInv
<1>4. ASSUME NEW p \in Procs, ZeroWord(p) PROVE CInv'
  BY <1>4, ZeroWordCInv
<1>5. ASSUME UNCHANGED <<mem, ip, latest, stale>>, pinned \subseteq pinned', StaleReads', Bounded',
             \A q \in Procs : \A g \in Files : lock'[g] = q /\ pc'[q] = "use" /\ ~ stale[q] =>
               \/ lock[g] = q /\ pc[q] = "use" /\ blk'[q] = blk[q] /\ bn'[q] = bn[q]
               \/ blk'[q] = Ref[g][Spot(bn'[q])]
      PROVE  CInv'
  <2>1. NoStaleWrite /\ IInv
    BY DEF CInv, StaleReads, NoStaleWrite
  <2>2. IInv'
    BY <2>1, NextIInv
  <2> QED
    BY <1>5, <2>1, <2>2, QuietCInv
<1>6. ASSUME NEW f \in Files, Reload(f) PROVE CInv'
  <2>1. ip' = ip
    BY <1>6 DEF Reload, CInv, IInv, Saved, Typed
  <2>2. StaleReads' /\ Bounded'
    BY <1>6 DEF Reload, CInv, StaleReads, Bounded
  <2> QED
    BY <1>5, <1>6, <2>1, <2>2 DEF Reload
<1>7. ASSUME NEW p \in Procs, NEW f \in Files, NEW k \in 0..(MAXFILE - 1), Readi(p, f, k) \/ Writei(p, f, k)
      PROVE  CInv'
  <2>1. /\ UNCHANGED <<mem, ip, latest, stale, pinned, blk>>
        /\ lock' = [lock EXCEPT ![f] = p] /\ bn' = [bn EXCEPT ![p] = k] /\ pc' = [pc EXCEPT ![p] = "bmap"]
    BY <1>7 DEF Readi, Writei, Goto
  <2>2. /\ lock'[f] = p /\ pc'[p] = "bmap" /\ \A g \in Files \ {f} : lock'[g] = lock[g]
        /\ \A q \in Procs \ {p} : pc'[q] = pc[q] /\ bn'[q] = bn[q]
    BY <2>1 DEF CInv, IInv, Typed
  <2>3. \A q \in Procs : \A g \in Files : lock'[g] = q /\ pc'[q] = "use" =>
               lock[g] = q /\ pc[q] = "use" /\ blk'[q] = blk[q] /\ bn'[q] = bn[q]
    BY <2>1, <2>2
  <2>4. PICK o : op' = [op EXCEPT ![p] = o] /\ (o = "write" => k < Writable[f])
    BY <1>7 DEF Readi, Writei
  <2>5. pc[p] = "out" /\ bn'[p] = k /\ op'[p] = o /\ \A q \in Procs \ {p} : op'[q] = op[q]
    BY <1>7, <2>1, <2>4 DEF Readi, Writei, CInv, IInv, Typed
  <2>6. StaleReads'
    BY <2>1, <2>2, <2>5 DEF CInv, StaleReads
  <2>7. Bounded'
    <3>1. \A g \in Files : lock[g] # p
      BY <2>5, Sizes DEF CInv, IInv, Locks
    <3> QED
      BY <2>2, <2>4, <2>5, <3>1 DEF CInv, Bounded
  <2> QED
    BY <1>5, <2>1, <2>3, <2>6, <2>7
<1>8. ASSUME NEW p \in Procs, BmapDirect(p) \/ Peek(p) PROVE CInv'
  <2>1. PICK f \in Files : lock[f] = p /\ (~ stale[p] => blk'[p] = Ref[f][Spot(bn[p])])
    BY <1>8, UseStep DEF CInv, StaleReads, NoStaleWrite
  <2>2. UNCHANGED <<mem, ip, latest, stale, pinned, lock, op, bn>>
    BY <1>8 DEF BmapDirect, Peek, fileVars
  <2>3. pc' = [pc EXCEPT ![p] = "use"] /\ \E b : blk' = [blk EXCEPT ![p] = b]
    BY <1>8 DEF BmapDirect, Peek, Goto
  <2>4. pc'[p] = "use" /\ \A q \in Procs \ {p} : pc'[q] = pc[q] /\ blk'[q] = blk[q]
    BY <2>3 DEF CInv, IInv, Typed
  <2>5. \A g \in Files : lock[g] = p => g = f
    BY <2>1, Sizes DEF CInv, IInv, Locks
  <2>6. \A q \in Procs : \A g \in Files : lock'[g] = q /\ pc'[q] = "use" /\ ~ stale[q] =>
               \/ lock[g] = q /\ pc[q] = "use" /\ blk'[q] = blk[q] /\ bn'[q] = bn[q]
               \/ blk'[q] = Ref[g][Spot(bn'[q])]
    BY <2>1, <2>2, <2>4, <2>5
  <2>7. StaleReads' /\ Bounded'
    BY <2>2, <2>4 DEF CInv, StaleReads, Bounded
  <2> QED
    BY <1>5, <2>2, <2>6, <2>7
<1>9. ASSUME NEW p \in Procs, BmapNewDirect(p) \/ BmapNewIndirect(p) \/ BmapNewWord(p) \/ BmapWord(p) PROVE CInv'
  <2>1. /\ UNCHANGED <<mem, ip, latest, stale, lock, op, bn>> /\ pinned \subseteq pinned'
        /\ \E l \in Zeroing \cup {"peek"} : pc' = [pc EXCEPT ![p] = l]
        /\ blk' = blk \/ \E b : blk' = [blk EXCEPT ![p] = b]
    <3>1. CASE BmapWord(p)
      BY <3>1 DEF BmapWord, Goto, fileVars
    <3>2. ASSUME NEW l \in Zeroing, balloc(p, l)
          PROVE  /\ UNCHANGED <<mem, ip, latest, stale, lock, op, bn>> /\ pinned \subseteq pinned'
                 /\ pc' = [pc EXCEPT ![p] = l] /\ \E b : blk' = [blk EXCEPT ![p] = b]
      BY <3>2 DEF balloc, log_write, Goto, fileVars
    <3>3. \A l \in {"zero_direct", "zero_indirect", "zero_word"} : l \in Zeroing
      BY DEF Zeroing
    <3> QED
      BY <1>9, <3>1, <3>2, <3>3 DEF BmapNewDirect, BmapNewIndirect, BmapNewWord
  <2>2. pc[p] = "bmap" /\ pc'[p] # "use" /\ \A q \in Procs \ {p} : pc'[q] = pc[q] /\ blk'[q] = blk[q]
    BY <1>9, <2>1 DEF BmapNewDirect, BmapNewIndirect, BmapNewWord, BmapWord, CInv, IInv, Typed, Zeroing
  <2>3. \A q \in Procs : \A g \in Files : lock'[g] = q /\ pc'[q] = "use" =>
               lock[g] = q /\ pc[q] = "use" /\ blk'[q] = blk[q] /\ bn'[q] = bn[q]
    BY <2>1, <2>2
  <2>4. StaleReads' /\ Bounded'
    BY <2>1, <2>2 DEF CInv, StaleReads, Bounded
  <2> QED
    BY <1>5, <2>1, <2>3, <2>4
<1>10. CASE UNCHANGED vars
  <2>1. UNCHANGED <<mem, pinned, ip, lock, latest, pc, op, bn, blk, stale>>
    BY <1>10 DEF vars
  <2>2. StaleReads' /\ Bounded'
    BY <2>1 DEF CInv, StaleReads, Bounded
  <2> QED
    BY <1>5, <2>1, <2>2
<1> QED
  BY <1>1, <1>2, <1>3, <1>4, <1>6, <1>7, <1>8, <1>9, <1>10 DEF Next

\* On every image, if files for which mkfs made an indirect block are written in
\* their direct blocks only and all others anywhere, no block is in two places of
\* one file or of two files, and each is marked in the bitmap: with balloc() under
\* no lock but that of the bitmap's buffer, bmap() giving readers words of recycled
\* buffers, and any buffer that is not pinned recycled at any time.
THEOREM SafeWritesNoShared ==
    ASSUME SafeWrites
    PROVE  Spec => []NoSharedBlock
<1>1. Init => CInv
  BY InitCInv
<1>2. CInv => NoSharedBlock
  BY IInvNoShared DEF CInv
<1>3. CInv /\ [Next]_vars => CInv'
  BY NextCInv
<1> QED
  BY <1>1, <1>2, <1>3, PTL DEF Spec

\* CInv is what FileContents needs.
LEMMA CInvContents == CInv => FileContents
<1> SUFFICES ASSUME CInv PROVE FileContents
  OBVIOUS
<1>1. \A f \in Files : \A k \in 0..(MAXFILE - 1) : BlockOf(f, k) = Ref[f][Spot(k)]
  BY RefOf DEF BlockOf
<1>2. ASSUME NEW f \in Files, NEW k \in 0..(ip[f].size - 1)
      PROVE  BlockOf(f, k) # 0 /\ mem[BlockOf(f, k)] = latest[f][k]
  <2>1. ip[f].size \in 0..MAXFILE
    BY InodeOf DEF CInv, IInv, Typed
  <2>2. k \in 0..(MAXFILE - 1) /\ k < ip[f].size
    BY <2>1, Sizes
  <2> QED
    BY <1>1, <2>2 DEF CInv, Holds
<1>3. ASSUME NEW p \in Procs, pc[p] = "use", op[p] = "write" \/ ~ stale[p] PROVE blk[p] = BlockOf(File(p), bn[p])
  <2>1. PICK f \in Files : f = File(p) /\ lock[f] = p
    BY <1>3, FileOf DEF CInv, IInv
  <2>2. bn[p] \in 0..(MAXFILE - 1)
    BY DEF CInv, IInv, Typed
  <2>3. ~ stale[p]
    BY <1>3 DEF CInv, StaleReads
  <2> QED
    BY <1>1, <1>3, <2>1, <2>2, <2>3 DEF CInv, Looked
<1> QED
  BY <1>2, <1>3 DEF FileContents

\* On every image, if files for which mkfs made an indirect block are written in
\* their direct blocks only, every block of every file holds what was last written
\* to it, writers write to the block of the file and so do readers read, but for
\* those whose buffer was recycled; an inode or a buffer that is recycled and read
\* again loses nothing: what writei() and bmap() changed is pinned.
THEOREM SafeWritesContents ==
    ASSUME SafeWrites
    PROVE  Spec => []FileContents
<1>1. Init => CInv
  BY InitCInv
<1>2. CInv /\ [Next]_vars => CInv'
  BY NextCInv
<1> QED
  BY <1>1, <1>2, CInvContents, PTL DEF Spec
=============================================================================
