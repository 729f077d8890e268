------------------------------- MODULE Blocks --------------------------------
(***************************************************************************)
(* Which blocks a file has: balloc(), bzero(), bmap(), and the readi() and *)
(* writei() that use them (kern/fs.c), over a buffer cache that forgets    *)
(* what is not pinned, on an image made by mkfs.                           *)
(*                                                                         *)
(* A process has the inode's lock from the start of its operation to its   *)
(* end.  A step goes from one bread() to the next.  Nothing of what is     *)
(* logged reaches the disk (module Log), so a block whose buffer is        *)
(* recycled has the contents mkfs gave it.  An operation reads or writes   *)
(* one block; a block of a file is seen as NINDIRECT equal words.          *)
(***************************************************************************)
EXTENDS Integers, FiniteSets, FiniteSetsExt

CONSTANTS Procs, None,
          NFILES,             \* files of the image
          MkfsSize,           \* their sizes in blocks
          NDIRECT, NINDIRECT,
          nmeta,              \* blocks before the first data block
          Base,               \* first block of each file of the image, and of
                              \* what is left behind the last
          BPB,                \* bits of the bitmap block
          Writable,           \* processes write to a file below this block
          MaxWrites           \* bound: number of blocks written

Files   == 1..NFILES
Blocks  == 0..(BPB - 1)
Words   == 0..(NINDIRECT - 1)
MAXFILE == NDIRECT + NINDIRECT
Bitmap  == nmeta - 1

ASSUME BlocksAssumption ==
    /\ None \notin Procs /\ NFILES \in Nat /\ {NDIRECT, NINDIRECT, nmeta, BPB} \subseteq Nat \ {0}
    /\ MkfsSize \in [Files -> 0..MAXFILE] /\ MaxWrites \in Nat /\ nmeta > 1
    /\ Writable \in [Files -> 0..MAXFILE]

\* mkfs: iappend() takes one block more for a file that needs an indirect one.
Taken(f) == IF MkfsSize[f] > NDIRECT THEN MkfsSize[f] + 1 ELSE MkfsSize[f]

\* freeblock starts behind the metadata and is taken by one file after the
\* other; balloc() asserts that the bitmap is large enough.
ASSUME LayoutAssumption ==
    /\ Base \in [1..(NFILES + 1) -> Nat] /\ Base[1] = nmeta /\ Base[NFILES + 1] < BPB
    /\ \A f \in Files : Base[f + 1] = Base[f] + Taken(f)

VARIABLES
    bits,   \* the blocks marked in the buffer of the bitmap
    mem,    \* the words of each block as bread() returns them
    pinned, \* blocks whose buffer log_write() has pinned
    ip,     \* the inodes in memory: addrs and size
    dinode, \* the same in the buffer of the inode's block
    lock,   \* holder of each inode's lock
    pc, op, bn, blk, \* where a process is, read or write, and the block
    stale,  \* the buffer it points to has been recycled
    latest, \* history: what was last written to each block of a file
    writes

fileVars == <<ip, dinode, lock, latest, writes>>
vars     == <<bits, mem, pinned, ip, dinode, lock, pc, op, bn, blk, stale, latest, writes>>

Zero    == [i \in Words |-> 0]
\* Words of user data are no block numbers.
Data(k) == [i \in Words |-> BPB + k]

\* mkfs: iappend() gives the files consecutive blocks, the indirect one before
\* those behind it; balloc() marks them and the metadata.
iappend(f) == [addrs |-> [k \in 0..NDIRECT |-> IF k < MkfsSize[f] THEN Base[f] + k ELSE 0],
               size  |-> MkfsSize[f]]
MkfsBits   == 0..(Base[NFILES + 1] - 1)
MkfsWords(f) == [w \in Words |-> IF NDIRECT + w < MkfsSize[f] THEN Base[f] + NDIRECT + 1 + w ELSE 0]
MkfsMem    == [b \in Blocks |->
                 IF \E f \in Files : iappend(f).addrs[NDIRECT] = b /\ b # 0
                 THEN MkfsWords(CHOOSE f \in Files : iappend(f).addrs[NDIRECT] = b)
                 ELSE IF b \in nmeta..(Base[NFILES + 1] - 1) THEN Data(0) ELSE Zero]

Init ==
    /\ bits = MkfsBits /\ mem = MkfsMem /\ pinned = {}
    /\ ip = [f \in Files |-> iappend(f)] /\ dinode = ip
    /\ lock = [f \in Files |-> None]
    /\ pc = [p \in Procs |-> "out"] /\ op = [p \in Procs |-> "read"]
    /\ bn = [p \in Procs |-> 0] /\ blk = [p \in Procs |-> 0] /\ stale = [p \in Procs |-> FALSE]
    /\ latest = [f \in Files |-> [k \in 0..(MAXFILE - 1) |-> Data(0)]]
    /\ writes = 0

Goto(p, l) == pc' = [pc EXCEPT ![p] = l]

\* The file a process works on, its indirect block and the word in it.
File(p)     == CHOOSE f \in Files : lock[f] = p
Indirect(p) == ip[File(p)].addrs[NDIRECT]
Word(p)     == bn[p] - NDIRECT

-----------------------------------------------------------------------------
(* The cache: log_write() pins, bget() recycles what is not in use.        *)

\* Bug: log_write() does not call bpin().
Bug_NoPin(b) == UNCHANGED pinned

log_write(b) == pinned' = pinned \cup {b}

\* The buffer of the indirect block is locked while balloc() fills a word of it.
InUse(b) == \E p \in Procs : pc[p] = "zero_word" /\ Indirect(p) = b

\* Another block is given the buffer of b.
Recycle(b) ==
    /\ b \notin pinned /\ ~InUse(b)
    /\ mem' = [mem EXCEPT ![b] = MkfsMem[b]]
    /\ bits' = IF b = Bitmap THEN MkfsBits ELSE bits
    /\ stale' = [p \in Procs |-> stale[p] \/ (pc[p] = "peek" /\ Indirect(p) = b)]
    /\ UNCHANGED <<pinned, fileVars, pc, op, bn, blk>>

\* The entry of the inode is recycled and ilock() reads the inode again.
Reload(f) ==
    /\ lock[f] = None
    /\ ip' = [ip EXCEPT ![f] = dinode[f]]
    /\ UNCHANGED <<bits, mem, pinned, dinode, lock, pc, op, bn, blk, stale, latest, writes>>

-----------------------------------------------------------------------------
(* readi() and writei() of block k.                                        *)

Readi(p, f, k) ==
    /\ pc[p] = "out" /\ lock[f] = None /\ k < ip[f].size
    /\ lock' = [lock EXCEPT ![f] = p]
    /\ bn' = [bn EXCEPT ![p] = k] /\ op' = [op EXCEPT ![p] = "read"] /\ Goto(p, "bmap")
    /\ UNCHANGED <<bits, mem, pinned, ip, dinode, blk, stale, latest, writes>>

Writei(p, f, k) ==
    /\ pc[p] = "out" /\ lock[f] = None /\ k <= ip[f].size /\ k < Writable[f] /\ writes < MaxWrites
    /\ lock' = [lock EXCEPT ![f] = p] /\ writes' = writes + 1
    /\ bn' = [bn EXCEPT ![p] = k] /\ op' = [op EXCEPT ![p] = "write"] /\ Goto(p, "bmap")
    /\ UNCHANGED <<bits, mem, pinned, ip, dinode, blk, stale, latest>>

\* The block is read; or changed, logged, and the size of the file with it.
Copy(p) ==
    LET f == File(p) IN
    /\ pc[p] = "use"
    /\ IF op[p] = "read" THEN UNCHANGED <<mem, pinned, ip, dinode, latest>>
       ELSE /\ mem' = [mem EXCEPT ![blk[p]] = Data(writes)]
            /\ latest' = [latest EXCEPT ![f][bn[p]] = Data(writes)]
            /\ log_write(blk[p])
            /\ IF bn[p] = ip[f].size
               THEN ip' = [ip EXCEPT ![f].size = @ + 1] /\ dinode' = [dinode EXCEPT ![f] = ip'[f]]
               ELSE UNCHANGED <<ip, dinode>>
    /\ lock' = [lock EXCEPT ![f] = None] /\ Goto(p, "out")
    /\ blk' = [blk EXCEPT ![p] = 0] /\ stale' = [stale EXCEPT ![p] = FALSE]
    /\ UNCHANGED <<bits, op, bn, writes>>

-----------------------------------------------------------------------------
(* balloc() and bmap()                                                     *)

\* Bug: balloc() does not mark the block in the bitmap.
Bug_MarkedLate(p, then) ==
    LET unset == Blocks \ bits IN
    /\ unset # {}
    /\ log_write(Bitmap)
    /\ blk' = [blk EXCEPT ![p] = Min(unset)]
    /\ Goto(p, then)
    /\ UNCHANGED <<bits, mem, fileVars, op, bn, stale>>

\* balloc(), up to its bzero(): the first bit that is not set, whether or not
\* the disk is that large.
balloc(p, then) ==
    LET unset == Blocks \ bits IN
    /\ unset # {}
    /\ bits' = bits \cup {Min(unset)}
    /\ log_write(Bitmap)
    /\ blk' = [blk EXCEPT ![p] = Min(unset)]
    /\ Goto(p, then)
    /\ UNCHANGED <<mem, fileVars, op, bn, stale>>

\* A direct block that is there.
BmapDirect(p) ==
    /\ pc[p] = "bmap" /\ bn[p] < NDIRECT /\ ip[File(p)].addrs[bn[p]] # 0
    /\ blk' = [blk EXCEPT ![p] = ip[File(p)].addrs[bn[p]]]
    /\ Goto(p, "use")
    /\ UNCHANGED <<bits, mem, pinned, fileVars, op, bn, stale>>

BmapNewDirect(p) ==
    /\ pc[p] = "bmap" /\ bn[p] < NDIRECT /\ ip[File(p)].addrs[bn[p]] = 0
    /\ balloc(p, "zero_direct")

BmapNewIndirect(p) ==
    /\ pc[p] = "bmap" /\ bn[p] >= NDIRECT /\ Indirect(p) = 0
    /\ balloc(p, "zero_indirect")

\* The word of the indirect block is set: brelse() at once.
BmapWord(p) ==
    /\ pc[p] = "bmap" /\ bn[p] >= NDIRECT /\ Indirect(p) # 0
    /\ mem[Indirect(p)][Word(p)] # 0
    /\ Goto(p, "peek")
    /\ UNCHANGED <<bits, mem, pinned, fileVars, op, bn, blk, stale>>

BmapNewWord(p) ==
    /\ pc[p] = "bmap" /\ bn[p] >= NDIRECT /\ Indirect(p) # 0
    /\ mem[Indirect(p)][Word(p)] = 0
    /\ balloc(p, "zero_word")

\* bzero(): the new block is cleared and logged.
bzero(b) == mem' = [mem EXCEPT ![b] = Zero] /\ log_write(b)

\* bzero() ends, and the new block goes into the inode.
ZeroInode(p) ==
    /\ pc[p] \in {"zero_direct", "zero_indirect"}
    /\ bzero(blk[p])
    /\ ip' = [ip EXCEPT ![File(p)].addrs[IF pc[p] = "zero_direct" THEN bn[p] ELSE NDIRECT] = blk[p]]
    /\ Goto(p, IF pc[p] = "zero_direct" THEN "use" ELSE "bmap")
    /\ UNCHANGED <<bits, dinode, lock, latest, writes, op, bn, blk, stale>>

\* bzero() ends, and the new block goes into the indirect block: no log_write()
\* of that one.  brelse().
ZeroWord(p) ==
    /\ pc[p] = "zero_word"
    /\ mem' = [mem EXCEPT ![blk[p]] = Zero, ![Indirect(p)][Word(p)] = blk[p]]
    /\ log_write(blk[p])
    /\ Goto(p, "peek")
    /\ UNCHANGED <<bits, fileVars, op, bn, blk, stale>>

\* "return(addrs[bn])" after brelse(): if the buffer has been recycled, the word
\* is one of another block, which may be the number of any block.
Peek(p) ==
    /\ pc[p] = "peek"
    /\ \E b \in IF stale[p] THEN Blocks ELSE {mem[Indirect(p)][Word(p)]} :
         blk' = [blk EXCEPT ![p] = b]
    /\ Goto(p, "use")
    /\ UNCHANGED <<bits, mem, pinned, fileVars, op, bn, stale>>

Next ==
    \/ \E b \in Blocks : Recycle(b)
    \/ \E f \in Files : Reload(f)
    \/ \E p \in Procs :
         \/ \E f \in Files, k \in 0..(MAXFILE - 1) : Readi(p, f, k) \/ Writei(p, f, k)
         \/ Copy(p) \/ BmapDirect(p) \/ BmapNewDirect(p) \/ BmapNewIndirect(p) \/ BmapWord(p)
         \/ BmapNewWord(p) \/ ZeroInode(p) \/ ZeroWord(p) \/ Peek(p)

Spec == Init /\ [][Next]_vars

-----------------------------------------------------------------------------
\* The blocks of a file: the direct ones, the indirect one, and its words.
Refs(f) ==
    LET ind == ip[f].addrs[NDIRECT] IN
    {<<ip[f].addrs[k], f, k>> : k \in 0..NDIRECT}
      \cup (IF ind = 0 THEN {} ELSE {<<mem[ind][w], f, NDIRECT + 1 + w>> : w \in Words})

\* No block is in two places of one file or of two files, and each is marked in
\* the bitmap and behind the metadata: balloc() never gives away a block that
\* is in use, whatever is recycled in between.
NoSharedBlock ==
    LET used == {x \in UNION {Refs(f) : f \in Files} : x[1] # 0} IN
    /\ Cardinality(used) = Cardinality({x[1] : x \in used})
    /\ \A x \in used : x[1] \in bits /\ x[1] >= nmeta

\* bmap(): "the disk block address of the nth block in inode ip".
BlockOf(f, k) == IF k < NDIRECT THEN ip[f].addrs[k]
                 ELSE IF ip[f].addrs[NDIRECT] = 0 THEN 0 ELSE mem[ip[f].addrs[NDIRECT]][k - NDIRECT]

\* Every block of a file holds what was last written to it, in the inode and in
\* one read again, and whoever writes writes to the block of the file, also while
\* bmap() returns others a wrong one.
FileContents ==
    /\ \A f \in Files : \A k \in 0..(ip[f].size - 1) :
          BlockOf(f, k) # 0 /\ mem[BlockOf(f, k)] = latest[f][k]
    /\ \A p \in Procs : pc[p] = "use" /\ (op[p] = "write" \/ ~stale[p])
                        => blk[p] = BlockOf(File(p), bn[p])
=============================================================================
