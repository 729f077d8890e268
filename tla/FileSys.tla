------------------------------- MODULE FileSys ------------------------------
(***************************************************************************)
(* Inodes, directories and path names (kern/fs.c), the table of open files *)
(* (kern/file.c) and the system calls on them (kern/sysfile.c, and what    *)
(* fork(), exit() and execve() do to files).                               *)
(*                                                                         *)
(* A step runs from one acquisition of icache.lock, ftable.lock or of the  *)
(* lock of an inode to the next.  What a process does between ilock() and  *)
(* iunlock() without taking another lock is one step; the contents of the  *)
(* disk are what bread() returns (module BCache).  Sizes and offsets are   *)
(* counted in blocks; which blocks a file has is not modelled.             *)
(***************************************************************************)
EXTENDS Integers, Sequences, FiniteSets, FiniteSetsExt

CONSTANTS
    Procs, initproc, \* processes, and the one that exists at the start
    None,            \* no process
    NINODES,         \* inodes of the device
    NINODE,          \* entries of the inode cache
    NFILE, NOFILE,   \* open files of the system and of a process
    MAXFILE,         \* largest size of a file
    LIM,             \* what filewrite() writes in one operation of the log
    Names,           \* names a directory may hold, "." and ".." besides
    Calls,           \* <<kind of call, path>> the processes make
    Lengths,         \* lengths they read and write
    MaxCalls         \* bound: number of system calls

ROOTINO == 1
Inums   == 1..NINODES
Slots   == 1..NINODE
Files   == 1..NFILE
Fds     == 1..NOFILE

ASSUME FileSysAssumption ==
    /\ initproc \in Procs /\ None \notin Procs
    /\ {NINODES, NINODE, NFILE, NOFILE, MAXFILE, LIM} \subseteq Nat \ {0}
    /\ MaxCalls \in Nat /\ Lengths \subseteq Nat \ {0}
    /\ IsFiniteSet(Procs) /\ IsFiniteSet(Names) /\ "." \notin Names /\ ".." \notin Names

\* Calls whose path names the parent of a new inode, and all others.
WantsParent == {"creat", "mkdir", "mknod"}
Kinds       == WantsParent \cup {"open", "openw", "stat", "chdir", "exec"}
Elems       == Names \cup {".", ".."}

ASSUME CallsAssumption ==
    \A c \in Calls : c[1] \in Kinds /\ c[2].abs \in BOOLEAN /\ c[2].elems \in Seq(Elems)

VARIABLES
    dinode,  \* the inodes on disk: type, nlink and size
    ents,    \* the entries <<name, inum>> of each directory
    icache,  \* the inode cache: inum, ref, valid and the copy of the dinode
    holder,  \* who holds the sleeplock of each entry
    ftable,  \* the open files: ref, type, ip and off
    ofile, cwd, \* the descriptors and the directory of each process
    pc, kind, elems, ip, nxt, \* where a process is, its call, path and inodes
    io,      \* the file it reads or writes, the length and what is done of it
    leaked,  \* history: references to each entry that nobody will drop
    kept,    \* history: entries locked by a call that has returned
    calls    \* number of system calls so far

diskVars == <<dinode, ents>>
fileVars == <<ftable, ofile>>
walkVars == <<kind, elems>>
vars == <<dinode, ents, icache, holder, ftable, ofile, cwd, pc, kind, elems, ip,
          nxt, io, leaked, kept, calls>>

NoIo == [file |-> 0, n |-> 0, fin |-> 0]

\* The disk as mkfs makes it without files, initproc in the root (sys_test()).
Init ==
    /\ dinode = [i \in Inums |-> IF i = ROOTINO THEN [type |-> "dir", nlink |-> 1, size |-> 0]
                                               ELSE [type |-> "free", nlink |-> 0, size |-> 0]]
    /\ ents = [i \in Inums |-> IF i = ROOTINO THEN {<<".", i>>, <<"..", i>>} ELSE {}]
    /\ icache = [s \in Slots |-> [inum |-> IF s = 1 THEN ROOTINO ELSE 0, ref |-> IF s = 1 THEN 1 ELSE 0,
                                  valid |-> FALSE, type |-> "free", nlink |-> 0, size |-> 0]]
    /\ holder = [s \in Slots |-> None]
    /\ ftable = [f \in Files |-> [ref |-> 0, type |-> "none", ip |-> 0, off |-> 0]]
    /\ ofile = [p \in Procs |-> [d \in Fds |-> 0]]
    /\ cwd = [p \in Procs |-> IF p = initproc THEN 1 ELSE 0]
    /\ pc = [p \in Procs |-> IF p = initproc THEN "user" ELSE "unused"]
    /\ kind = [p \in Procs |-> "none"]
    /\ elems = [p \in Procs |-> <<>>]
    /\ ip = [p \in Procs |-> 0]
    /\ nxt = [p \in Procs |-> 0]
    /\ io = [p \in Procs |-> NoIo]
    /\ leaked = [s \in Slots |-> 0]
    /\ kept = {}
    /\ calls = 0

Goto(p, l) == pc' = [pc EXCEPT ![p] = l]
Set(f, p, v) == [f EXCEPT ![p] = v]

-----------------------------------------------------------------------------
(* The inode cache                                                         *)

\* panic() in iget() keeps icache.lock.
IcacheUsable == \A p \in Procs : pc[p] # "panic"

Hits(ic, i) == {s \in Slots : ic[s].inum = i /\ ic[s].ref > 0}
Empty(ic)   == {s \in Slots : ic[s].ref = 0}
CanGet(ic, i) == Hits(ic, i) \cup Empty(ic) # {}
Entry(ic, i)  == IF Hits(ic, i) # {} THEN Min(Hits(ic, i))
                 ELSE IF Empty(ic) # {} THEN Min(Empty(ic)) ELSE 0

\* Bug: an entry that is taken keeps its valid bit.
Bug_IgetKeepsValid(ic, i) ==
    IF Hits(ic, i) # {} THEN [ic EXCEPT ![Entry(ic, i)].ref = @ + 1]
    ELSE [ic EXCEPT ![Entry(ic, i)] = [@ EXCEPT !.inum = i, !.ref = 1, !.size = 0]]

\* The cache after iget(i): one more reference, or an empty entry taken.
Got(ic, i) ==
    IF Hits(ic, i) # {} THEN [ic EXCEPT ![Entry(ic, i)].ref = @ + 1]
    ELSE [ic EXCEPT ![Entry(ic, i)] = [@ EXCEPT !.inum = i, !.ref = 1, !.size = 0, !.valid = FALSE]]

\* iget() returns Entry(ic, i) and its caller goes on at l; when every entry is
\* referenced, panic("Cannot alloc a inode").
iget(p, ic, i, l) ==
    IF CanGet(ic, i) THEN icache' = Got(ic, i) /\ Goto(p, l)
                     ELSE icache' = ic /\ Goto(p, "panic")

idup(ic, s) == [ic EXCEPT ![s].ref = @ + 1]

\* iput() of an entry that it need not free (see IputNeverFrees).
iput(ic, s) == [ic EXCEPT ![s].ref = @ - 1]

\* The cache after ilock(): the inode is read if the entry is not valid.
Loaded(s) ==
    IF icache[s].valid THEN icache
    ELSE [icache EXCEPT ![s] = [inum |-> @.inum, ref |-> @.ref, valid |-> TRUE,
            type |-> dinode[@.inum].type, nlink |-> dinode[@.inum].nlink, size |-> dinode[@.inum].size]]

\* iupdate(): the copy goes to disk.
Updated(ic, s) == [dinode EXCEPT ![ic[s].inum] =
                     [type |-> ic[s].type, nlink |-> ic[s].nlink, size |-> ic[s].size]]

Free(s) == holder[s] = None

-----------------------------------------------------------------------------
(* namex()                                                                 *)

\* begin_op() and the first reference: the root or the current directory.
NamexStart(p, c) ==
    /\ pc[p] = "user" /\ calls < MaxCalls /\ IcacheUsable
    /\ calls' = calls + 1
    /\ IF c[2].abs
         THEN iget(p, icache, ROOTINO, "walk") /\ ip' = Set(ip, p, Entry(icache, ROOTINO))
         ELSE icache' = idup(icache, cwd[p]) /\ ip' = Set(ip, p, cwd[p]) /\ Goto(p, "walk")
    /\ kind' = Set(kind, p, c[1])
    /\ elems' = Set(elems, p, c[2].elems)
    /\ UNCHANGED <<diskVars, holder, fileVars, cwd, nxt, io, leaked, kept>>

\* dirlookup(): what name stands for in directory i, as a set.
dirlookup(i, name) == {e[2] : e \in {x \in ents[i] : x[1] = name}}

\* One element of the path: ilock(ip), dirlookup(), iunlock(ip).
NamexLook(p) ==
    /\ pc[p] = "walk" /\ elems[p] # <<>> /\ Free(ip[p]) /\ IcacheUsable
    /\ ~ (kind[p] \in WantsParent /\ Len(elems[p]) = 1)
    /\ LET ic == Loaded(ip[p])
           found == dirlookup(ic[ip[p]].inum, Head(elems[p]))
       IN  IF ic[ip[p]].type # "dir" \/ found = {}
             THEN icache' = ic /\ nxt' = nxt /\ Goto(p, "fail")
             ELSE iget(p, ic, Min(found), "step") /\ nxt' = Set(nxt, p, Entry(ic, Min(found)))
    /\ holder' = IF pc'[p] = "panic" THEN Set(holder, ip[p], p) ELSE holder
    /\ UNCHANGED <<diskVars, fileVars, cwd, walkVars, ip, io, leaked, kept, calls>>

\* The last element for nameiparent(): ip is the parent if it is a directory.
NamexParent(p) ==
    /\ pc[p] = "walk" /\ kind[p] \in WantsParent /\ Len(elems[p]) = 1 /\ Free(ip[p])
    /\ icache' = Loaded(ip[p])
    /\ Goto(p, IF icache'[ip[p]].type = "dir" THEN "parent" ELSE "fail")
    /\ UNCHANGED <<diskVars, holder, fileVars, cwd, walkVars, ip, nxt, io, leaked, kept, calls>>

\* iput(ip); ip = next.
NamexStep(p) ==
    /\ pc[p] = "step" /\ IcacheUsable
    /\ icache' = iput(icache, ip[p])
    /\ ip' = Set(ip, p, nxt[p])
    /\ nxt' = Set(nxt, p, 0)
    /\ elems' = Set(elems, p, Tail(elems[p]))
    /\ Goto(p, "walk")
    /\ UNCHANGED <<diskVars, holder, fileVars, cwd, kind, io, leaked, kept, calls>>

\* nameiparent() of a path without elements.
NamexNoParent(p) ==
    /\ pc[p] = "walk" /\ elems[p] = <<>> /\ kind[p] \in WantsParent
    /\ Goto(p, "fail")
    /\ UNCHANGED <<diskVars, icache, holder, fileVars, cwd, walkVars, ip, nxt, io, leaked, kept, calls>>

\* namei() has the inode of the path in ip.
Named(p, k) == pc[p] = "walk" /\ elems[p] = <<>> /\ kind[p] = k

\* The end of a call: iput(ip), end_op().
PutAndReturn(p) ==
    /\ pc[p] \in {"fail", "put"} /\ IcacheUsable
    /\ icache' = iput(icache, ip[p])
    /\ ip' = Set(ip, p, 0)
    /\ elems' = Set(elems, p, <<>>)
    /\ kind' = Set(kind, p, "none")
    /\ Goto(p, "user")
    /\ UNCHANGED <<diskVars, holder, fileVars, cwd, nxt, io, leaked, kept, calls>>

\* The end of a call that returns with end_op() only, or without it.
Returns(p) ==
    /\ ip' = Set(ip, p, 0)
    /\ elems' = Set(elems, p, <<>>)
    /\ kind' = Set(kind, p, "none")
    /\ Goto(p, "user")

-----------------------------------------------------------------------------
(* create()                                                                *)

NewType == [creat |-> "file", mkdir |-> "dir", mknod |-> "dev"]

\* Bug: dp stays locked while ilock(find) is waited for.
Bug_KeepsParentLocked(p) ==
    /\ pc[p] = "parent" /\ Free(ip[p]) /\ IcacheUsable
    /\ LET found == dirlookup(icache[ip[p]].inum, elems[p][1]) IN
         /\ found # {}
         /\ CanGet(icache, Min(found))
         /\ iget(p, icache, Min(found), "exists")
         /\ ip' = Set(ip, p, Entry(icache, Min(found)))
    /\ leaked' = [leaked EXCEPT ![ip[p]] = @ + 1]
    /\ holder' = Set(holder, ip[p], p)
    /\ UNCHANGED <<diskVars, fileVars, cwd, walkVars, nxt, io, kept, calls>>

\* ilock(dp) and dirlookup() finds the name: iunlock(dp), and the reference to
\* dp is forgotten.
CreateFound(p) ==
    /\ pc[p] = "parent" /\ Free(ip[p]) /\ IcacheUsable
    /\ LET found == dirlookup(icache[ip[p]].inum, elems[p][1]) IN
         /\ found # {}
         /\ iget(p, icache, Min(found), "exists")
         /\ IF CanGet(icache, Min(found))
              THEN /\ ip' = Set(ip, p, Entry(icache, Min(found)))
                   /\ leaked' = [leaked EXCEPT ![ip[p]] = @ + 1]
                   /\ holder' = holder
              ELSE /\ holder' = Set(holder, ip[p], p)
                   /\ UNCHANGED <<ip, leaked>>
    /\ UNCHANGED <<diskVars, fileVars, cwd, walkVars, nxt, io, kept, calls>>

\* ilock(find): a file is what openat() wants; otherwise iunlock(find), its
\* reference is forgotten too, and the call fails.
CreateExists(p) ==
    /\ pc[p] = "exists" /\ Free(ip[p])
    /\ icache' = Loaded(ip[p])
    /\ IF kind[p] = "creat"
         THEN /\ holder' = Set(holder, ip[p], p)
              /\ Goto(p, "locked")
              /\ UNCHANGED <<walkVars, ip, leaked>>
         ELSE /\ leaked' = [leaked EXCEPT ![ip[p]] = @ + 1]
              /\ Returns(p)
              /\ UNCHANGED holder
    /\ UNCHANGED <<diskVars, fileVars, cwd, nxt, io, kept, calls>>

\* Bug: dp is unlocked before the new entry is in it.
Bug_UnlocksParent(p) ==
    /\ pc[p] = "parent" /\ Free(ip[p])
    /\ dirlookup(icache[ip[p]].inum, elems[p][1]) = {}
    /\ \E i \in Inums :
         /\ i = Min({j \in Inums : dinode[j].type = "free"})
         /\ dinode' = Set(dinode, i, [type |-> NewType[kind[p]], nlink |-> 0, size |-> 0])
         /\ nxt' = Set(nxt, p, i)
    /\ Goto(p, "new")
    /\ UNCHANGED <<ents, icache, holder, fileVars, cwd, walkVars, ip, io, leaked, kept, calls>>

\* The name is free: with dp locked, ialloc() marks the first free inode.
CreateAlloc(p) ==
    /\ pc[p] = "parent" /\ Free(ip[p])
    /\ dirlookup(icache[ip[p]].inum, elems[p][1]) = {}
    /\ holder' = Set(holder, ip[p], p)
    /\ LET free == {i \in Inums : dinode[i].type = "free"} IN
         IF free = {}
           THEN Goto(p, "halt") /\ UNCHANGED <<dinode, nxt>>
           ELSE /\ dinode' = Set(dinode, Min(free), [type |-> NewType[kind[p]], nlink |-> 0, size |-> 0])
                /\ nxt' = Set(nxt, p, Min(free))
                /\ Goto(p, "new")
    /\ UNCHANGED <<ents, icache, fileVars, cwd, walkVars, ip, io, leaked, kept, calls>>

\* ialloc() ends with iget() of the number found, kept in nxt until now.
CreateGet(p) ==
    /\ pc[p] = "new" /\ IcacheUsable
    /\ iget(p, icache, nxt[p], "link")
    /\ nxt' = Set(nxt, p, Entry(icache, nxt[p]))
    /\ UNCHANGED <<diskVars, holder, fileVars, cwd, walkVars, ip, io, leaked, kept, calls>>

\* dirlink(): nothing is written if the name is there already.
dirlink(es, name, i) == IF \E e \in es : e[1] = name THEN es ELSE es \cup {<<name, i>>}

\* Bug: the first link is not counted.
Bug_NoLinkCounted(s) == Loaded(s)

\* ilock(ind) and ind->nlink = 1.
FirstLink(s) == [Loaded(s) EXCEPT ![s].nlink = 1]

\* FirstLink, iupdate(ind), the entries, iunlock(dp).
CreateLink(p) ==
    /\ pc[p] = "link" /\ Free(nxt[p])
    /\ LET isdir == kind[p] = "mkdir"
           ind == FirstLink(nxt[p])
           all == IF isdir THEN [ind EXCEPT ![ip[p]].nlink = @ + 1] ELSE ind
           i   == icache[nxt[p]].inum
           d   == icache[ip[p]].inum
           own == IF isdir THEN dirlink(dirlink(ents[i], ".", i), "..", d) ELSE ents[i]
       IN  /\ icache' = all
           /\ dinode' = [Updated(all, nxt[p]) EXCEPT ![d] = Updated(all, ip[p])[d]]
           /\ ents' = [ents EXCEPT ![i] = own, ![d] = dirlink(@, elems[p][1], i)]
    /\ holder' = [holder EXCEPT ![ip[p]] = None, ![nxt[p]] = p]
    /\ Goto(p, "linked")
    /\ UNCHANGED <<fileVars, cwd, walkVars, ip, nxt, io, leaked, kept, calls>>

\* iput(dp); mkdirat() and mknodat() go on with iunlockput(ind).
CreatePut(p) ==
    /\ pc[p] = "linked" /\ IcacheUsable
    /\ icache' = iput(icache, ip[p])
    /\ ip' = Set(ip, p, nxt[p])
    /\ nxt' = Set(nxt, p, 0)
    /\ IF kind[p] = "creat" THEN Goto(p, "locked") /\ holder' = holder
                            ELSE Goto(p, "put") /\ holder' = Set(holder, nxt[p], None)
    /\ UNCHANGED <<diskVars, fileVars, cwd, walkVars, io, leaked, kept, calls>>

-----------------------------------------------------------------------------
(* openat(), fstatat(), chdir(), execve()                                  *)

\* ilock(ip) without O_CREAT: a directory is opened for reading only.
OpenLock(p) ==
    /\ Named(p, "open") \/ Named(p, "openw")
    /\ Free(ip[p])
    /\ icache' = Loaded(ip[p])
    /\ IF kind[p] = "openw" /\ icache'[ip[p]].type = "dir"
         THEN Goto(p, "fail") /\ holder' = holder
         ELSE Goto(p, "locked") /\ holder' = Set(holder, ip[p], p)
    /\ UNCHANGED <<diskVars, fileVars, cwd, walkVars, ip, nxt, io, leaked, kept, calls>>

FreeFiles  == {f \in Files : ftable[f].ref = 0}
FreeFds(p) == {d \in Fds : ofile[p][d] = 0}

\* filealloc(), fdalloc(), iunlock(ip): the file takes the reference over.
OpenFile(p) ==
    /\ pc[p] = "locked" /\ FreeFiles # {} /\ FreeFds(p) # {}
    /\ ftable' = Set(ftable, Min(FreeFiles), [ref |-> 1, type |-> "inode", ip |-> ip[p], off |-> 0])
    /\ ofile' = [ofile EXCEPT ![p][Min(FreeFds(p))] = Min(FreeFiles)]
    /\ holder' = Set(holder, ip[p], None)
    /\ Returns(p)
    /\ UNCHANGED <<diskVars, icache, cwd, nxt, io, leaked, kept, calls>>

\* No file or no descriptor: fileclose(), iunlockput(ip).
OpenNoFile(p) ==
    /\ pc[p] = "locked" /\ (FreeFiles = {} \/ FreeFds(p) = {})
    /\ holder' = Set(holder, ip[p], None)
    /\ Goto(p, "fail")
    /\ UNCHANGED <<diskVars, icache, fileVars, cwd, walkVars, ip, nxt, io, leaked, kept, calls>>

\* ilock(ip), stati(), iunlock(ip).
Stat(p) ==
    /\ Named(p, "stat") /\ Free(ip[p])
    /\ icache' = Loaded(ip[p])
    /\ Goto(p, "put")
    /\ UNCHANGED <<diskVars, holder, fileVars, cwd, walkVars, ip, nxt, io, leaked, kept, calls>>

\* ilock(ip), the test for a directory, iunlock(ip).
ChdirLook(p) ==
    /\ Named(p, "chdir") /\ Free(ip[p])
    /\ icache' = Loaded(ip[p])
    /\ Goto(p, IF icache'[ip[p]].type = "dir" THEN "chdir" ELSE "fail")
    /\ UNCHANGED <<diskVars, holder, fileVars, cwd, walkVars, ip, nxt, io, leaked, kept, calls>>

\* Bug: the old directory is not put.
Bug_ChdirKeepsOld(p) ==
    /\ pc[p] = "chdir" /\ IcacheUsable
    /\ cwd' = Set(cwd, p, ip[p])
    /\ Returns(p)
    /\ UNCHANGED <<diskVars, icache, holder, fileVars, nxt, io, leaked, kept, calls>>

\* iput(curproc->cwd); curproc->cwd = ip.
ChdirPut(p) ==
    /\ pc[p] = "chdir" /\ IcacheUsable
    /\ icache' = iput(icache, cwd[p])
    /\ cwd' = Set(cwd, p, ip[p])
    /\ Returns(p)
    /\ UNCHANGED <<diskVars, holder, fileVars, nxt, io, leaked, kept, calls>>

\* ilock(ip), the program is read, iunlock(ip).  No type is tested: the bytes of a
\* directory or from a device may pass for a program, an empty file may not.
ExecLoad(p) ==
    /\ Named(p, "exec") /\ Free(ip[p])
    /\ icache' = Loaded(ip[p])
    /\ icache'[ip[p]].type = "file" => icache'[ip[p]].size > 0
    /\ Goto(p, "put")
    /\ UNCHANGED <<diskVars, holder, fileVars, cwd, walkVars, ip, nxt, io, leaked, kept, calls>>

\* It cannot be read or is too large: return -1 with ip locked and referenced.
ExecFails(p) ==
    /\ Named(p, "exec") /\ Free(ip[p])
    /\ icache' = Loaded(ip[p])
    /\ holder' = Set(holder, ip[p], p)
    /\ kept' = kept \cup {ip[p]}
    /\ leaked' = [leaked EXCEPT ![ip[p]] = @ + 1]
    /\ Returns(p)
    /\ UNCHANGED <<diskVars, fileVars, cwd, nxt, io, calls>>

-----------------------------------------------------------------------------
(* Open files                                                              *)

\* fdalloc(f), filedup(f).
Dup(p, d) ==
    /\ pc[p] = "user" /\ calls < MaxCalls
    /\ ofile[p][d] # 0 /\ FreeFds(p) # {}
    /\ ofile' = [ofile EXCEPT ![p][Min(FreeFds(p))] = ofile[p][d]]
    /\ ftable' = [ftable EXCEPT ![ofile[p][d]].ref = @ + 1]
    /\ calls' = calls + 1
    /\ UNCHANGED <<diskVars, icache, holder, cwd, pc, walkVars, ip, nxt, io, leaked, kept>>

\* fileclose() of descriptor d.  The type is FD_NONE when it is tested, so the
\* reference to the inode is never dropped.
fileclose(p, d) ==
    LET f == ofile[p][d] IN
    /\ ofile' = [ofile EXCEPT ![p][d] = 0]
    /\ ftable' = [ftable EXCEPT ![f].ref = @ - 1, ![f].type = IF ftable[f].ref = 1 THEN "none" ELSE @]
    /\ leaked' = IF ftable[f].ref = 1 THEN [leaked EXCEPT ![ftable[f].ip] = @ + 1] ELSE leaked

Close(p, d) ==
    /\ pc[p] = "user" /\ ofile[p][d] # 0
    /\ fileclose(p, d)
    /\ UNCHANGED <<diskVars, icache, holder, cwd, pc, walkVars, ip, nxt, io, kept, calls>>

\* read() or write() of n on descriptor d: fileread() or filewrite() starts.
\* Programs are assumed not to read or write directories, which the code allows.
IoStart(p, d, n, k) ==
    /\ pc[p] = "user" /\ calls < MaxCalls
    /\ ofile[p][d] # 0 /\ (icache[ftable[ofile[p][d]].ip].type = "dir" => k = "read")
    /\ io' = Set(io, p, [file |-> ofile[p][d], n |-> n, fin |-> 0])
    /\ kind' = Set(kind, p, k)
    /\ calls' = calls + 1
    /\ Goto(p, "io")
    /\ UNCHANGED <<diskVars, icache, holder, fileVars, cwd, elems, ip, nxt, leaked, kept>>

File(p)  == ftable[io[p].file]
Inode(p) == icache[File(p).ip]

IoEnds(p) ==
    /\ io' = Set(io, p, NoIo)
    /\ kind' = Set(kind, p, "none")
    /\ Goto(p, "user")

\* ilock(), readi(), off += rdn, iunlock().
FileRead(p) ==
    /\ pc[p] = "io" /\ kind[p] = "read" /\ Inode(p).type = "file" /\ Free(File(p).ip)
    /\ ftable' = [ftable EXCEPT ![io[p].file].off = @ + Min({io[p].n, Inode(p).size - @})]
    /\ IoEnds(p)
    /\ UNCHANGED <<diskVars, icache, holder, ofile, cwd, elems, ip, nxt, leaked, kept, calls>>

\* The same for a directory, whose length in blocks is left open.
DirRead(p) ==
    /\ pc[p] = "io" /\ Inode(p).type = "dir" /\ Free(File(p).ip)
    /\ \E r \in 0..io[p].n : ftable' = [ftable EXCEPT ![io[p].file].off = @ + r]
    /\ IoEnds(p)
    /\ UNCHANGED <<diskVars, icache, holder, ofile, cwd, elems, ip, nxt, leaked, kept, calls>>

\* The length of one writei(): all, or LIM each time.
Chunk(p) == IF io[p].n > LIM THEN LIM ELSE io[p].n

\* fin += cur; off += cur; once more while fin < n.
Wrote(p, k) ==
    /\ ftable' = [ftable EXCEPT ![io[p].file].off = @ + k]
    /\ IF io[p].fin + k < io[p].n
         THEN io' = [io EXCEPT ![p].fin = @ + k] /\ Goto(p, "io") /\ kind' = kind
         ELSE IoEnds(p)

\* One turn of filewrite(): ilock(), writei(), iupdate(), iunlock().
FileWrite(p) ==
    /\ pc[p] = "io" /\ kind[p] = "write" /\ Inode(p).type = "file" /\ Free(File(p).ip)
    /\ File(p).off <= Inode(p).size /\ File(p).off + Chunk(p) <= MAXFILE
    /\ icache' = [icache EXCEPT ![File(p).ip].size = Max({@, File(p).off + Chunk(p)})]
    /\ dinode' = Updated(icache', File(p).ip)
    /\ Wrote(p, Chunk(p))
    /\ UNCHANGED <<ents, holder, ofile, cwd, elems, ip, nxt, leaked, kept, calls>>

\* writei() returns -1, for a file that is too large or a device that has no
\* driver: filewrite() leaves the loop with the inode locked.
WriteFails(p) ==
    /\ pc[p] = "io" /\ kind[p] = "write" /\ Free(File(p).ip)
    /\ Inode(p).type \in {"file", "dev"}
    /\ \/ Inode(p).type = "dev"
       \/ File(p).off > Inode(p).size \/ File(p).off + Chunk(p) > MAXFILE
    /\ holder' = Set(holder, File(p).ip, p)
    /\ kept' = kept \cup {File(p).ip}
    /\ IoEnds(p)
    /\ UNCHANGED <<diskVars, icache, fileVars, cwd, elems, ip, nxt, leaked, calls>>

\* A device: console_read() and console_write() start with iunlock(ip).
DevEnter(p) ==
    /\ pc[p] = "io" /\ Inode(p).type = "dev" /\ Free(File(p).ip)
    /\ Goto(p, "dev")
    /\ UNCHANGED <<diskVars, icache, holder, fileVars, cwd, walkVars, ip, nxt, io, leaked, kept, calls>>

\* readi() returns -1, as no driver has the device's major number.
DevRefused(p) ==
    /\ pc[p] = "io" /\ kind[p] = "read" /\ Inode(p).type = "dev" /\ Free(File(p).ip)
    /\ IoEnds(p)
    /\ UNCHANGED <<diskVars, icache, holder, fileVars, cwd, elems, ip, nxt, leaked, kept, calls>>

\* They end with ilock(ip); a read may return less than it was asked for.
DevRead(p) ==
    /\ pc[p] = "dev" /\ kind[p] = "read" /\ Free(File(p).ip)
    /\ \E r \in 0..io[p].n : ftable' = [ftable EXCEPT ![io[p].file].off = @ + r]
    /\ IoEnds(p)
    /\ UNCHANGED <<diskVars, icache, holder, ofile, cwd, elems, ip, nxt, leaked, kept, calls>>

DevWrite(p) ==
    /\ pc[p] = "dev" /\ kind[p] = "write" /\ Free(File(p).ip)
    /\ Wrote(p, Chunk(p))
    /\ UNCHANGED <<diskVars, icache, holder, ofile, cwd, elems, ip, nxt, leaked, kept, calls>>

-----------------------------------------------------------------------------
(* fork() and exit()                                                       *)

\* filedup() of every descriptor and idup() of the directory.
Fork(p, q) ==
    /\ pc[p] = "user" /\ pc[q] = "unused" /\ IcacheUsable
    /\ ofile' = Set(ofile, q, ofile[p])
    /\ ftable' = [f \in Files |->
         [ftable[f] EXCEPT !.ref = @ + Cardinality({d \in Fds : ofile[p][d] = f})]]
    /\ icache' = idup(icache, cwd[p])
    /\ cwd' = Set(cwd, q, cwd[p])
    /\ Goto(q, "user")
    /\ UNCHANGED <<diskVars, holder, walkVars, ip, nxt, io, leaked, kept, calls>>

ExitStart(p) ==
    /\ pc[p] = "user" /\ p # initproc
    /\ Goto(p, "exit")
    /\ UNCHANGED <<diskVars, icache, holder, fileVars, cwd, walkVars, ip, nxt, io, leaked, kept, calls>>

\* fileclose() of the first open descriptor.
ExitClose(p) ==
    /\ pc[p] = "exit" /\ FreeFds(p) # Fds
    /\ fileclose(p, Min(Fds \ FreeFds(p)))
    /\ UNCHANGED <<diskVars, icache, holder, cwd, pc, walkVars, ip, nxt, io, kept, calls>>

\* iput(p->cwd); p->cwd = 0.
ExitPut(p) ==
    /\ pc[p] = "exit" /\ FreeFds(p) = Fds /\ IcacheUsable
    /\ icache' = iput(icache, cwd[p])
    /\ cwd' = Set(cwd, p, 0)
    /\ Goto(p, "unused")
    /\ UNCHANGED <<diskVars, holder, fileVars, walkVars, ip, nxt, io, leaked, kept, calls>>

-----------------------------------------------------------------------------
NamexNext(p)  == NamexLook(p) \/ NamexParent(p) \/ NamexStep(p) \/ NamexNoParent(p)
CreateNext(p) == CreateFound(p) \/ CreateExists(p) \/ CreateAlloc(p) \/ CreateGet(p)
                 \/ CreateLink(p) \/ CreatePut(p)
PathNext(p)   == OpenLock(p) \/ OpenFile(p) \/ OpenNoFile(p) \/ Stat(p) \/ ChdirLook(p)
                 \/ ChdirPut(p) \/ ExecLoad(p) \/ ExecFails(p) \/ PutAndReturn(p)
FileNext(p)   == FileRead(p) \/ DirRead(p) \/ FileWrite(p) \/ WriteFails(p) \/ DevEnter(p)
                 \/ DevRefused(p) \/ DevRead(p) \/ DevWrite(p)

Next ==
    \E p \in Procs :
        \/ \E c \in Calls : NamexStart(p, c)
        \/ NamexNext(p) \/ CreateNext(p) \/ PathNext(p) \/ FileNext(p)
        \/ \E d \in Fds : Dup(p, d) \/ Close(p, d)
        \/ \E d \in Fds, n \in Lengths, k \in {"read", "write"} : IoStart(p, d, n, k)
        \/ \E q \in Procs : Fork(p, q)
        \/ ExitStart(p) \/ ExitClose(p) \/ ExitPut(p)

Spec == Init /\ [][Next]_vars

-----------------------------------------------------------------------------
Types  == {"free", "dir", "file", "dev"}
Points == {"user", "unused", "walk", "step", "parent", "exists", "new", "link",
           "linked", "locked", "chdir", "put", "fail", "io", "dev", "exit", "panic", "halt"}

\* Every table keeps its shape, and no reference count goes below zero.
TypeOK ==
    /\ dinode \in [Inums -> [type : Types, nlink : Nat, size : 0..MAXFILE]]
    /\ \A i \in Inums : ents[i] \subseteq Elems \X Inums
    /\ icache \in [Slots -> [inum : Inums \cup {0}, ref : Nat, valid : BOOLEAN,
                             type : Types, nlink : Nat, size : 0..MAXFILE]]
    /\ holder \in [Slots -> Procs \cup {None}]
    /\ ftable \in [Files -> [ref : Nat, type : {"none", "inode"}, ip : Slots \cup {0}, off : Nat]]
    /\ ofile \in [Procs -> [Fds -> Files \cup {0}]]
    /\ cwd \in [Procs -> Slots \cup {0}] /\ pc \in [Procs -> Points]
    /\ ip \in [Procs -> Slots \cup {0}]
    /\ leaked \in [Slots -> Nat] /\ kept \subseteq Slots

\* The pointers to entry s: current directories, open files and the variables
\* of the calls under way.
Pointers(s) ==
    Cardinality({p \in Procs : cwd[p] = s})
    + Cardinality({f \in Files : ftable[f].type = "inode" /\ ftable[f].ip = s})
    + Cardinality({p \in Procs : ip[p] = s})
    + Cardinality({p \in Procs : pc[p] # "new" /\ nxt[p] = s})

\* ref of an inode is the number of pointers to it, and of the references lost
\* in fileclose(), create() and execve(); ref of an open file is the number of
\* descriptors that stand for it: nothing is recycled under a pointer.
RefExact ==
    /\ TypeOK
    /\ \A s \in Slots : icache[s].ref = Pointers(s) + leaked[s]
    /\ \A f \in Files :
          /\ ftable[f].ref = Cardinality({x \in Procs \X Fds : ofile[x[1]][x[2]] = f})
          /\ ftable[f].ref > 0 <=> ftable[f].type = "inode"

\* The offset of a file, shared by those who inherited it, is never beyond the
\* end: neither a read nor a write fails for it.
OffWithinSize ==
    \A f \in Files : ftable[f].type = "inode" /\ icache[ftable[f].ip].type = "file"
        => ftable[f].off <= icache[ftable[f].ip].size

\* An inode has one entry in the cache, what a valid entry says of it is what
\* the disk says ("i-node cache is write-through"), and no open file stands
\* beyond the end it says.
CacheCoherent ==
    /\ \A s \in Slots : icache[s].ref > 0 =>
         /\ \A t \in Slots : icache[t].ref > 0 /\ icache[t].inum = icache[s].inum => s = t
         /\ icache[s].valid => dinode[icache[s].inum] =
               [type |-> icache[s].type, nlink |-> icache[s].nlink, size |-> icache[s].size]
    /\ OffWithinSize

\* The directories and the inodes agree: names are unique in a directory,
\* every entry stands for an allocated inode, and nlink is the number of
\* entries other than "." that stand for it.
TreeSound ==
    /\ \A i \in Inums : \A e, g \in ents[i] : e[1] = g[1] => e = g
    /\ \A i \in Inums : \A e \in ents[i] : dinode[e[2]].type # "free"
    /\ \A i \in Inums : dinode[i].nlink =
          Cardinality({x \in Inums \X (Names \cup {".."}) : <<x[2], i>> \in ents[x[1]]})

\* iput() never meets the last reference to a valid inode without links: the
\* code that frees an inode is not reached, since nothing removes a link.
IputNeverFrees ==
    \A p \in Procs : pc[p] \in {"step", "put", "fail", "linked", "chdir", "exit"} =>
        \A s \in {ip[p], cwd[p]} \ {0} : icache[s].valid => icache[s].nlink > 0

\* Nobody waits for an inode while he holds another, but for one that only he
\* knows: the locks of inodes are not waited for in a circle.
HolderRuns ==
    \A s \in Slots \ kept : holder[s] # None =>
        LET p == holder[s] IN
        /\ pc[p] \in {"new", "link", "linked", "locked", "panic", "halt"}
        /\ pc[p] = "link" => holder[nxt[p]] = None /\ icache[nxt[p]].ref = 1
=============================================================================
