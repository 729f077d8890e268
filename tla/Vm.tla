--------------------------------- MODULE Vm ---------------------------------
(***************************************************************************)
(* Memory: the page allocator (kern/kalloc.c), user page tables            *)
(* (kern/vm.c), and the calls that build and drop them: fork(), execve(),  *)
(* brk(), exit() and the cleanproc() of wait().                            *)
(*                                                                         *)
(* A step goes from one use of kmemcslock to the next.  An address space   *)
(* is its page directory, one table for each region of PerTable pages (the *)
(* three levels below the directory count as one page) and the page mapped *)
(* at each user page.  Sizes are in pages; 0 is the null page.  The        *)
(* contents of pages are left out.  Which CPU runs a process is Proc's     *)
(* matter; ttbr0 is the table the process runs on.                         *)
(***************************************************************************)
EXTENDS Integers, Sequences, FiniteSets

CONSTANTS NPROC,     \* slots of the process table
          NBoot,     \* processes made by user_init()
          NPAGE,     \* pages given to the allocator by free_range()
          MaxV,      \* bound: user pages an address space can have
          PerTable,  \* user pages under one table
          Programs   \* executables: sequences of segments [end, odd]

ASSUME VmAssumption == /\ NPROC \in Nat /\ NBoot \in 1..NPROC /\ NPAGE \in Nat /\ 4 * NBoot <= NPAGE
                       /\ MaxV \in Nat \ {0} /\ PerTable \in Nat \ {0}

\* A segment of an executable is not empty and ends at a page, one page further if
\* it does not start at one; with the two pages of the stack it fits a space.
Segments == {s \in [end : 1..MaxV, odd : BOOLEAN] : (IF s.odd THEN s.end + 1 ELSE s.end) + 2 <= MaxV}

ASSUME ProgramsAssumption == MaxV >= 2 /\ Programs \subseteq Seq(Segments)

Procs   == 1..NPROC
Pages   == 1..NPAGE
VPages  == 0..(MaxV - 1)
Regions == 0..((MaxV - 1) \div PerTable)

VARIABLES
    free,      \* kmem.free_list
    kmemheld,  \* kmemcslock has been left locked
    state,     \* the process: unused, embryo, user, kernel, zombie, freeing or stopped
    kstack, pgdir, sz, \* fields of struct proc; pgdir stands for the whole address space
    ttbr0,     \* the directory the process runs, or last ran, on
    pc,        \* where a process in the kernel is
    new,       \* the address space it builds
    old,       \* the address space it frees
    hand,      \* the page it has from kalloc() and has not mapped yet
    a, lim,    \* the loop of uvm_alloc() or uvm_copy()
    segs,      \* execve(): segments to load
    target     \* fork(): the child; wait(): the process that is cleaned

kmemVars == <<free, kmemheld>>
jobVars  == <<pc, new, old, hand, a, lim, segs, target>>
vars     == <<free, kmemheld, state, kstack, pgdir, sz, ttbr0, pc, new, old, hand, a, lim, segs, target>>

NoSpace == [dir |-> 0, table |-> [t \in Regions |-> 0], leaf |-> [v \in VPages |-> 0]]

RegionOf(v) == v \div PerTable

TablesOf(s) == ({s.dir} \cup {s.table[t] : t \in Regions}) \ {0}

\* After user_init(): a stack, a directory, the page of initcode and its table
\* for each boot process, taken from the front of the list.
BootPage(p, i) == NPAGE - 4 * (p - 1) - i

BootSpace(p) == [NoSpace EXCEPT !.dir = BootPage(p, 1), !.leaf[0] = BootPage(p, 2), !.table[0] = BootPage(p, 3)]

Init ==
    /\ free = [i \in 1..(NPAGE - 4 * NBoot) |-> NPAGE - 4 * NBoot - i + 1]
    /\ kmemheld = FALSE
    /\ state  = [p \in Procs |-> IF p <= NBoot THEN "user" ELSE "unused"]
    /\ kstack = [p \in Procs |-> IF p <= NBoot THEN BootPage(p, 0) ELSE 0]
    /\ pgdir  = [p \in Procs |-> IF p <= NBoot THEN BootSpace(p) ELSE NoSpace]
    /\ sz     = [p \in Procs |-> IF p <= NBoot THEN 1 ELSE 0]
    /\ ttbr0  = [p \in Procs |-> IF p <= NBoot THEN BootPage(p, 1) ELSE 0]
    /\ pc     = [p \in Procs |-> "out"]
    /\ new = [p \in Procs |-> NoSpace] /\ old = [p \in Procs |-> NoSpace]
    /\ hand = [p \in Procs |-> 0] /\ a = [p \in Procs |-> 0] /\ lim = [p \in Procs |-> 0]
    /\ segs = [p \in Procs |-> <<>>] /\ target = [p \in Procs |-> 0]

\* ptablelock: only cleanproc() holds it over uses of kmemcslock.
PtableFree == \A q \in Procs : pc[q] # "wait_free"

Goto(p, l) == pc' = [pc EXCEPT ![p] = l]

\* A system call of a process in user mode, and its return.
Enter(p, l)  == state[p] = "user" /\ state' = [state EXCEPT ![p] = "kernel"] /\ Goto(p, l)
Leave(p, st) ==
    /\ state' = [state EXCEPT ![p] = st] /\ Goto(p, "out")
    /\ a' = [a EXCEPT ![p] = 0] /\ lim' = [lim EXCEPT ![p] = 0] /\ segs' = [segs EXCEPT ![p] = <<>>]
Return(p)    == Leave(p, "user")
Stop(p)      == Leave(p, "stopped")

-----------------------------------------------------------------------------
(* kalloc.c                                                                *)

\* kalloc() takes the first page of the list.
kalloc == ~kmemheld /\ free # <<>> /\ free' = Tail(free) /\ UNCHANGED kmemheld

\* With the list empty it returns 0 and does not release kmemcslock: every later
\* kalloc() and kfree() spins or panics.
kallocFails == ~kmemheld /\ free = <<>> /\ kmemheld' = TRUE /\ UNCHANGED free

\* The caller's use of kalloc(): K gets the page, Null is what it does without one.
WithPage(K(_), Null) == (kalloc /\ K(Head(free))) \/ (kallocFails /\ Null)

kfree(pg) == ~kmemheld /\ free' = <<pg>> \o free /\ UNCHANGED kmemheld

-----------------------------------------------------------------------------
(* map_region() with its pgdir_walk(), one page, in the space p works on.  *)

InPlace(p) == pc[p] \in {"brk_alloc", "brk_map"}
Space(p)   == IF InPlace(p) THEN pgdir[p] ELSE new[p]
SetSpace(p, s) == IF InPlace(p) THEN pgdir' = [pgdir EXCEPT ![p] = s] /\ UNCHANGED new
                                ELSE new' = [new EXCEPT ![p] = s] /\ UNCHANGED pgdir

Mapped(s, p, tab) == [s EXCEPT !.leaf[a[p]] = hand[p], !.table[RegionOf(a[p])] = tab]

\* The page is mapped unless there is one already; then map_region() returns -1
\* and nobody has the new page any more.  A missing table comes from kalloc();
\* pgdir_walk() does not look at a null result and writes through it: what the
\* process does then is not modelled (it stops).
MapPage(p, next, Taken) ==
    LET s == Space(p)  t == s.table[RegionOf(a[p])] IN
    /\ hand' = [hand EXCEPT ![p] = 0]
    /\ \/ /\ s.leaf[a[p]] # 0
          /\ Taken
          /\ UNCHANGED <<pgdir, kmemVars>>
       \/ /\ s.leaf[a[p]] = 0 /\ t # 0
          /\ SetSpace(p, Mapped(s, p, t))
          /\ a' = [a EXCEPT ![p] = @ + 1] /\ Goto(p, next)
          /\ UNCHANGED <<state, lim, segs, kmemVars>>
       \/ /\ s.leaf[a[p]] = 0 /\ t = 0
          /\ WithPage(LAMBDA pg : SetSpace(p, Mapped(s, p, pg)) /\ a' = [a EXCEPT ![p] = @ + 1]
                                  /\ Goto(p, next) /\ UNCHANGED <<state, lim, segs>>,
                      Stop(p) /\ UNCHANGED <<new, pgdir>>)

-----------------------------------------------------------------------------
(* fork()                                                                  *)

\* proc_alloc(): a slot and a kernel stack; without them fork() panics.
ForkAlloc(p) ==
    /\ PtableFree
    /\ LET slots == {q \in Procs : state[q] = "unused"}
           q == CHOOSE x \in slots : \A y \in slots : x <= y
       IN IF slots = {} THEN state[p] = "user" /\ Stop(p) /\ UNCHANGED <<kmemVars, kstack, target>>
          ELSE /\ state[p] = "user"
               /\ WithPage(LAMBDA pg : /\ state' = [state EXCEPT ![p] = "kernel", ![q] = "embryo"]
                                       /\ kstack' = [kstack EXCEPT ![q] = pg]
                                       /\ target' = [target EXCEPT ![p] = q]
                                       /\ Goto(p, "copy_dir") /\ UNCHANGED <<a, lim, segs>>,
                           Stop(p) /\ UNCHANGED <<kstack, target>>)
    /\ UNCHANGED <<pgdir, sz, ttbr0, new, old, hand>>

\* uvm_copy(): the new directory.
CopyDir(p) ==
    /\ pc[p] = "copy_dir"
    /\ WithPage(LAMBDA pg : /\ new' = [new EXCEPT ![p] = [NoSpace EXCEPT !.dir = pg]]
                            /\ a' = [a EXCEPT ![p] = 0] /\ lim' = [lim EXCEPT ![p] = sz[p]]
                            /\ Goto(p, "copy") /\ UNCHANGED <<state, segs>>,
                Stop(p) /\ UNCHANGED new)
    /\ UNCHANGED <<kstack, pgdir, sz, ttbr0, old, hand, target>>

\* Bug: the child maps the page of its parent.
Bug_CopyShares(p) ==
    /\ pc[p] = "copy" /\ a[p] < lim[p]
    /\ hand' = [hand EXCEPT ![p] = pgdir[p].leaf[a[p]]] /\ Goto(p, "copy_map") /\ UNCHANGED state
    /\ UNCHANGED <<kmemVars, kstack, pgdir, sz, ttbr0, new, old, a, lim, segs, target>>

\* A page of the parent below sz that is not mapped makes uvm_copy() return 0,
\* and fork() panic.
CopyPage(p) ==
    /\ pc[p] = "copy" /\ a[p] < lim[p]
    /\ IF pgdir[p].leaf[a[p]] = 0 THEN Stop(p) /\ UNCHANGED <<kmemVars, hand>>
       ELSE WithPage(LAMBDA pg : hand' = [hand EXCEPT ![p] = pg] /\ Goto(p, "copy_map")
                                 /\ UNCHANGED <<state, a, lim, segs>>,
                     Stop(p) /\ UNCHANGED hand)
    /\ UNCHANGED <<kstack, pgdir, sz, ttbr0, new, old, target>>

CopyMap(p) ==
    /\ pc[p] = "copy_map"
    /\ MapPage(p, "copy", Stop(p) /\ UNCHANGED new)
    /\ UNCHANGED <<kstack, sz, ttbr0, old, target>>

\* The child gets the space and its size, and is dispatched (uvm_switch()).
ForkDone(p) ==
    /\ PtableFree
    /\ pc[p] = "copy" /\ a[p] >= lim[p]
    /\ LET q == target[p] IN
         /\ pgdir' = [pgdir EXCEPT ![q] = new[p]]
         /\ sz' = [sz EXCEPT ![q] = sz[p]]
         /\ ttbr0' = [ttbr0 EXCEPT ![q] = new[p].dir]
         /\ state' = [state EXCEPT ![p] = "user", ![q] = "user"]
    /\ Goto(p, "out")
    /\ new' = [new EXCEPT ![p] = NoSpace] /\ target' = [target EXCEPT ![p] = 0]
    /\ a' = [a EXCEPT ![p] = 0] /\ lim' = [lim EXCEPT ![p] = 0]
    /\ UNCHANGED <<kmemVars, kstack, old, hand, segs>>

-----------------------------------------------------------------------------
(* execve()                                                                *)

ExecDir(p, prog) ==
    /\ state[p] = "user"
    /\ WithPage(LAMBDA pg : /\ state' = [state EXCEPT ![p] = "kernel"]
                            /\ new' = [new EXCEPT ![p] = [NoSpace EXCEPT !.dir = pg]]
                            /\ segs' = [segs EXCEPT ![p] = prog]
                            /\ a' = [a EXCEPT ![p] = 0] /\ lim' = [lim EXCEPT ![p] = 0]
                            /\ Goto(p, "exec_seg"),
                UNCHANGED <<state, new, segs, a, lim, pc>>)
    /\ UNCHANGED <<kstack, pgdir, sz, ttbr0, old, hand, target>>

\* "return(-1)" of execve(): the new space is not given back.
ExecFailed(p) == Return(p) /\ new' = [new EXCEPT ![p] = NoSpace]

\* A header or a segment cannot be read.
ExecReadFails(p) ==
    /\ pc[p] = "exec_seg"
    /\ ExecFailed(p)
    /\ UNCHANGED <<kmemVars, kstack, pgdir, sz, ttbr0, old, hand, target>>

\* The next segment, up to its end, one page more if it does not start at a page.
\* lim is sz: it becomes the end of the segment even if it was larger before.
ExecSeg(p) ==
    /\ pc[p] = "exec_seg" /\ segs[p] # <<>>
    /\ LET s == Head(segs[p]) IN
         /\ a' = [a EXCEPT ![p] = IF lim[p] < s.end THEN lim[p] ELSE s.end]
         /\ lim' = [lim EXCEPT ![p] = IF s.odd THEN s.end + 1 ELSE s.end]
    /\ segs' = [segs EXCEPT ![p] = Tail(@)]
    /\ Goto(p, "exec_alloc")
    /\ UNCHANGED <<kmemVars, state, kstack, pgdir, sz, ttbr0, new, old, hand, target>>

\* The two pages of the stack come last.
ExecStack(p) ==
    /\ pc[p] = "exec_seg" /\ segs[p] = <<>>
    /\ a' = [a EXCEPT ![p] = lim[p]]
    /\ lim' = [lim EXCEPT ![p] = @ + 2]
    /\ Goto(p, "stack_alloc")
    /\ UNCHANGED <<kmemVars, state, kstack, pgdir, sz, ttbr0, new, old, hand, segs, target>>

\* uvm_alloc() of execve(): one page at a time, -1 without one.
ExecAlloc(p) ==
    /\ pc[p] \in {"exec_alloc", "stack_alloc"} /\ a[p] < lim[p]
    /\ WithPage(LAMBDA pg : /\ hand' = [hand EXCEPT ![p] = pg]
                            /\ Goto(p, IF pc[p] = "exec_alloc" THEN "exec_map" ELSE "stack_map")
                            /\ UNCHANGED <<state, new, a, lim, segs>>,
                ExecFailed(p) /\ UNCHANGED hand)
    /\ UNCHANGED <<kstack, pgdir, sz, ttbr0, old, target>>

ExecMap(p) ==
    /\ pc[p] \in {"exec_map", "stack_map"}
    /\ MapPage(p, IF pc[p] = "exec_map" THEN "exec_alloc" ELSE "stack_alloc", ExecFailed(p))
    /\ UNCHANGED <<kstack, sz, ttbr0, old, target>>

ExecSegDone(p) ==
    /\ pc[p] = "exec_alloc" /\ a[p] >= lim[p]
    /\ Goto(p, "exec_seg")
    /\ UNCHANGED <<kmemVars, state, kstack, pgdir, sz, ttbr0, new, old, hand, a, lim, segs, target>>

\* Bug: the old space is freed before the process is switched to the new one.
Bug_FreeThenSwitch(p) ==
    /\ pc[p] = "stack_alloc" /\ a[p] >= lim[p]
    /\ sz' = [sz EXCEPT ![p] = lim[p]]
    /\ pgdir' = [pgdir EXCEPT ![p] = new[p]]
    /\ old' = [old EXCEPT ![p] = pgdir[p]]
    /\ new' = [new EXCEPT ![p] = NoSpace]
    /\ Goto(p, "exec_free")
    /\ UNCHANGED <<kmemVars, state, kstack, ttbr0, hand, a, lim, segs, target>>

\* proc->sz, proc->pgdir, uvm_switch(), then vm_free() of the old space.
ExecSwitch(p) ==
    /\ pc[p] = "stack_alloc" /\ a[p] >= lim[p]
    /\ sz' = [sz EXCEPT ![p] = lim[p]]
    /\ pgdir' = [pgdir EXCEPT ![p] = new[p]]
    /\ ttbr0' = [ttbr0 EXCEPT ![p] = new[p].dir]
    /\ old' = [old EXCEPT ![p] = pgdir[p]]
    /\ new' = [new EXCEPT ![p] = NoSpace]
    /\ Goto(p, "exec_free")
    /\ UNCHANGED <<kmemVars, state, kstack, hand, a, lim, segs, target>>

-----------------------------------------------------------------------------
(* vm_free() and its callers.                                              *)

\* Bug: only the directory is freed.
Bug_FreeDirOnly(p) ==
    /\ old[p] # NoSpace
    /\ kfree(old[p].dir)
    /\ old' = [old EXCEPT ![p] = NoSpace]

\* vm_free_dfs(): the tables from the bottom up, the directory last.  The entries
\* of the last level are cleared and their pages are not freed.
FreeOne(p) ==
    /\ old[p] # NoSpace
    /\ LET regions == {t \in Regions : old[p].table[t] # 0} IN
       IF regions # {}
       THEN LET t == CHOOSE x \in regions : \A y \in regions : x <= y IN
            /\ kfree(old[p].table[t])
            /\ old' = [old EXCEPT ![p].table[t] = 0,
                                  ![p].leaf = [v \in VPages |-> IF RegionOf(v) = t THEN 0 ELSE @[v]]]
       ELSE kfree(old[p].dir) /\ old' = [old EXCEPT ![p] = NoSpace]

VmFree(p) ==
    /\ pc[p] \in {"exec_free", "wait_free"}
    /\ FreeOne(p)
    /\ UNCHANGED <<state, kstack, pgdir, sz, ttbr0, pc, new, hand, a, lim, segs, target>>

ExecDone(p) ==
    /\ pc[p] = "exec_free" /\ old[p] = NoSpace
    /\ Return(p)
    /\ UNCHANGED <<kmemVars, kstack, pgdir, sz, ttbr0, new, old, hand, target>>

\* exit(): the process leaves its CPU for good.  Nothing takes its directory from
\* that CPU: ttbr0 keeps it, freed by wait() or not, until the next dispatch there.
Exit(p) ==
    /\ PtableFree /\ state[p] = "user" /\ p # 1
    /\ state' = [state EXCEPT ![p] = "zombie"]
    /\ UNCHANGED <<kmemVars, kstack, pgdir, sz, ttbr0, jobVars>>

\* wait(): cleanproc() of a zombie (whose child it is, is Proc's matter).
\* kstack is set to 0 and not freed.
WaitClean(p, q) ==
    /\ PtableFree /\ state[q] = "zombie"
    /\ state[p] = "user"
    /\ state' = [state EXCEPT ![p] = "kernel", ![q] = "freeing"] /\ Goto(p, "wait_free")
    /\ kstack' = [kstack EXCEPT ![q] = 0]
    /\ sz' = [sz EXCEPT ![q] = 0]
    /\ old' = [old EXCEPT ![p] = pgdir[q]] /\ pgdir' = [pgdir EXCEPT ![q] = NoSpace]
    /\ target' = [target EXCEPT ![p] = q]
    /\ UNCHANGED <<kmemVars, ttbr0, new, hand, a, lim, segs>>

WaitDone(p) ==
    /\ pc[p] = "wait_free" /\ old[p] = NoSpace
    /\ state' = [state EXCEPT ![p] = "user", ![target[p]] = "unused"] /\ Goto(p, "out")
    /\ target' = [target EXCEPT ![p] = 0]
    /\ UNCHANGED <<kmemVars, kstack, pgdir, sz, ttbr0, new, old, hand, a, lim, segs>>

-----------------------------------------------------------------------------
(* sys_brk()                                                               *)

\* uvm_alloc() from sz to sz + n, for negative n too.  A sum below 0 is a huge
\* unsigned number; MaxV + 1 stands for it and for every sum above MaxV.
BrkEnter(p, n) ==
    /\ Enter(p, "brk_alloc")
    /\ a' = [a EXCEPT ![p] = sz[p]]
    /\ lim' = [lim EXCEPT ![p] = IF sz[p] + n \in 0..MaxV THEN sz[p] + n ELSE MaxV + 1]
    /\ UNCHANGED <<kmemVars, kstack, pgdir, sz, ttbr0, new, old, hand, segs, target>>

\* Bound: a call that goes on beyond MaxV is not followed further.
BrkAlloc(p) ==
    /\ pc[p] = "brk_alloc" /\ a[p] < lim[p] /\ a[p] < MaxV
    /\ WithPage(LAMBDA pg : hand' = [hand EXCEPT ![p] = pg] /\ Goto(p, "brk_map")
                            /\ UNCHANGED <<state, a, lim, segs>>,
                Return(p) /\ UNCHANGED hand)
    /\ UNCHANGED <<kstack, pgdir, sz, ttbr0, new, old, target>>

BrkMap(p) ==
    /\ pc[p] = "brk_map"
    /\ MapPage(p, "brk_alloc", Return(p) /\ UNCHANGED new)
    /\ UNCHANGED <<kstack, sz, ttbr0, old, target>>

\* Bug: the size is set although the pages were not all mapped.
Bug_BrkSize(p) ==
    /\ pc[p] = "brk_alloc"
    /\ sz' = [sz EXCEPT ![p] = lim[p]]
    /\ Return(p)
    /\ UNCHANGED <<kmemVars, kstack, pgdir, ttbr0, new, old, hand, target>>

\* "if (cursz = uvm_alloc(..) == 0)": cursz is the result of the comparison, so a
\* call that succeeds sets sz to 0; a result of 0 is taken for a failure.  Then
\* lttbr0() of the directory.
BrkDone(p) ==
    /\ pc[p] = "brk_alloc" /\ a[p] >= lim[p]
    /\ IF lim[p] = 0 THEN UNCHANGED <<sz, ttbr0>>
       ELSE sz' = [sz EXCEPT ![p] = 0] /\ ttbr0' = [ttbr0 EXCEPT ![p] = pgdir[p].dir]
    /\ Return(p)
    /\ UNCHANGED <<kmemVars, kstack, pgdir, new, old, hand, target>>

-----------------------------------------------------------------------------
\* syscall(): the calls that change memory.
SystemCall(p) ==
    \/ ForkAlloc(p)
    \/ \E prog \in Programs : ExecDir(p, prog)
    \/ \E n \in {-2, -1, 0, 1} : BrkEnter(p, n)
    \/ Exit(p)
    \/ \E q \in Procs : WaitClean(p, q)

InKernel(p) ==
    \/ CopyDir(p) \/ CopyPage(p) \/ CopyMap(p) \/ ForkDone(p)
    \/ ExecReadFails(p) \/ ExecSeg(p) \/ ExecStack(p) \/ ExecAlloc(p) \/ ExecMap(p) \/ ExecSegDone(p) \/ ExecSwitch(p)
    \/ VmFree(p) \/ ExecDone(p) \/ WaitDone(p)
    \/ BrkAlloc(p) \/ BrkMap(p) \/ BrkDone(p)

Next == \E p \in Procs : SystemCall(p) \/ InKernel(p)

Spec == Init /\ [][Next]_vars

-----------------------------------------------------------------------------
\* The free list, the spaces, sizes and process states keep their types.
TypeOK ==
    /\ free \in Seq(Pages) /\ kmemheld \in BOOLEAN
    /\ state \in [Procs -> {"unused", "embryo", "user", "kernel", "zombie", "freeing", "stopped"}]
    /\ \A p \in Procs : /\ {kstack[p], hand[p], pgdir[p].dir, new[p].dir, old[p].dir} \subseteq 0..NPAGE
                        /\ sz[p] \in 0..MaxV /\ target[p] \in 0..NPROC

\* Every place that refers to a page: the free list, stacks, and the directory,
\* the tables and the entries of each address space.
SpaceRefs(p, name, s) ==
    {<<s.dir, p, name, -1>>} \cup {<<s.table[t], p, name, MaxV + t>> : t \in Regions}
                             \cup {<<s.leaf[v], p, name, v>> : v \in VPages}

Refs ==
    {x \in {<<free[i], 0, "free", i>> : i \in DOMAIN free}
              \cup {<<kstack[p], p, "kstack", 0>> : p \in Procs} \cup {<<hand[p], p, "hand", 0>> : p \in Procs}
              \cup UNION {SpaceRefs(p, "pgdir", pgdir[p]) \cup SpaceRefs(p, "new", new[p])
                            \cup SpaceRefs(p, "old", old[p]) : p \in Procs} : x[1] # 0}

\* No page has two uses: none is on the free list twice or while it is in use
\* (kfree() could not tell), and no process shares a page with another, so
\* fork() gives the child memory of its own and vm_free() takes nobody else's.
PageOwnedOnce ==
    TypeOK /\ Cardinality(Refs) = Cardinality({x[1] : x \in Refs})

\* The directory a process runs on is its own, through fork(), execve() and the
\* cleaning of others, and is never freed under it.
RunsOnOwnTable ==
    \A p \in Procs : state[p] \in {"user", "kernel"} =>
        /\ ttbr0[p] = pgdir[p].dir
        /\ \A i \in DOMAIN free : free[i] # ttbr0[p]

\* The size of argptr() is an int: 2^31 bytes, half of its numbers, are IntPages pages.
IntPages   == 524288
ToInt(len) == ((len + IntPages) % (2 * IntPages)) - IntPages

\* argptr(), and fetchint() and fetchstr() for a length of one: the range ends below sz.
argptr(p, first, len) == first < sz[p] /\ first + ToInt(len) \in 0..sz[p]

\* What these accept the kernel reads and writes without another look, and what
\* lies below sz uvm_copy() expects to be mapped ("return 0" makes fork() panic).
\* A length that is no int is not what argptr() looks at.
ArgumentMapped ==
    \A p \in Procs : state[p] = "user" =>
        \A u \in VPages, len \in 1..MaxV : len < IntPages /\ argptr(p, u, len) =>
            \A w \in u..(u + len - 1) : pgdir[p].leaf[w] # 0 /\ pgdir[p].table[RegionOf(w)] # 0

\* Pages nobody refers to any more.
Lost == Pages \ {x[1] : x \in Refs}

\* vm_free() gives back every table of a space it frees: in a step that is not
\* a failing execve(), no table is lost.
TablesReturned ==
    [][LET tables == UNION {TablesOf(pgdir[p]) \cup TablesOf(old[p]) : p \in Procs}
       IN tables \cap Lost' = {}]_vars
=============================================================================
