------------------------------ MODULE VmProofs ------------------------------
(***************************************************************************)
(* Proofs about memory: PageOwnedOnce, RunsOnOwnTable, ArgumentMapped and  *)
(* TablesReturned hold for any number of processes and pages, any size of  *)
(* the address space and of a table, and any executables that fit it.      *)
(*                                                                         *)
(* A page is at a place: an entry of the free list, a kernel stack, the    *)
(* hand of a process, or the directory, a table or an entry of an address  *)
(* space.  The argument is that every step moves pages between places and  *)
(* copies none: a page found at a place after a step was at one place      *)
(* before it, and at a different one for each place (Relabel).             *)
(***************************************************************************)
EXTENDS Vm, FiniteSetTheorems, WellFoundedInduction, TLAPS

Spaces == [dir : 0..NPAGE, table : [Regions -> 0..NPAGE], leaf : [VPages -> 0..NPAGE]]

NewPoints    == {"copy", "copy_map", "exec_seg", "exec_alloc", "exec_map", "stack_alloc", "stack_map"}
MapPoints    == {"copy_map", "exec_map", "stack_map", "brk_map"}
FreePoints   == {"exec_free", "wait_free"}
ForkPoints   == {"copy_dir", "copy", "copy_map"}
TargetPoints == ForkPoints \cup {"wait_free"}
Points       == NewPoints \cup FreePoints \cup {"out", "copy_dir", "brk_alloc", "brk_map"}

\* The states of a process that has an address space.
Living == {"user", "kernel", "zombie", "stopped"}

\* The pages of a space, under the numbers SpaceRefs gives them.
Offsets  == {-1} \cup VPages \cup {MaxV + t : t \in Regions}
At(s, j) == IF j = -1 THEN s.dir ELSE IF j \in VPages THEN s.leaf[j] ELSE s.table[j - MaxV]

\* The places a page can be at, whether they hold one or not.
FreePlaces == {0} \X {"free"} \X (Nat \ {0})
OwnPlaces  == (Procs \X {"kstack", "hand"} \X {0}) \cup (Procs \X {"pgdir", "new", "old"} \X Offsets)
Places     == FreePlaces \cup OwnPlaces

\* The first entry of the list, and the entry after another.
First    == <<0, "free", 1>>
After(x) == <<0, "free", x[3] + 1>>

\* The page at each place, 0 for none.
Page ==
    [x \in Places |->
        IF x[2] = "free" THEN (IF x[3] \in DOMAIN free THEN free[x[3]] ELSE 0)
        ELSE IF x[2] = "kstack" THEN kstack[x[1]]
        ELSE IF x[2] = "hand" THEN hand[x[1]]
        ELSE IF x[2] = "pgdir" THEN At(pgdir[x[1]], x[3])
        ELSE IF x[2] = "new" THEN At(new[x[1]], x[3])
        ELSE At(old[x[1]], x[3])]

\* No page is at two places.
Unique == \A x, y \in Places : Page[x] # 0 /\ Page[x] = Page[y] => x = y

Typed ==
    /\ free \in Seq(Pages) /\ kmemheld \in BOOLEAN
    /\ state \in [Procs -> {"unused", "embryo", "user", "kernel", "zombie", "freeing", "stopped"}]
    /\ kstack \in [Procs -> 0..NPAGE] /\ hand \in [Procs -> 0..NPAGE] /\ ttbr0 \in [Procs -> 0..NPAGE]
    /\ pgdir \in [Procs -> Spaces] /\ new \in [Procs -> Spaces] /\ old \in [Procs -> Spaces]
    /\ sz \in [Procs -> 0..MaxV] /\ a \in [Procs -> 0..MaxV] /\ lim \in [Procs -> 0..(MaxV + 1)]
    /\ pc \in [Procs -> Points] /\ segs \in [Procs -> Seq(Segments)] /\ target \in [Procs -> 0..NPROC]

\* A process in one of these calls is in the kernel; between kalloc() and
\* map_region() it has a page for an address inside the space.
Working(p) ==
    /\ pc[p] # "out" => state[p] = "kernel"
    /\ pc[p] \in MapPoints => hand[p] # 0 /\ a[p] < lim[p] /\ a[p] < MaxV
    /\ pc[p] \in {"exec_seg", "exec_alloc", "exec_map"} => lim[p] + 2 <= MaxV
    /\ pc[p] \in {"stack_alloc", "stack_map"} => lim[p] <= MaxV

\* Which processes have a space, build one or free one.
Rooted(p) ==
    /\ state[p] \in Living => pgdir[p].dir # 0
    /\ state[p] \notin Living => pgdir[p] = NoSpace /\ sz[p] = 0
    /\ pc[p] \in NewPoints => new[p].dir # 0
    /\ old[p] # NoSpace => old[p].dir # 0 /\ pc[p] \in FreePoints
    /\ state[p] \in {"user", "kernel"} => ttbr0[p] = pgdir[p].dir

MappedBelow(s, n) == \A v \in VPages : v < n => s.leaf[v] # 0 /\ s.table[RegionOf(v)] # 0

\* A space is mapped below the size of its process, one that is built as far as
\* the loop that builds it has come.
Backed(p) ==
    /\ MappedBelow(pgdir[p], sz[p])
    /\ pc[p] \in {"copy", "copy_map"} => lim[p] = sz[p]
    /\ pc[p] \in NewPoints \ {"exec_seg"} => MappedBelow(new[p], a[p])
    /\ pc[p] = "exec_seg" => MappedBelow(new[p], lim[p])

\* fork() builds an embryo and wait() frees a slot, each its own.
Targets ==
    /\ \A p \in Procs : pc[p] \in ForkPoints => target[p] \in Procs /\ state[target[p]] = "embryo"
    /\ \A p \in Procs : pc[p] = "wait_free" => target[p] \in Procs /\ state[target[p]] = "freeing"
    /\ \A p, q \in Procs : pc[p] \in TargetPoints /\ pc[q] \in TargetPoints /\ target[p] = target[q] => p = q

IInv == /\ Typed /\ Unique /\ Targets
        /\ \A p \in Procs : Working(p) /\ Rooted(p) /\ Backed(p)
-----------------------------------------------------------------------------
(* Places and pages.                                                       *)

\* What a place is, and that the list shares none with the processes.
LEMMA PlaceKinds ==
    /\ OwnPlaces \subseteq Places /\ FreePlaces \subseteq Places /\ OwnPlaces \cap FreePlaces = {}
    /\ \A x \in Places : x \in OwnPlaces \/ x \in FreePlaces
    /\ \A p \in Procs : <<p, "kstack", 0>> \in OwnPlaces /\ <<p, "hand", 0>> \in OwnPlaces
    /\ \A p \in Procs, k \in {"pgdir", "new", "old"}, j \in Offsets : <<p, k, j>> \in OwnPlaces
<1>1. OwnPlaces \cap FreePlaces = {}
  BY DEF FreePlaces, OwnPlaces
<1>2. /\ \A p \in Procs : <<p, "kstack", 0>> \in OwnPlaces /\ <<p, "hand", 0>> \in OwnPlaces
      /\ \A p \in Procs, k \in {"pgdir", "new", "old"}, j \in Offsets : <<p, k, j>> \in OwnPlaces
  BY DEF OwnPlaces
<1> QED
  BY <1>1, <1>2 DEF Places

LEMMA OwnKinds ==
    ASSUME NEW x \in OwnPlaces
    PROVE  \/ \E p \in Procs : x = <<p, "kstack", 0>> \/ x = <<p, "hand", 0>>
           \/ \E p \in Procs, j \in Offsets : x = <<p, "pgdir", j>> \/ x = <<p, "new", j>> \/ x = <<p, "old", j>>
  BY DEF OwnPlaces

\* The list is a first entry and the ones after it.
LEMMA FreeKinds ==
    /\ First \in FreePlaces
    /\ \A x \in FreePlaces : After(x) \in FreePlaces /\ After(x) # First
    /\ \A x, y \in FreePlaces : After(x) = After(y) => x = y
    /\ \A x \in FreePlaces : x = First \/ \E y \in FreePlaces : x = After(y)
<1>1. First \in FreePlaces
  BY DEF First, FreePlaces
<1>2. \A x \in FreePlaces : After(x) \in FreePlaces /\ After(x) # First
  BY DEF First, After, FreePlaces
<1>3. \A x, y \in FreePlaces : After(x) = After(y) => x = y
  BY DEF After, FreePlaces
<1>4. ASSUME NEW x \in FreePlaces, x # First PROVE \E y \in FreePlaces : x = After(y)
  <2>1. PICK i \in Nat \ {0} : x = <<0, "free", i>>
    BY DEF FreePlaces
  <2>2. i - 1 \in Nat \ {0} /\ i = (i - 1) + 1
    BY <1>4, <2>1 DEF First
  <2>3. <<0, "free", i - 1>> \in FreePlaces /\ After(<<0, "free", i - 1>>) = x
    BY <2>1, <2>2 DEF FreePlaces, After
  <2> QED
    BY <2>3
<1> QED
  BY <1>1, <1>2, <1>3, <1>4

\* What is at a place, before and after a step.
Laid ==
    /\ \A x \in FreePlaces : Page[x] = IF x[3] \in DOMAIN free THEN free[x[3]] ELSE 0
    /\ \A p \in Procs : Page[<<p, "kstack", 0>>] = kstack[p] /\ Page[<<p, "hand", 0>>] = hand[p]
    /\ \A p \in Procs, j \in Offsets : /\ Page[<<p, "pgdir", j>>] = At(pgdir[p], j)
                                       /\ Page[<<p, "new", j>>] = At(new[p], j)
                                       /\ Page[<<p, "old", j>>] = At(old[p], j)

LEMMA PageOf == Laid
<1>1. \A x \in FreePlaces : Page[x] = IF x[3] \in DOMAIN free THEN free[x[3]] ELSE 0
  BY DEF Page, FreePlaces, Places
<1>2. \A p \in Procs : Page[<<p, "kstack", 0>>] = kstack[p] /\ Page[<<p, "hand", 0>>] = hand[p]
  BY PlaceKinds DEF Page
<1>3. ASSUME NEW p \in Procs, NEW j \in Offsets
      PROVE  /\ Page[<<p, "pgdir", j>>] = At(pgdir[p], j)
             /\ Page[<<p, "new", j>>] = At(new[p], j)
             /\ Page[<<p, "old", j>>] = At(old[p], j)
  <2>1. <<p, "pgdir", j>> \in Places /\ <<p, "new", j>> \in Places /\ <<p, "old", j>> \in Places
    BY PlaceKinds
  <2> QED
    BY <2>1 DEF Page
<1> QED
  BY <1>1, <1>2, <1>3 DEF Laid

LEMMA PageOfNext == Laid'
  BY PageOf, PTL

\* Pages that move, each to a place of its own, stay unique.
LEMMA Relabel ==
    ASSUME NEW F \in [Places -> Places], Unique,
           \A x \in Places : Page'[x] # 0 => Page'[x] = Page[F[x]],
           \A x, y \in Places : Page'[x] # 0 /\ Page'[y] # 0 /\ F[x] = F[y] => x = y
    PROVE  Unique'
  BY DEF Unique

\* kalloc() shortens the list, kfree() puts a page before it.
LEMMA ListTaken ==
    ASSUME free \in Seq(Pages), free # <<>>, free' = Tail(free)
    PROVE  /\ Head(free) \in Pages /\ Page[First] = Head(free) /\ free' \in Seq(Pages)
           /\ \A x \in FreePlaces : Page'[x] = Page[After(x)]
<1>1. /\ Head(free) = free[1] /\ 1 \in DOMAIN free /\ free[1] \in Pages /\ free' \in Seq(Pages)
      /\ DOMAIN free = 1..Len(free) /\ Len(free) \in Nat /\ Len(free') = Len(free) - 1
      /\ DOMAIN free' = 1..Len(free') /\ \A i \in 1..Len(free') : free'[i] = free[i + 1]
  OBVIOUS
<1>2. \A i \in Nat \ {0} : i \in DOMAIN free' <=> i + 1 \in DOMAIN free
  BY <1>1
<1>3. \A x \in FreePlaces : x[3] \in Nat \ {0} /\ After(x)[3] = x[3] + 1
  BY DEF FreePlaces, After
<1>4. First[3] = 1
  BY DEF First
<1>5. Page[First] = free[1]
  BY <1>1, <1>4, FreeKinds, PageOf DEF Laid
<1>6. ASSUME NEW x \in FreePlaces PROVE Page'[x] = Page[After(x)]
  <2>1. /\ Page'[x] = IF x[3] \in DOMAIN free' THEN free'[x[3]] ELSE 0
        /\ Page[After(x)] = IF x[3] + 1 \in DOMAIN free THEN free[x[3] + 1] ELSE 0
    BY <1>3, FreeKinds, PageOf, PageOfNext DEF Laid
  <2>2. x[3] \in DOMAIN free' => free'[x[3]] = free[x[3] + 1]
    BY <1>1
  <2> QED
    BY <1>2, <1>3, <2>1, <2>2
<1> QED
  BY <1>1, <1>5, <1>6

LEMMA ListGiven ==
    ASSUME free \in Seq(Pages), NEW pg \in Pages, free' = <<pg>> \o free
    PROVE  /\ free' \in Seq(Pages) /\ Page'[First] = pg
           /\ \A x \in FreePlaces : Page'[After(x)] = Page[x]
<1>1. /\ free' \in Seq(Pages) /\ Len(free) \in Nat /\ Len(free') = Len(free) + 1
      /\ DOMAIN free = 1..Len(free) /\ DOMAIN free' = 1..Len(free')
      /\ free'[1] = pg /\ \A i \in 1..Len(free) : free'[i + 1] = free[i]
  OBVIOUS
<1>2. 1 \in DOMAIN free' /\ \A i \in Nat \ {0} : i + 1 \in DOMAIN free' <=> i \in DOMAIN free
  BY <1>1
<1>3. \A x \in FreePlaces : x[3] \in Nat \ {0} /\ After(x)[3] = x[3] + 1
  BY DEF FreePlaces, After
<1>4. First[3] = 1
  BY DEF First
<1>5. Page'[First] = pg
  BY <1>1, <1>2, <1>4, FreeKinds, PageOfNext DEF Laid
<1>6. ASSUME NEW x \in FreePlaces PROVE Page'[After(x)] = Page[x]
  <2>1. /\ Page[x] = IF x[3] \in DOMAIN free THEN free[x[3]] ELSE 0
        /\ Page'[After(x)] = IF x[3] + 1 \in DOMAIN free' THEN free'[x[3] + 1] ELSE 0
    BY <1>3, FreeKinds, PageOf, PageOfNext DEF Laid
  <2>2. x[3] \in DOMAIN free => free'[x[3] + 1] = free[x[3]]
    BY <1>1
  <2> QED
    BY <1>2, <1>3, <2>1, <2>2
<1> QED
  BY <1>1, <1>5, <1>6

LEMMA ListKept ==
    ASSUME free' = free
    PROVE  \A x \in FreePlaces : Page'[x] = Page[x]
  BY PageOf, PageOfNext DEF Laid

\* The pages at the places G names are where they were, or lost.
Moves(G, S) ==
    /\ G \in [OwnPlaces -> OwnPlaces]
    /\ \A x \in S : Page'[x] # 0 => Page'[x] = Page[G[x]]
    /\ \A x, y \in S : Page'[x] # 0 /\ Page'[y] # 0 /\ G[x] = G[y] => x = y

\* A step that leaves the free list alone.
LEMMA KeepUnique ==
    ASSUME Unique, free' = free, NEW G, Moves(G, OwnPlaces)
    PROVE  Unique'
<1> DEFINE F == [x \in Places |-> IF x \in OwnPlaces THEN G[x] ELSE x]
<1>1. F \in [Places -> Places]
  BY PlaceKinds DEF Moves
<1>2. \A x \in Places : Page'[x] # 0 => Page'[x] = Page[F[x]]
  BY PlaceKinds, ListKept DEF Moves
<1>3. ASSUME NEW x \in Places, NEW y \in Places, Page'[x] # 0, Page'[y] # 0, F[x] = F[y]
      PROVE  x = y
  BY <1>3, PlaceKinds DEF Moves
<1> HIDE DEF F
<1> QED
  BY <1>1, <1>2, <1>3, Relabel

\* A step that takes a page from the list and puts it at d.
LEMMA TakeUnique ==
    ASSUME Unique, free \in Seq(Pages), free # <<>>, free' = Tail(free),
           NEW d \in OwnPlaces, Page'[d] = Head(free), NEW G, Moves(G, OwnPlaces \ {d})
    PROVE  Unique'
<1> DEFINE F == [x \in Places |-> IF x = d THEN First ELSE IF x \in OwnPlaces THEN G[x] ELSE After(x)]
<1>1. \A x \in FreePlaces : F[x] = After(x)
  BY PlaceKinds
<1>2. F[d] = First /\ \A x \in OwnPlaces \ {d} : F[x] = G[x] /\ F[x] \in OwnPlaces
  BY PlaceKinds DEF Moves
<1>3. F \in [Places -> Places]
  BY <1>1, <1>2, PlaceKinds, FreeKinds
<1> HIDE DEF F
<1>4. ASSUME NEW x \in Places, Page'[x] # 0 PROVE Page'[x] = Page[F[x]]
  <2>1. CASE x = d
    BY <1>2, <2>1, ListTaken
  <2>2. CASE x \in OwnPlaces \ {d}
    BY <1>2, <1>4, <2>2 DEF Moves
  <2>3. CASE x \in FreePlaces
    BY <1>1, <2>3, ListTaken
  <2> QED
    BY <2>1, <2>2, <2>3, PlaceKinds
<1>5. ASSUME NEW x \in Places, NEW y \in Places, Page'[x] # 0, Page'[y] # 0, F[x] = F[y]
      PROVE  x = y
  <2>1. \A z \in FreePlaces : F[z] \in FreePlaces /\ F[z] # First
    BY <1>1, FreeKinds
  <2>2. CASE x \in FreePlaces /\ y \in FreePlaces
    BY <1>1, <1>5, <2>2, FreeKinds
  <2>3. CASE x \in OwnPlaces /\ y \in OwnPlaces
    BY <1>2, <1>5, <2>3, FreeKinds, PlaceKinds DEF Moves
  <2>4. CASE x \in OwnPlaces /\ y \in FreePlaces
    BY <1>2, <1>5, <2>1, <2>4, PlaceKinds
  <2>5. CASE x \in FreePlaces /\ y \in OwnPlaces
    BY <1>2, <1>5, <2>1, <2>5, PlaceKinds
  <2> QED
    BY <2>2, <2>3, <2>4, <2>5, PlaceKinds
<1> QED
  BY <1>3, <1>4, <1>5, Relabel

\* A step that puts the page of g on the list and clears g.
LEMMA GiveUnique ==
    ASSUME Unique, free \in Seq(Pages), NEW g \in OwnPlaces, Page[g] \in Pages,
           free' = <<Page[g]>> \o free, Page'[g] = 0,
           \A x \in OwnPlaces : Page'[x] # 0 => Page'[x] = Page[x]
    PROVE  Unique'
<1> DEFINE Before(x) == CHOOSE y \in FreePlaces : x = After(y)
           F == [x \in Places |-> IF x \in OwnPlaces THEN x ELSE IF x = First THEN g ELSE Before(x)]
<1>1. F[First] = g
  BY PlaceKinds, FreeKinds
<1>2. ASSUME NEW x \in FreePlaces PROVE F[After(x)] = x
  <2>1. Before(After(x)) = x
    BY FreeKinds
  <2> QED
    BY <2>1, PlaceKinds, FreeKinds
<1>3. \A x \in OwnPlaces : F[x] = x
  BY PlaceKinds
<1>4. F \in [Places -> Places]
  <2>1. ASSUME NEW x \in Places PROVE F[x] \in Places
    <3> HIDE DEF F
    <3> QED
      BY <1>1, <1>2, <1>3, FreeKinds, PlaceKinds
  <2> HIDE DEF Before
  <2> QED
    BY <2>1
<1> HIDE DEF F
<1>5. ASSUME NEW x \in Places, Page'[x] # 0 PROVE Page'[x] = Page[F[x]]
  <2>1. CASE x \in OwnPlaces
    BY <1>3, <1>5, <2>1
  <2>2. CASE x \in FreePlaces
    BY <1>1, <1>2, <2>2, FreeKinds, ListGiven
  <2> QED
    BY <2>1, <2>2, PlaceKinds
<1>6. ASSUME NEW x \in Places, NEW y \in Places, Page'[x] # 0, Page'[y] # 0, F[x] = F[y]
      PROVE  x = y
  <2>1. \A z \in FreePlaces : F[z] = g \/ F[z] \in FreePlaces
    BY <1>1, <1>2, FreeKinds
  <2>2. \A z \in OwnPlaces : Page'[z] # 0 => F[z] # g /\ F[z] \in OwnPlaces
    BY <1>3
  <2>3. CASE x \in OwnPlaces /\ y \in OwnPlaces
    BY <1>3, <1>6, <2>3
  <2>4. CASE x \in OwnPlaces /\ y \in FreePlaces
    BY <1>6, <2>1, <2>2, <2>4, PlaceKinds
  <2>5. CASE x \in FreePlaces /\ y \in OwnPlaces
    BY <1>6, <2>1, <2>2, <2>5, PlaceKinds
  <2>6. CASE x \in FreePlaces /\ y \in FreePlaces
    BY <1>1, <1>2, <1>6, <2>6, FreeKinds, PlaceKinds
  <2> QED
    BY <2>3, <2>4, <2>5, <2>6, PlaceKinds
<1> QED
  BY <1>4, <1>5, <1>6, Relabel

(* Address spaces.                                                         *)

LEMMA RegionTyped ==
    /\ Regions \subseteq Nat /\ 0 \in Regions /\ VPages \subseteq Nat
    /\ \A v \in VPages : RegionOf(v) \in Regions
<1>1. ASSUME NEW u \in Nat, NEW v \in Nat, NEW n \in Nat \ {0}, u <= v
      PROVE  u \div n <= v \div n /\ u \div n \in Nat
  BY <1>1
<1>2. MaxV - 1 \in Nat /\ PerTable \in Nat \ {0}
  BY VmAssumption
<1>3. (MaxV - 1) \div PerTable \in Nat
  BY <1>1, <1>2
<1>4. ASSUME NEW v \in VPages PROVE RegionOf(v) \in Regions
  <2>1. v \in Nat /\ v <= MaxV - 1
    BY <1>2 DEF VPages
  <2>2. v \div PerTable <= (MaxV - 1) \div PerTable /\ v \div PerTable \in Nat
    BY <1>1, <1>2, <2>1
  <2> QED
    BY <1>3, <2>2 DEF RegionOf, Regions
<1> QED
  BY <1>2, <1>3, <1>4 DEF Regions, VPages

\* The offsets of the directory, the entries and the tables differ.
LEMMA OffsetKinds ==
    /\ -1 \in Offsets /\ -1 \notin VPages
    /\ \A v \in VPages : v \in Offsets /\ v # -1
    /\ \A t \in Regions : MaxV + t \in Offsets /\ MaxV + t # -1 /\ MaxV + t \notin VPages /\ (MaxV + t) - MaxV = t
    /\ \A j \in Offsets : j = -1 \/ j \in VPages \/ \E t \in Regions : j = MaxV + t
<1>1. MaxV \in Nat \ {0}
  BY VmAssumption
<1>2. \A v \in VPages : v \in Nat /\ v < MaxV
  BY <1>1 DEF VPages
<1>3. \A t \in Regions : t \in Nat
  BY RegionTyped
<1> QED
  BY <1>1, <1>2, <1>3 DEF Offsets

LEMMA AtOf ==
    ASSUME NEW s
    PROVE  /\ At(s, -1) = s.dir
           /\ \A v \in VPages : At(s, v) = s.leaf[v]
           /\ \A t \in Regions : At(s, MaxV + t) = s.table[t]
  BY OffsetKinds DEF At

LEMMA NoSpaceTyped == NoSpace \in Spaces /\ \A j \in Offsets : At(NoSpace, j) = 0
<1>0. 0 \in 0..NPAGE
  BY VmAssumption
<1>1. NoSpace \in Spaces
  BY <1>0 DEF NoSpace, Spaces
<1>2. NoSpace.dir = 0 /\ (\A v \in VPages : NoSpace.leaf[v] = 0) /\ (\A t \in Regions : NoSpace.table[t] = 0)
  BY DEF NoSpace
<1> QED
  BY <1>1, <1>2, AtOf, OffsetKinds

LEMMA PagesTyped == ASSUME NEW pg \in Pages PROVE pg \in 0..NPAGE /\ pg # 0
  BY VmAssumption DEF Pages

\* A space with a directory and nothing else.
LEMMA NewDirTyped ==
    ASSUME NEW pg \in Pages, NEW s, s = [NoSpace EXCEPT !.dir = pg]
    PROVE  /\ s \in Spaces /\ s.dir = pg /\ s.table = NoSpace.table /\ s.leaf = NoSpace.leaf
           /\ \A j \in Offsets : j # -1 => At(s, j) = 0
<1>1. s.dir = pg /\ s.table = NoSpace.table /\ s.leaf = NoSpace.leaf
  BY DEF NoSpace
<1>2. s \in Spaces
  BY PagesTyped, NoSpaceTyped DEF Spaces
<1>3. ASSUME NEW j \in Offsets, j # -1 PROVE At(s, j) = 0
  <2>1. At(s, j) = At(NoSpace, j)
    BY <1>1, <1>3 DEF At
  <2> QED
    BY <2>1, NoSpaceTyped
<1> QED
  BY <1>1, <1>2, <1>3

\* A space with one more page: m is s with page h at v and table t at r.
WithMapped(m, s, v, h, r, t) ==
    m.dir = s.dir /\ m.leaf = [s.leaf EXCEPT ![v] = h] /\ m.table = [s.table EXCEPT ![r] = t]

LEMMA MappedAt ==
    ASSUME NEW s \in Spaces, NEW v \in VPages, NEW h, NEW t, NEW r \in Regions,
           NEW m, WithMapped(m, s, v, h, r, t)
    PROVE  /\ v \in Offsets /\ MaxV + r \in Offsets /\ v # MaxV + r
           /\ At(m, v) = h /\ At(m, MaxV + r) = t
           /\ \A j \in Offsets : j # v /\ j # MaxV + r => At(m, j) = At(s, j)
<1>1. m.dir = s.dir /\ m.leaf = [s.leaf EXCEPT ![v] = h] /\ m.table = [s.table EXCEPT ![r] = t]
  BY DEF WithMapped
<1>3. v \in Offsets /\ MaxV + r \in Offsets /\ v # MaxV + r
  BY OffsetKinds
<1>4. s.leaf \in [VPages -> 0..NPAGE] /\ s.table \in [Regions -> 0..NPAGE]
  BY DEF Spaces
<1>5. At(m, v) = h /\ At(m, MaxV + r) = t
  <2>1. At(m, v) = m.leaf[v] /\ At(m, MaxV + r) = m.table[r]
    BY AtOf
  <2> QED
    BY <1>1, <1>4, <2>1
<1>6. ASSUME NEW j \in Offsets, j # v, j # MaxV + r PROVE At(m, j) = At(s, j)
  <2>1. CASE j = -1
    BY <1>1, <2>1 DEF At
  <2>2. CASE j \in VPages
    <3>1. At(m, j) = m.leaf[j] /\ At(s, j) = s.leaf[j]
      BY <2>2, AtOf
    <3> QED
      BY <1>1, <1>4, <1>6, <2>2, <3>1
  <2>3. CASE \E u \in Regions : j = MaxV + u
    <3> PICK u \in Regions : j = MaxV + u
      BY <2>3
    <3>1. At(m, j) = m.table[u] /\ At(s, j) = s.table[u]
      BY AtOf
    <3> QED
      BY <1>1, <1>4, <1>6, <3>1
  <2> QED
    BY <2>1, <2>2, <2>3, OffsetKinds
<1> QED
  BY <1>3, <1>5, <1>6

\* A space without one of its tables.
LEMMA ClearedTyped ==
    ASSUME NEW s \in Spaces, NEW r \in Regions, NEW m \in Spaces,
           m.dir = s.dir, m.table = [s.table EXCEPT ![r] = 0],
           m.leaf = [v \in VPages |-> IF RegionOf(v) = r THEN 0 ELSE s.leaf[v]]
    PROVE  /\ At(m, MaxV + r) = 0 /\ MaxV + r \in Offsets
           /\ \A j \in Offsets : At(m, j) # 0 => At(m, j) = At(s, j)
           /\ At(m, -1) = At(s, -1)
           /\ \A t \in Regions : t # r => At(m, MaxV + t) = At(s, MaxV + t)
<1>2. s.leaf \in [VPages -> 0..NPAGE] /\ s.table \in [Regions -> 0..NPAGE]
  BY DEF Spaces
<1>4. At(m, MaxV + r) = 0 /\ MaxV + r \in Offsets
  BY <1>2, AtOf, OffsetKinds
<1>5. At(m, -1) = At(s, -1)
  BY AtOf
<1>6. ASSUME NEW t \in Regions, t # r PROVE At(m, MaxV + t) = At(s, MaxV + t)
  <2>1. At(m, MaxV + t) = m.table[t] /\ At(s, MaxV + t) = s.table[t]
    BY AtOf
  <2> QED
    BY <1>2, <1>6, <2>1
<1>7. ASSUME NEW j \in Offsets, At(m, j) # 0 PROVE At(m, j) = At(s, j)
  <2>1. CASE j \in VPages
    <3>1. At(m, j) = m.leaf[j] /\ At(s, j) = s.leaf[j]
      BY <2>1, AtOf
    <3> QED
      BY <1>7, <2>1, <3>1
  <2> QED
    BY <1>4, <1>5, <1>6, <1>7, <2>1, OffsetKinds
<1> QED
  BY <1>4, <1>5, <1>6, <1>7

(* The ways in which the steps move pages.                                 *)

LEMMA StayMoves ==
    ASSUME NEW S \in SUBSET OwnPlaces, \A x \in S : Page'[x] # 0 => Page'[x] = Page[x]
    PROVE  Moves([x \in OwnPlaces |-> x], S)
  BY DEF Moves

\* A place outside D keeps its page or loses it.
LEMMA Stay ==
    ASSUME NEW D,
           \A p \in Procs : <<p, "kstack", 0>> \in D \/ kstack'[p] \in {0, kstack[p]},
           \A p \in Procs : <<p, "hand", 0>> \in D \/ hand'[p] \in {0, hand[p]},
           \A p \in Procs, j \in Offsets : <<p, "pgdir", j>> \in D \/ At(pgdir'[p], j) \in {0, At(pgdir[p], j)},
           \A p \in Procs, j \in Offsets : <<p, "new", j>> \in D \/ At(new'[p], j) \in {0, At(new[p], j)},
           \A p \in Procs, j \in Offsets : <<p, "old", j>> \in D \/ At(old'[p], j) \in {0, At(old[p], j)}
    PROVE  \A x \in OwnPlaces \ D : Page'[x] # 0 => Page'[x] = Page[x]
<1> SUFFICES ASSUME NEW x \in OwnPlaces, x \notin D PROVE Page'[x] \in {0, Page[x]}
  OBVIOUS
<1>1. ASSUME NEW p \in Procs, x = <<p, "kstack", 0>> PROVE Page'[x] \in {0, Page[x]}
  <2>1. Page'[x] = kstack'[p] /\ Page[x] = kstack[p]
    BY <1>1, PageOf, PageOfNext DEF Laid
  <2> QED
    BY <1>1, <2>1
<1>2. ASSUME NEW p \in Procs, x = <<p, "hand", 0>> PROVE Page'[x] \in {0, Page[x]}
  <2>1. Page'[x] = hand'[p] /\ Page[x] = hand[p]
    BY <1>2, PageOf, PageOfNext DEF Laid
  <2> QED
    BY <1>2, <2>1
<1>3. ASSUME NEW p \in Procs, NEW j \in Offsets, x = <<p, "pgdir", j>> PROVE Page'[x] \in {0, Page[x]}
  <2>1. Page'[x] = At(pgdir'[p], j) /\ Page[x] = At(pgdir[p], j)
    BY <1>3, PageOf, PageOfNext DEF Laid
  <2> QED
    BY <1>3, <2>1
<1>4. ASSUME NEW p \in Procs, NEW j \in Offsets, x = <<p, "new", j>> PROVE Page'[x] \in {0, Page[x]}
  <2>1. Page'[x] = At(new'[p], j) /\ Page[x] = At(new[p], j)
    BY <1>4, PageOf, PageOfNext DEF Laid
  <2> QED
    BY <1>4, <2>1
<1>5. ASSUME NEW p \in Procs, NEW j \in Offsets, x = <<p, "old", j>> PROVE Page'[x] \in {0, Page[x]}
  <2>1. Page'[x] = At(old'[p], j) /\ Page[x] = At(old[p], j)
    BY <1>5, PageOf, PageOfNext DEF Laid
  <2> QED
    BY <1>5, <2>1
<1> QED
  BY <1>1, <1>2, <1>3, <1>4, <1>5, OwnKinds

\* kalloc() for a page to be mapped (uvm_alloc(), uvm_copy()).
LEMMA TakeHand ==
    ASSUME Unique, Typed, NEW p \in Procs, free # <<>>, free' = Tail(free),
           hand' = [hand EXCEPT ![p] = Head(free)], UNCHANGED <<kstack, pgdir, new, old>>
    PROVE  Unique'
<1> DEFINE d == <<p, "hand", 0>>
<1>1. d \in OwnPlaces /\ Page'[d] = Head(free)
  BY PlaceKinds, PageOfNext DEF Laid, Typed
<1>2. \A q \in Procs : <<q, "hand", 0>> \in {d} \/ hand'[q] = hand[q]
  BY DEF Typed
<1> HIDE DEF d
<1>3. Moves([x \in OwnPlaces |-> x], OwnPlaces \ {d})
  BY <1>2, Stay, StayMoves
<1> QED
  BY <1>1, <1>3, TakeUnique DEF Typed

\* kalloc() for a kernel stack (proc_alloc()).
LEMMA TakeStack ==
    ASSUME Unique, Typed, NEW p \in Procs, free # <<>>, free' = Tail(free),
           kstack' = [kstack EXCEPT ![p] = Head(free)], UNCHANGED <<hand, pgdir, new, old>>
    PROVE  Unique'
<1> DEFINE d == <<p, "kstack", 0>>
<1>1. d \in OwnPlaces /\ Page'[d] = Head(free)
  BY PlaceKinds, PageOfNext DEF Laid, Typed
<1>2. \A q \in Procs : <<q, "kstack", 0>> \in {d} \/ kstack'[q] = kstack[q]
  BY DEF Typed
<1> HIDE DEF d
<1>3. Moves([x \in OwnPlaces |-> x], OwnPlaces \ {d})
  BY <1>2, Stay, StayMoves
<1> QED
  BY <1>1, <1>3, TakeUnique DEF Typed

\* kalloc() for a directory (pgdir_init()).
LEMMA TakeDir ==
    ASSUME Unique, Typed, NEW p \in Procs, free # <<>>, free' = Tail(free),
           new' = [new EXCEPT ![p] = [NoSpace EXCEPT !.dir = Head(free)]], UNCHANGED <<hand, pgdir, kstack, old>>
    PROVE  Unique'
<1> DEFINE d == <<p, "new", -1>>
<1>0. Head(free) \in Pages
  BY ListTaken DEF Typed
<1>1. new'[p] = [NoSpace EXCEPT !.dir = Head(free)] /\ \A q \in Procs : q # p => new'[q] = new[q]
  BY DEF Typed
<1>2. At(new'[p], -1) = Head(free) /\ \A j \in Offsets : j # -1 => At(new'[p], j) = 0
  BY <1>0, <1>1, NewDirTyped, AtOf
<1>3. d \in OwnPlaces /\ Page'[d] = Head(free)
  BY <1>2, PlaceKinds, PageOfNext, OffsetKinds DEF Laid
<1>4. ASSUME NEW q \in Procs, NEW j \in Offsets
      PROVE  <<q, "new", j>> \in {d} \/ At(new'[q], j) \in {0, At(new[q], j)}
  BY <1>1, <1>2
<1> HIDE DEF d
<1>5. Moves([x \in OwnPlaces |-> x], OwnPlaces \ {d})
  BY <1>4, Stay, StayMoves
<1> QED
  BY <1>3, <1>5, TakeUnique DEF Typed

\* Pages that are given up, not to the list: by a call that fails, by
\* cleanproc() of a kernel stack, by map_region() of an address in use.
LEMMA DropUnique ==
    ASSUME Unique, free' = free, UNCHANGED <<pgdir, old>>,
           \A q \in Procs : kstack'[q] \in {0, kstack[q]} /\ hand'[q] \in {0, hand[q]} /\ new'[q] \in {NoSpace, new[q]}
    PROVE  Unique'
<1>1. ASSUME NEW q \in Procs, NEW j \in Offsets PROVE At(new'[q], j) \in {0, At(new[q], j)}
  BY NoSpaceTyped
<1>2. Moves([x \in OwnPlaces |-> x], OwnPlaces)
  <2>1. \A x \in OwnPlaces \ {} : Page'[x] # 0 => Page'[x] = Page[x]
    BY <1>1, Stay
  <2> QED
    BY <2>1, StayMoves
<1> QED
  BY <1>2, KeepUnique

\* The page of h goes to l.
LEMMA MapMoves ==
    ASSUME NEW l \in OwnPlaces, NEW h \in OwnPlaces, l # h, Page'[l] = Page[h], Page'[h] = 0,
           NEW S \in SUBSET OwnPlaces, \A x \in S \ {l} : Page'[x] # 0 => Page'[x] = Page[x]
    PROVE  Moves([x \in OwnPlaces |-> IF x = l THEN h ELSE x], S)
<1> DEFINE G == [x \in OwnPlaces |-> IF x = l THEN h ELSE x]
<1>1. G \in [OwnPlaces -> OwnPlaces] /\ G[l] = h /\ \A x \in OwnPlaces \ {l} : G[x] = x
  OBVIOUS
<1> HIDE DEF G
<1>2. \A x \in S : Page'[x] # 0 => Page'[x] = Page[G[x]]
  BY <1>1
<1>3. \A x, y \in S : Page'[x] # 0 /\ Page'[y] # 0 /\ G[x] = G[y] => x = y
  BY <1>1
<1>4. Moves(G, S)
  BY <1>1, <1>2, <1>3 DEF Moves
<1> QED
  BY <1>4 DEF G

\* map_region() in the space of the process (sys_brk()): the table is there, or
\* kalloc() gives one.
LEMMA MapPgdir ==
    ASSUME Unique, Typed, NEW p \in Procs, NEW v \in VPages, NEW r \in Regions, NEW t \in 0..NPAGE,
           WithMapped(pgdir'[p], pgdir[p], v, hand[p], r, t),
           \A q \in Procs : q # p => pgdir'[q] = pgdir[q] /\ hand'[q] = hand[q],
           hand'[p] = 0, UNCHANGED <<kstack, new, old>>,
           \/ free' = free /\ t = pgdir[p].table[r]
           \/ free # <<>> /\ free' = Tail(free) /\ t = Head(free)
    PROVE  Unique'
<1> DEFINE h == <<p, "hand", 0>>
           l == <<p, "pgdir", v>>
           d == <<p, "pgdir", MaxV + r>>
<1>1. hand[p] \in 0..NPAGE /\ pgdir[p] \in Spaces
  BY DEF Typed
<1>2. /\ v \in Offsets /\ MaxV + r \in Offsets /\ v # MaxV + r
      /\ At(pgdir'[p], v) = hand[p] /\ At(pgdir'[p], MaxV + r) = t
      /\ \A j \in Offsets : j # v /\ j # MaxV + r => At(pgdir'[p], j) = At(pgdir[p], j)
  BY <1>1, MappedAt
<1>3. /\ h \in OwnPlaces /\ l \in OwnPlaces /\ d \in OwnPlaces /\ l # h /\ l # d /\ h # d
      /\ Page'[l] = Page[h] /\ Page'[h] = 0 /\ Page'[d] = t
  <2>1. h \in OwnPlaces /\ l \in OwnPlaces /\ d \in OwnPlaces
    BY <1>2, PlaceKinds
  <2>2. l # h /\ l # d /\ h # d
    BY <1>2
  <2>3. Page'[h] = hand'[p] /\ Page[h] = hand[p]
    BY PageOf, PageOfNext DEF Laid
  <2>4. Page'[l] = At(pgdir'[p], v) /\ Page'[d] = At(pgdir'[p], MaxV + r)
    BY <1>2, PageOfNext DEF Laid
  <2> HIDE DEF h, l, d
  <2> QED
    BY <1>1, <1>2, <2>1, <2>2, <2>3, <2>4
<1>4. \A x \in OwnPlaces \ {l, d} : Page'[x] # 0 => Page'[x] = Page[x]
  <2>1. ASSUME NEW q \in Procs, NEW j \in Offsets
        PROVE  <<q, "pgdir", j>> \in {l, d} \/ At(pgdir'[q], j) = At(pgdir[q], j)
    BY <1>1, <1>2
  <2>2. \A q \in Procs : hand'[q] \in {0, hand[q]}
    BY <1>1
  <2> HIDE DEF l, d
  <2> QED
    BY <2>1, <2>2, Stay
<1>5. CASE free' = free /\ t = pgdir[p].table[r]
  <2>1. Page'[d] = Page[d]
    <3>1. Page[d] = At(pgdir[p], MaxV + r)
      BY <1>2, PageOf DEF Laid
    <3>2. At(pgdir[p], MaxV + r) = pgdir[p].table[r]
      BY AtOf
    <3> HIDE DEF d
    <3> QED
      BY <1>3, <1>5, <3>1, <3>2
  <2> HIDE DEF l, h, d
  <2>2. Moves([x \in OwnPlaces |-> IF x = l THEN h ELSE x], OwnPlaces)
    BY <1>3, <1>4, <2>1, MapMoves
  <2> QED
    BY <1>5, <2>2, KeepUnique
<1>6. CASE free # <<>> /\ free' = Tail(free) /\ t = Head(free)
  <2> HIDE DEF l, h, d
  <2>1. Moves([x \in OwnPlaces |-> IF x = l THEN h ELSE x], OwnPlaces \ {d})
    BY <1>3, <1>4, MapMoves
  <2> QED
    BY <1>3, <1>6, <2>1, TakeUnique DEF Typed
<1> QED
  BY <1>5, <1>6

\* map_region() in a space that is built (uvm_copy(), execve()).
LEMMA MapNew ==
    ASSUME Unique, Typed, NEW p \in Procs, NEW v \in VPages, NEW r \in Regions, NEW t \in 0..NPAGE,
           WithMapped(new'[p], new[p], v, hand[p], r, t),
           \A q \in Procs : q # p => new'[q] = new[q] /\ hand'[q] = hand[q],
           hand'[p] = 0, UNCHANGED <<kstack, pgdir, old>>,
           \/ free' = free /\ t = new[p].table[r]
           \/ free # <<>> /\ free' = Tail(free) /\ t = Head(free)
    PROVE  Unique'
<1> DEFINE h == <<p, "hand", 0>>
           l == <<p, "new", v>>
           d == <<p, "new", MaxV + r>>
<1>1. hand[p] \in 0..NPAGE /\ new[p] \in Spaces
  BY DEF Typed
<1>2. /\ v \in Offsets /\ MaxV + r \in Offsets /\ v # MaxV + r
      /\ At(new'[p], v) = hand[p] /\ At(new'[p], MaxV + r) = t
      /\ \A j \in Offsets : j # v /\ j # MaxV + r => At(new'[p], j) = At(new[p], j)
  BY <1>1, MappedAt
<1>3. /\ h \in OwnPlaces /\ l \in OwnPlaces /\ d \in OwnPlaces /\ l # h /\ l # d /\ h # d
      /\ Page'[l] = Page[h] /\ Page'[h] = 0 /\ Page'[d] = t
  <2>1. h \in OwnPlaces /\ l \in OwnPlaces /\ d \in OwnPlaces
    BY <1>2, PlaceKinds
  <2>2. l # h /\ l # d /\ h # d
    BY <1>2
  <2>3. Page'[h] = hand'[p] /\ Page[h] = hand[p]
    BY PageOf, PageOfNext DEF Laid
  <2>4. Page'[l] = At(new'[p], v) /\ Page'[d] = At(new'[p], MaxV + r)
    BY <1>2, PageOfNext DEF Laid
  <2> HIDE DEF h, l, d
  <2> QED
    BY <1>1, <1>2, <2>1, <2>2, <2>3, <2>4
<1>4. \A x \in OwnPlaces \ {l, d} : Page'[x] # 0 => Page'[x] = Page[x]
  <2>1. ASSUME NEW q \in Procs, NEW j \in Offsets
        PROVE  <<q, "new", j>> \in {l, d} \/ At(new'[q], j) = At(new[q], j)
    BY <1>1, <1>2
  <2>2. \A q \in Procs : hand'[q] \in {0, hand[q]}
    BY <1>1
  <2> HIDE DEF l, d
  <2> QED
    BY <2>1, <2>2, Stay
<1>5. CASE free' = free /\ t = new[p].table[r]
  <2>1. Page'[d] = Page[d]
    <3>1. Page[d] = At(new[p], MaxV + r)
      BY <1>2, PageOf DEF Laid
    <3>2. At(new[p], MaxV + r) = new[p].table[r]
      BY AtOf
    <3> HIDE DEF d
    <3> QED
      BY <1>3, <1>5, <3>1, <3>2
  <2> HIDE DEF l, h, d
  <2>2. Moves([x \in OwnPlaces |-> IF x = l THEN h ELSE x], OwnPlaces)
    BY <1>3, <1>4, <2>1, MapMoves
  <2> QED
    BY <1>5, <2>2, KeepUnique
<1>6. CASE free # <<>> /\ free' = Tail(free) /\ t = Head(free)
  <2> HIDE DEF l, h, d
  <2>1. Moves([x \in OwnPlaces |-> IF x = l THEN h ELSE x], OwnPlaces \ {d})
    BY <1>3, <1>4, MapMoves
  <2> QED
    BY <1>3, <1>6, <2>1, TakeUnique DEF Typed
<1> QED
  BY <1>5, <1>6

\* A space goes from the one that builds it to its process q, and the space of
\* q to the one that frees it.
LEMMA SpaceMoves ==
    ASSUME Unique, free' = free, NEW p \in Procs, NEW q \in Procs, NEW r \in Procs,
           \A j \in Offsets : At(pgdir'[q], j) # 0 => At(pgdir'[q], j) = At(new[p], j) /\ At(new'[p], j) = 0,
           \A j \in Offsets : At(old'[r], j) # 0 => At(old'[r], j) = At(pgdir[q], j),
           \A o \in Procs : kstack'[o] \in {0, kstack[o]} /\ hand'[o] = hand[o],
           \A o \in Procs : o # q => pgdir'[o] = pgdir[o],
           \A o \in Procs : o # r => old'[o] = old[o],
           \A o \in Procs : new'[o] \in {NoSpace, new[o]}
    PROVE  Unique'
<1> DEFINE Home == {<<q, "pgdir", j>> : j \in Offsets}
           Gone == {<<r, "old", j>> : j \in Offsets}
           G == [x \in OwnPlaces |-> IF x \in Home THEN <<p, "new", x[3]>>
                                     ELSE IF x \in Gone THEN <<q, "pgdir", x[3]>> ELSE x]
<1>1. ASSUME NEW j \in Offsets
      PROVE  /\ <<q, "pgdir", j>> \in Home /\ <<r, "old", j>> \in Gone
             /\ <<q, "pgdir", j>> \in OwnPlaces /\ <<r, "old", j>> \in OwnPlaces /\ <<p, "new", j>> \in OwnPlaces
             /\ G[<<q, "pgdir", j>>] = <<p, "new", j>> /\ G[<<r, "old", j>>] = <<q, "pgdir", j>>
  <2>1. <<q, "pgdir", j>> \in OwnPlaces /\ <<r, "old", j>> \in OwnPlaces /\ <<p, "new", j>> \in OwnPlaces
    BY PlaceKinds
  <2>2. <<q, "pgdir", j>> \in Home /\ <<r, "old", j>> \in Gone /\ <<r, "old", j>> \notin Home
    OBVIOUS
  <2> QED
    BY <2>1, <2>2
<1>2. \A x \in OwnPlaces : x \notin Home /\ x \notin Gone => G[x] = x
  OBVIOUS
<1>3. \A x \in Home : \E j \in Offsets : x = <<q, "pgdir", j>>
  OBVIOUS
<1>4. \A x \in Gone : \E j \in Offsets : x = <<r, "old", j>>
  OBVIOUS
<1>5. G \in [OwnPlaces -> OwnPlaces]
  <2>1. ASSUME NEW x \in OwnPlaces PROVE G[x] \in OwnPlaces
    <3> HIDE DEF G, Home, Gone
    <3>1. CASE x \in Home
      BY <1>1, <1>3, <3>1
    <3>2. CASE x \in Gone
      BY <1>1, <1>4, <3>2
    <3>3. CASE x \notin Home /\ x \notin Gone
      BY <1>2, <3>3
    <3> QED
      BY <3>1, <3>2, <3>3
  <2> QED
    BY <2>1
<1>6. ASSUME NEW x \in OwnPlaces, x \notin Home, x \notin Gone PROVE Page'[x] \in {0, Page[x]}
  <2>1. ASSUME NEW o \in Procs, NEW j \in Offsets
        PROVE  /\ <<o, "pgdir", j>> \in Home \cup Gone \/ At(pgdir'[o], j) = At(pgdir[o], j)
               /\ <<o, "old", j>> \in Home \cup Gone \/ At(old'[o], j) = At(old[o], j)
               /\ At(new'[o], j) \in {0, At(new[o], j)}
    BY <1>1, NoSpaceTyped
  <2> HIDE DEF Home, Gone
  <2>2. \A z \in OwnPlaces \ (Home \cup Gone) : Page'[z] # 0 => Page'[z] = Page[z]
    BY <2>1, Stay
  <2> QED
    BY <1>6, <2>2
<1> HIDE DEF G
<1>7. ASSUME NEW x \in OwnPlaces, Page'[x] # 0 PROVE Page'[x] = Page[G[x]]
  <2>1. ASSUME NEW j \in Offsets, x = <<q, "pgdir", j>> PROVE Page'[x] = Page[G[x]]
    <3>1. Page'[x] = At(pgdir'[q], j) /\ G[x] = <<p, "new", j>> /\ Page[<<p, "new", j>>] = At(new[p], j)
      BY <1>1, <2>1, PageOf, PageOfNext DEF Laid
    <3> QED
      BY <1>7, <3>1
  <2>2. ASSUME NEW j \in Offsets, x = <<r, "old", j>> PROVE Page'[x] = Page[G[x]]
    <3>1. Page'[x] = At(old'[r], j) /\ G[x] = <<q, "pgdir", j>> /\ Page[<<q, "pgdir", j>>] = At(pgdir[q], j)
      BY <1>1, <2>2, PageOf, PageOfNext DEF Laid
    <3> QED
      BY <1>7, <3>1
  <2> HIDE DEF Home, Gone
  <2> QED
    BY <1>2, <1>3, <1>4, <1>6, <1>7, <2>1, <2>2
<1>8. ASSUME NEW x \in OwnPlaces, NEW y \in OwnPlaces, Page'[x] # 0, Page'[y] # 0, G[x] = G[y]
      PROVE  x = y
  <2>1. ASSUME NEW z \in Home, Page'[z] # 0
        PROVE  G[z] \notin Home /\ G[z] \notin Gone /\ Page'[G[z]] = 0 /\ z = <<q, "pgdir", G[z][3]>>
    <3> PICK j \in Offsets : z = <<q, "pgdir", j>>
      BY <1>3
    <3>1. G[z] = <<p, "new", j>>
      BY <1>1
    <3>2. Page'[z] = At(pgdir'[q], j) /\ Page'[<<p, "new", j>>] = At(new'[p], j)
      BY PageOfNext DEF Laid
    <3>3. <<p, "new", j>> \notin Home /\ <<p, "new", j>> \notin Gone /\ <<p, "new", j>>[3] = j
      OBVIOUS
    <3> QED
      BY <2>1, <3>1, <3>2, <3>3
  <2>2. ASSUME NEW z \in Gone PROVE G[z] \in Home /\ z = <<r, "old", G[z][3]>>
    <3> PICK j \in Offsets : z = <<r, "old", j>>
      BY <1>4
    <3>1. G[z] = <<q, "pgdir", j>>
      BY <1>1
    <3> QED
      BY <3>1
  <2> HIDE DEF Home, Gone
  <2>3. CASE x \in Home \/ y \in Home
    <3>1. x \in Home /\ y \in Home
      BY <1>2, <1>8, <2>1, <2>2, <2>3
    <3>2. x = <<q, "pgdir", G[x][3]>> /\ y = <<q, "pgdir", G[y][3]>>
      BY <1>8, <2>1, <3>1
    <3> QED
      BY <1>8, <3>2
  <2>4. CASE x \notin Home /\ y \notin Home
    <3>1. CASE x \in Gone \/ y \in Gone
      <4>1. x \in Gone /\ y \in Gone
        BY <1>2, <1>8, <2>2, <2>4, <3>1
      <4>2. x = <<r, "old", G[x][3]>> /\ y = <<r, "old", G[y][3]>>
        BY <2>2, <4>1
      <4> QED
        BY <1>8, <4>2
    <3> QED
      BY <1>2, <1>8, <2>4, <3>1
  <2> QED
    BY <2>3, <2>4
<1>9. Moves(G, OwnPlaces)
  BY <1>5, <1>7, <1>8 DEF Moves
<1> QED
  BY <1>9, KeepUnique

-----------------------------------------------------------------------------
(* The steps.                                                              *)

\* A step does not touch process q.
Same(q) ==
    /\ state'[q] = state[q] /\ pgdir'[q] = pgdir[q] /\ sz'[q] = sz[q] /\ ttbr0'[q] = ttbr0[q] /\ pc'[q] = pc[q]
    /\ new'[q] = new[q] /\ old'[q] = old[q] /\ hand'[q] = hand[q] /\ a'[q] = a[q] /\ lim'[q] = lim[q]

LEMMA SameKept ==
    ASSUME IInv, NEW q \in Procs, Same(q)
    PROVE  Working(q)' /\ Rooted(q)' /\ Backed(q)'
<1>1. Working(q) /\ Rooted(q) /\ Backed(q)
  BY DEF IInv
<1>2. Working(q)'
  BY <1>1 DEF Working, Same
<1>3. Rooted(q)'
  BY <1>1 DEF Rooted, Same
<1>4. Backed(q)'
  BY <1>1 DEF Backed, MappedBelow, Same
<1> QED
  BY <1>2, <1>3, <1>4

\* No process becomes the builder of an embryo or the cleaner of a slot, and
\* what the others build or clean does not change.
LEMMA TargetsMoved ==
    ASSUME Targets,
           \A q \in Procs : pc'[q] \in ForkPoints => pc[q] \in ForkPoints /\ target'[q] = target[q],
           \A q \in Procs : pc'[q] = "wait_free" => pc[q] = "wait_free" /\ target'[q] = target[q],
           \A q \in Procs : pc'[q] \in TargetPoints => state'[target[q]] = state[target[q]]
    PROVE  Targets'
<1>1. \A q \in Procs : pc'[q] \in TargetPoints => pc[q] \in TargetPoints /\ target'[q] = target[q]
  BY DEF TargetPoints
<1>2. \A q \in Procs : pc'[q] \in ForkPoints => target'[q] \in Procs /\ state'[target'[q]] = "embryo"
  BY DEF Targets, TargetPoints
<1>3. \A q \in Procs : pc'[q] = "wait_free" => target'[q] \in Procs /\ state'[target'[q]] = "freeing"
  BY DEF Targets, TargetPoints
<1>4. \A p, q \in Procs : pc'[p] \in TargetPoints /\ pc'[q] \in TargetPoints /\ target'[p] = target'[q] => p = q
  BY <1>1 DEF Targets
<1> QED
  BY <1>2, <1>3, <1>4 DEF Targets

LEMMA TargetsKept ==
    ASSUME Targets,
           \A q \in Procs : pc'[q] \in ForkPoints => pc[q] \in ForkPoints /\ target'[q] = target[q],
           \A q \in Procs : pc'[q] = "wait_free" => pc[q] = "wait_free" /\ target'[q] = target[q],
           \A q \in Procs : state[q] \in {"embryo", "freeing"} => state'[q] = state[q]
    PROVE  Targets'
<1>1. ASSUME NEW q \in Procs, pc'[q] \in TargetPoints PROVE state'[target[q]] = state[target[q]]
  BY <1>1 DEF Targets, TargetPoints
<1> QED
  BY <1>1, TargetsMoved

\* p finishes with its target: no other process has it, and none has p.
LEMMA TargetsDone ==
    ASSUME Targets, NEW p \in Procs, pc[p] \in TargetPoints, state[p] = "kernel", pc'[p] = "out",
           \A q \in Procs : q # p => pc'[q] = pc[q] /\ target'[q] = target[q],
           \A q \in Procs : q # p /\ q # target[p] => state'[q] = state[q]
    PROVE  Targets'
<1>1. ASSUME NEW q \in Procs, pc'[q] \in TargetPoints
      PROVE  q # p /\ pc[q] \in TargetPoints /\ state'[target[q]] = state[target[q]]
  <2>1. q # p /\ pc[q] \in TargetPoints
    BY <1>1 DEF TargetPoints, ForkPoints
  <2>2. target[q] \in Procs /\ target[q] # p /\ target[q] # target[p]
    BY <2>1 DEF Targets, TargetPoints
  <2> QED
    BY <2>1, <2>2
<1>2. pc'[p] \notin ForkPoints /\ pc'[p] # "wait_free"
  BY DEF ForkPoints
<1> QED
  BY <1>1, <1>2, TargetsMoved

\* p gets a target q that is nobody's.
LEMMA TargetsNew ==
    ASSUME Targets, NEW p \in Procs, NEW q \in Procs, p # q, state[p] = "user", pc[p] \notin TargetPoints,
           state[q] \notin {"embryo", "freeing"}, target'[p] = q,
           \/ pc'[p] \in ForkPoints /\ pc'[p] # "wait_free" /\ state'[q] = "embryo"
           \/ pc'[p] = "wait_free" /\ pc'[p] \notin ForkPoints /\ state'[q] = "freeing",
           \A o \in Procs : o # p => pc'[o] = pc[o] /\ target'[o] = target[o],
           \A o \in Procs : o # p /\ o # q => state'[o] = state[o]
    PROVE  Targets'
<1>1. ASSUME NEW o \in Procs, o # p, pc'[o] \in TargetPoints
      PROVE  /\ pc[o] \in TargetPoints /\ target[o] \in Procs /\ target[o] # q
             /\ target'[o] = target[o] /\ state'[target[o]] = state[target[o]]
  <2>1. pc[o] \in TargetPoints /\ target'[o] = target[o]
    BY <1>1
  <2>2. target[o] \in Procs /\ state[target[o]] \in {"embryo", "freeing"}
    BY <2>1 DEF Targets, TargetPoints
  <2> QED
    BY <2>1, <2>2
<1>2. ASSUME NEW o \in Procs, pc'[o] \in ForkPoints PROVE target'[o] \in Procs /\ state'[target'[o]] = "embryo"
  <2>1. CASE o = p
    BY <1>2, <2>1
  <2>2. CASE o # p
    BY <1>1, <1>2, <2>2 DEF Targets, TargetPoints
  <2> QED
    BY <2>1, <2>2
<1>3. ASSUME NEW o \in Procs, pc'[o] = "wait_free" PROVE target'[o] \in Procs /\ state'[target'[o]] = "freeing"
  <2>1. CASE o = p
    BY <1>3, <2>1
  <2>2. CASE o # p
    BY <1>1, <1>3, <2>2 DEF Targets, TargetPoints
  <2> QED
    BY <2>1, <2>2
<1>4. ASSUME NEW o \in Procs, NEW u \in Procs, pc'[o] \in TargetPoints, pc'[u] \in TargetPoints, target'[o] = target'[u]
      PROVE  o = u
  <2>1. CASE o = p \/ u = p
    BY <1>1, <1>4, <2>1
  <2>2. CASE o # p /\ u # p
    <3>1. pc[o] \in TargetPoints /\ pc[u] \in TargetPoints /\ target[o] = target[u]
      BY <1>1, <1>4, <2>2
    <3> QED
      BY <3>1 DEF Targets
  <2> QED
    BY <2>1, <2>2
<1> QED
  BY <1>2, <1>3, <1>4 DEF Targets

\* The call of p ends, and with it what it was building: with a result, with -1,
\* or in a panic.
LEMMA LeaveStep ==
    ASSUME IInv, NEW p \in Procs, state[p] \in {"user", "kernel"}, old[p] = NoSpace,
           NEW st \in {"user", "stopped"}, Leave(p, st), kmemheld' \in BOOLEAN,
           UNCHANGED <<free, kstack, pgdir, old, target>>,
           hand' = hand \/ hand' = [hand EXCEPT ![p] = 0],
           new' = new \/ new' = [new EXCEPT ![p] = NoSpace],
           sz' = sz \/ sz' = [sz EXCEPT ![p] = 0],
           ttbr0' = ttbr0 \/ ttbr0' = [ttbr0 EXCEPT ![p] = pgdir[p].dir]
    PROVE  IInv'
<1>0. Typed /\ Unique /\ Targets /\ Working(p) /\ Rooted(p) /\ Backed(p)
  BY DEF IInv
<1>1. Typed'
  <2>0. "out" \in Points /\ 0 \in 0..NPAGE /\ 0 \in 0..MaxV /\ 0 \in 0..(MaxV + 1) /\ <<>> \in Seq(Segments)
    BY VmAssumption DEF Points
  <2>1. pgdir[p].dir \in 0..NPAGE
    BY <1>0 DEF Typed, Spaces
  <2>2. /\ state' \in [Procs -> {"unused", "embryo", "user", "kernel", "zombie", "freeing", "stopped"}]
        /\ pc' \in [Procs -> Points] /\ segs' \in [Procs -> Seq(Segments)]
        /\ a' \in [Procs -> 0..MaxV] /\ lim' \in [Procs -> 0..(MaxV + 1)]
    BY <1>0, <2>0 DEF Typed, Leave, Goto
  <2>3. hand' \in [Procs -> 0..NPAGE] /\ new' \in [Procs -> Spaces] /\ sz' \in [Procs -> 0..MaxV]
    <3>1. NoSpace \in Spaces
      BY NoSpaceTyped
    <3>2. new' \in [Procs -> Spaces]
      BY <1>0, <3>1 DEF Typed
    <3>3. hand' \in [Procs -> 0..NPAGE]
      BY <1>0, <2>0 DEF Typed
    <3>4. sz' \in [Procs -> 0..MaxV]
      BY <1>0, <2>0 DEF Typed
    <3> QED
      BY <3>2, <3>3, <3>4
  <2>4. ttbr0' \in [Procs -> 0..NPAGE]
    BY <1>0, <2>1 DEF Typed
  <2> QED
    BY <1>0, <2>2, <2>3, <2>4 DEF Typed
<1>2. Unique'
  <2>1. \A q \in Procs : kstack'[q] \in {0, kstack[q]} /\ hand'[q] \in {0, hand[q]} /\ new'[q] \in {NoSpace, new[q]}
    BY <1>0 DEF Typed
  <2> QED
    BY <1>0, <2>1, DropUnique
<1>3. /\ pc'[p] = "out" /\ state'[p] = st
      /\ \A q \in Procs : q # p => pc'[q] = pc[q] /\ state'[q] = state[q] /\ a'[q] = a[q] /\ lim'[q] = lim[q]
  BY <1>0 DEF Typed, Leave, Goto
<1>4. Targets'
  BY <1>0, <1>3, TargetsKept DEF ForkPoints
<1>5. \A q \in Procs : q # p => Same(q)
  BY <1>0, <1>3 DEF Same, Typed
<1>6. Working(p)' /\ Rooted(p)'
  <2>1. ttbr0'[p] = pgdir[p].dir /\ pgdir[p].dir # 0
    BY <1>0 DEF Typed, Rooted, Living
  <2> QED
    BY <1>3, <2>1 DEF Working, Rooted, MapPoints, NewPoints, Living
<1>7. Backed(p)'
  <2>1. sz'[p] \in {0, sz[p]} /\ VPages \subseteq Nat
    BY <1>0, RegionTyped DEF Typed
  <2>2. MappedBelow(pgdir'[p], sz'[p])
    BY <1>0, <2>1 DEF Backed, MappedBelow
  <2> QED
    BY <1>3, <2>2 DEF Backed, NewPoints, MappedBelow
<1> QED
  BY <1>1, <1>2, <1>4, <1>5, <1>6, <1>7, SameKept DEF IInv

\* kalloc() gives p the page it is going to map.
LEMMA TakeHandStep ==
    ASSUME IInv, NEW p \in Procs, kalloc, hand' = [hand EXCEPT ![p] = Head(free)], a[p] < lim[p], a[p] < MaxV, NEW l, Goto(p, l),
           UNCHANGED <<state, kstack, pgdir, sz, ttbr0, new, old, a, lim, segs, target>>,
           \/ pc[p] = "copy" /\ l = "copy_map"
           \/ pc[p] = "exec_alloc" /\ l = "exec_map"
           \/ pc[p] = "stack_alloc" /\ l = "stack_map"
           \/ pc[p] = "brk_alloc" /\ l = "brk_map"
    PROVE  IInv'
<1>0. Typed /\ Unique /\ Targets /\ Working(p) /\ Rooted(p) /\ Backed(p)
  BY DEF IInv
<1>1. /\ free # <<>> /\ free' = Tail(free) /\ kmemheld' = kmemheld /\ free' \in Seq(Pages)
      /\ Head(free) \in Pages /\ Head(free) \in 0..NPAGE /\ Head(free) # 0
  BY <1>0, ListTaken, PagesTyped DEF Typed, kalloc
<1>2. Typed'
  <2>1. l \in Points
    BY DEF Points, NewPoints
  <2>2. pc' \in [Procs -> Points] /\ hand' \in [Procs -> 0..NPAGE]
    BY <1>0, <1>1, <2>1 DEF Typed, Goto
  <2> QED
    BY <1>0, <1>1, <2>2 DEF Typed
<1>3. Unique'
  BY <1>0, <1>1, TakeHand
<1>4. /\ pc'[p] = l /\ hand'[p] = Head(free)
      /\ \A q \in Procs : q # p => pc'[q] = pc[q] /\ hand'[q] = hand[q]
  BY <1>0 DEF Typed, Goto
<1>5. Targets'
  <2>1. l \in ForkPoints => pc[p] \in ForkPoints
    BY DEF ForkPoints
  <2> QED
    BY <1>0, <1>4, <2>1, TargetsKept
<1>6. \A q \in Procs : q # p => Same(q)
  BY <1>4 DEF Same
<1>7. Working(p)'
  BY <1>0, <1>1, <1>4 DEF Working
<1>8. Rooted(p)'
  BY <1>0, <1>4 DEF Rooted, NewPoints, FreePoints
<1>9. Backed(p)'
  BY <1>0, <1>4 DEF Backed, NewPoints
<1> QED
  BY <1>2, <1>3, <1>5, <1>6, <1>7, <1>8, <1>9, SameKept DEF IInv

\* kalloc() gives p the directory of a new space: uvm_copy() and execve().
LEMMA TakeDirStep ==
    ASSUME IInv, NEW p \in Procs, kalloc, state[p] \in {"user", "kernel"}, old[p] = NoSpace,
           new' = [new EXCEPT ![p] = [NoSpace EXCEPT !.dir = Head(free)]], a' = [a EXCEPT ![p] = 0],
           state' = [state EXCEPT ![p] = "kernel"], segs' \in [Procs -> Seq(Segments)], NEW l, Goto(p, l),
           UNCHANGED <<kstack, pgdir, sz, ttbr0, old, hand, target>>,
           \/ pc[p] = "copy_dir" /\ l = "copy" /\ lim' = [lim EXCEPT ![p] = sz[p]]
           \/ l = "exec_seg" /\ lim' = [lim EXCEPT ![p] = 0]
    PROVE  IInv'
<1>0. Typed /\ Unique /\ Targets /\ Working(p) /\ Rooted(p) /\ Backed(p)
  BY DEF IInv
<1>1. /\ free # <<>> /\ free' = Tail(free) /\ kmemheld' = kmemheld /\ free' \in Seq(Pages)
      /\ Head(free) \in Pages /\ Head(free) # 0
  BY <1>0, ListTaken, PagesTyped DEF Typed, kalloc
<1> DEFINE s == [NoSpace EXCEPT !.dir = Head(free)]
<1>a. s \in Spaces /\ s.dir # 0
  BY <1>1, NewDirTyped
<1> HIDE DEF s
<1>b. new' = [new EXCEPT ![p] = s]
  BY DEF s
<1>2. Typed'
  <2>1. l \in Points /\ sz[p] \in 0..(MaxV + 1) /\ 0 \in 0..MaxV /\ 0 \in 0..(MaxV + 1)
    BY <1>0, VmAssumption DEF Points, NewPoints, Typed
  <2>2. pc' \in [Procs -> Points] /\ new' \in [Procs -> Spaces]
    <3>1. pc' \in [Procs -> Points]
      BY <1>0, <2>1 DEF Typed, Goto
    <3>2. new \in [Procs -> Spaces]
      BY <1>0 DEF Typed
    <3> QED
      BY <1>a, <1>b, <3>1, <3>2, Zenon
  <2>3. a' \in [Procs -> 0..MaxV] /\ lim' \in [Procs -> 0..(MaxV + 1)]
    BY <1>0, <2>1 DEF Typed
  <2>4. state' \in [Procs -> {"unused", "embryo", "user", "kernel", "zombie", "freeing", "stopped"}]
    BY <1>0 DEF Typed
  <2> QED
    BY <1>0, <1>1, <2>2, <2>3, <2>4 DEF Typed
<1>3. Unique'
  BY <1>0, <1>1, TakeDir
<1>4. /\ pc'[p] = l /\ new'[p] = s /\ a'[p] = 0 /\ state'[p] = "kernel"
      /\ \A q \in Procs : q # p => /\ pc'[q] = pc[q] /\ new'[q] = new[q] /\ a'[q] = a[q] /\ state'[q] = state[q]
                                   /\ lim'[q] = lim[q]
      /\ lim'[p] = IF l = "copy" THEN sz[p] ELSE 0
  BY <1>0, <1>b DEF Typed, Goto
<1>5. Targets'
  <2>1. l \in ForkPoints => pc[p] \in ForkPoints
    BY DEF ForkPoints
  <2> QED
    BY <1>0, <1>4, <2>1, TargetsKept
<1>6. \A q \in Procs : q # p => Same(q)
  BY <1>4 DEF Same
<1>7. Working(p)'
  BY <1>4, ProgramsAssumption DEF Working, MapPoints
<1>8. Rooted(p)'
  BY <1>0, <1>4, <1>a DEF Rooted, Living
<1>9. Backed(p)'
  <2>1. \A v \in VPages : ~ (v < 0)
    BY RegionTyped
  <2> QED
    BY <1>0, <1>4, <2>1 DEF Backed, MappedBelow
<1> QED
  BY <1>2, <1>3, <1>5, <1>6, <1>7, <1>8, <1>9, SameKept DEF IInv

\* What map_region() does: the address is taken, there is no page for a table, or
\* the page is mapped, under the table that is there or under a new one.
LEMMA MapCases ==
    ASSUME NEW p \in Procs, NEW l, NEW ACTION T, MapPage(p, l, T)
    PROVE  /\ hand' = [hand EXCEPT ![p] = 0]
           /\ \/ T /\ UNCHANGED <<pgdir, kmemVars>>
              \/ Stop(p) /\ UNCHANGED <<new, pgdir>> /\ kallocFails
              \/ \E t : /\ SetSpace(p, Mapped(Space(p), p, t))
                        /\ a' = [a EXCEPT ![p] = @ + 1] /\ Goto(p, l) /\ UNCHANGED <<state, lim, segs>>
                        /\ \/ t = Space(p).table[RegionOf(a[p])] /\ t # 0 /\ UNCHANGED kmemVars
                           \/ t = Head(free) /\ kalloc /\ Space(p).table[RegionOf(a[p])] = 0
<1>1. hand' = [hand EXCEPT ![p] = 0]
  BY DEF MapPage
<1>2. CASE T /\ UNCHANGED <<pgdir, kmemVars>>
  BY <1>1, <1>2
<1>3. CASE /\ Space(p).table[RegionOf(a[p])] # 0
           /\ SetSpace(p, Mapped(Space(p), p, Space(p).table[RegionOf(a[p])]))
           /\ a' = [a EXCEPT ![p] = @ + 1] /\ Goto(p, l) /\ UNCHANGED <<state, lim, segs, kmemVars>>
  <2> UNCHANGED <<state, lim, segs>> /\ UNCHANGED kmemVars
    BY <1>3
  <2> HIDE DEF SetSpace
  <2> QED
    BY <1>1, <1>3
<1>4. CASE /\ Space(p).table[RegionOf(a[p])] = 0
           /\ WithPage(LAMBDA pg : SetSpace(p, Mapped(Space(p), p, pg)) /\ a' = [a EXCEPT ![p] = @ + 1]
                                   /\ Goto(p, l) /\ UNCHANGED <<state, lim, segs>>,
                       Stop(p) /\ UNCHANGED <<new, pgdir>>)
  BY <1>1, <1>4 DEF WithPage
<1> QED
  BY <1>2, <1>3, <1>4 DEF MapPage

\* One page more is mapped.
LEMMA MappedFurther ==
    ASSUME NEW s \in Spaces, NEW v \in VPages, NEW h, NEW t, h # 0, t # 0, NEW m,
           WithMapped(m, s, v, h, RegionOf(v), t)
    PROVE  /\ \A n \in Nat : MappedBelow(s, n) => MappedBelow(m, n)
           /\ MappedBelow(s, v) => MappedBelow(m, v + 1)
<1>1. /\ s.leaf \in [VPages -> 0..NPAGE] /\ s.table \in [Regions -> 0..NPAGE] /\ VPages \subseteq Nat
      /\ m.leaf = [s.leaf EXCEPT ![v] = h] /\ m.table = [s.table EXCEPT ![RegionOf(v)] = t]
  BY RegionTyped DEF Spaces, WithMapped
<1>2. \A u \in VPages : RegionOf(u) \in Regions
  BY RegionTyped
<1>3. /\ \A u \in VPages : s.leaf[u] # 0 \/ u = v => m.leaf[u] # 0
      /\ \A u \in VPages : s.table[RegionOf(u)] # 0 \/ u = v => m.table[RegionOf(u)] # 0
  BY <1>1, <1>2
<1>4. \A n \in Nat : MappedBelow(s, n) => MappedBelow(m, n)
  BY <1>3 DEF MappedBelow
<1>5. ASSUME MappedBelow(s, v) PROVE MappedBelow(m, v + 1)
  <2>1. \A u \in VPages : u < v + 1 => u < v \/ u = v
    BY <1>1
  <2> QED
    BY <1>3, <1>5, <2>1 DEF MappedBelow
<1> QED
  BY <1>4, <1>5

\* Where p maps its page.
LEMMA MapPlace ==
    ASSUME Typed, NEW p \in Procs, Working(p), pc[p] \in MapPoints
    PROVE  a[p] \in VPages /\ RegionOf(a[p]) \in Regions /\ hand[p] \in 0..NPAGE /\ hand[p] # 0 /\ a[p] + 1 \in 0..MaxV
<1>1. a[p] \in 0..MaxV /\ a[p] < MaxV /\ hand[p] # 0 /\ hand[p] \in 0..NPAGE
  BY DEF Typed, Working
<1>2. a[p] \in VPages /\ a[p] + 1 \in 0..MaxV
  BY <1>1, VmAssumption DEF VPages
<1> QED
  BY <1>1, <1>2, RegionTyped

\* uvm_copy() and execve() map a page in the space they build.
LEMMA MapNewStep ==
    ASSUME IInv, NEW p \in Procs, hand' = [hand EXCEPT ![p] = 0], NEW t, NEW l,
           new' = [new EXCEPT ![p] = Mapped(new[p], p, t)], a' = [a EXCEPT ![p] = @ + 1], Goto(p, l),
           UNCHANGED <<state, lim, segs, pgdir, kstack, sz, ttbr0, old, target>>,
           \/ t = new[p].table[RegionOf(a[p])] /\ t # 0 /\ UNCHANGED kmemVars
           \/ t = Head(free) /\ kalloc,
           \/ pc[p] = "copy_map" /\ l = "copy"
           \/ pc[p] = "exec_map" /\ l = "exec_alloc"
           \/ pc[p] = "stack_map" /\ l = "stack_alloc"
    PROVE  IInv'
<1>0. Typed /\ Unique /\ Targets /\ Working(p) /\ Rooted(p) /\ Backed(p) /\ pc[p] \in MapPoints
  BY DEF IInv, MapPoints
<1> DEFINE v == a[p]
           r == RegionOf(v)
           m == Mapped(new[p], p, t)
<1>1. v \in VPages /\ r \in Regions /\ hand[p] \in 0..NPAGE /\ hand[p] # 0 /\ v + 1 \in 0..MaxV
  BY <1>0, MapPlace
<1>2. /\ t \in 0..NPAGE /\ t # 0 /\ free' \in Seq(Pages) /\ kmemheld' \in BOOLEAN
      /\ (free' = free /\ t = new[p].table[r]) \/ (free # <<>> /\ free' = Tail(free) /\ t = Head(free))
  <2>1. CASE t = new[p].table[RegionOf(a[p])] /\ t # 0 /\ UNCHANGED kmemVars
    BY <1>0, <1>1, <2>1 DEF Typed, Spaces, kmemVars
  <2>2. CASE t = Head(free) /\ kalloc
    BY <1>0, <2>2, ListTaken, PagesTyped DEF Typed, kalloc
  <2> QED
    BY <2>1, <2>2
<1>3. new[p] \in Spaces /\ m \in Spaces /\ WithMapped(m, new[p], v, hand[p], r, t)
  <2>1. new[p] \in Spaces
    BY <1>0 DEF Typed
  <2> QED
    BY <1>1, <1>2, <2>1 DEF Mapped, Spaces, WithMapped
<1>4. /\ new'[p] = m /\ hand'[p] = 0 /\ a'[p] = v + 1 /\ pc'[p] = l
      /\ \A q \in Procs : q # p => new'[q] = new[q] /\ hand'[q] = hand[q] /\ a'[q] = a[q] /\ pc'[q] = pc[q]
  BY <1>0 DEF Typed, Goto
<1>5. new' \in [Procs -> Spaces]
  <2> HIDE DEF m
  <2>1. new \in [Procs -> Spaces]
    BY <1>0 DEF Typed
  <2>2. new' = [new EXCEPT ![p] = m]
    BY DEF m
  <2> QED
    BY <1>3, <2>1, <2>2, Zenon
<1> HIDE DEF m, v, r
<1>6. Typed'
  <2>1. l \in Points
    BY DEF Points, NewPoints
  <2>2. pc' \in [Procs -> Points]
    BY <1>0, <2>1 DEF Typed, Goto
  <2>3. hand' \in [Procs -> 0..NPAGE] /\ a' \in [Procs -> 0..MaxV]
    BY <1>0, <1>1, VmAssumption DEF Typed, v
  <2> QED
    BY <1>0, <1>2, <1>5, <2>2, <2>3 DEF Typed
<1>7. Unique'
  BY <1>0, <1>1, <1>2, <1>3, <1>4, MapNew
<1>8. Targets'
  <2>1. l \in ForkPoints => pc[p] \in ForkPoints
    BY DEF ForkPoints
  <2> QED
    BY <1>0, <1>4, <2>1, TargetsKept
<1>9. \A q \in Procs : q # p => Same(q)
  BY <1>4 DEF Same
<1>10. Working(p)'
  BY <1>0, <1>4 DEF Working, MapPoints
<1>11. Rooted(p)'
  BY <1>0, <1>3, <1>4 DEF Rooted, NewPoints, FreePoints, WithMapped
<1>12. Backed(p)'
  <2>1. MappedBelow(new[p], v)
    BY <1>0 DEF Backed, NewPoints, v
  <2>2. MappedBelow(m, v + 1)
    BY <1>1, <1>2, <1>3, <2>1, MappedFurther DEF r
  <2> QED
    BY <1>0, <1>4, <2>2 DEF Backed
<1> QED
  BY <1>6, <1>7, <1>8, <1>9, <1>10, <1>11, <1>12, SameKept DEF IInv

\* sys_brk() maps a page in the space of the process.
LEMMA MapPgdirStep ==
    ASSUME IInv, NEW p \in Procs, hand' = [hand EXCEPT ![p] = 0], NEW t, NEW l,
           pgdir' = [pgdir EXCEPT ![p] = Mapped(pgdir[p], p, t)], a' = [a EXCEPT ![p] = @ + 1], Goto(p, l),
           UNCHANGED <<state, lim, segs, new, kstack, sz, ttbr0, old, target>>,
           \/ t = pgdir[p].table[RegionOf(a[p])] /\ t # 0 /\ UNCHANGED kmemVars
           \/ t = Head(free) /\ kalloc,
           pc[p] = "brk_map", l = "brk_alloc"
    PROVE  IInv'
<1>0. Typed /\ Unique /\ Targets /\ Working(p) /\ Rooted(p) /\ Backed(p) /\ pc[p] \in MapPoints
  BY DEF IInv, MapPoints
<1> DEFINE v == a[p]
           r == RegionOf(v)
           m == Mapped(pgdir[p], p, t)
<1>1. v \in VPages /\ r \in Regions /\ hand[p] \in 0..NPAGE /\ hand[p] # 0 /\ v + 1 \in 0..MaxV
  BY <1>0, MapPlace
<1>2. /\ t \in 0..NPAGE /\ t # 0 /\ free' \in Seq(Pages) /\ kmemheld' \in BOOLEAN
      /\ (free' = free /\ t = pgdir[p].table[r]) \/ (free # <<>> /\ free' = Tail(free) /\ t = Head(free))
  <2>1. CASE t = pgdir[p].table[RegionOf(a[p])] /\ t # 0 /\ UNCHANGED kmemVars
    BY <1>0, <1>1, <2>1 DEF Typed, Spaces, kmemVars
  <2>2. CASE t = Head(free) /\ kalloc
    BY <1>0, <2>2, ListTaken, PagesTyped DEF Typed, kalloc
  <2> QED
    BY <2>1, <2>2
<1>3. pgdir[p] \in Spaces /\ m \in Spaces /\ WithMapped(m, pgdir[p], v, hand[p], r, t)
  <2>1. pgdir[p] \in Spaces
    BY <1>0 DEF Typed
  <2> QED
    BY <1>1, <1>2, <2>1 DEF Mapped, Spaces, WithMapped
<1>4. /\ pgdir'[p] = m /\ hand'[p] = 0 /\ a'[p] = v + 1 /\ pc'[p] = l
      /\ \A q \in Procs : q # p => pgdir'[q] = pgdir[q] /\ hand'[q] = hand[q] /\ a'[q] = a[q] /\ pc'[q] = pc[q]
  BY <1>0 DEF Typed, Goto
<1>5. pgdir' \in [Procs -> Spaces]
  <2> HIDE DEF m
  <2>1. pgdir \in [Procs -> Spaces]
    BY <1>0 DEF Typed
  <2>2. pgdir' = [pgdir EXCEPT ![p] = m]
    BY DEF m
  <2> QED
    BY <1>3, <2>1, <2>2, Zenon
<1> HIDE DEF m, v, r
<1>6. Typed'
  <2>1. l \in Points
    BY DEF Points, NewPoints
  <2>2. pc' \in [Procs -> Points]
    BY <1>0, <2>1 DEF Typed, Goto
  <2>3. hand' \in [Procs -> 0..NPAGE] /\ a' \in [Procs -> 0..MaxV]
    BY <1>0, <1>1, VmAssumption DEF Typed, v
  <2> QED
    BY <1>0, <1>2, <1>5, <2>2, <2>3 DEF Typed
<1>7. Unique'
  BY <1>0, <1>1, <1>2, <1>3, <1>4, MapPgdir
<1>8. Targets'
  <2>1. l \in ForkPoints => pc[p] \in ForkPoints
    BY DEF ForkPoints
  <2> QED
    BY <1>0, <1>4, <2>1, TargetsKept
<1>9. \A q \in Procs : q # p => Same(q)
  BY <1>4 DEF Same
<1>10. Working(p)'
  BY <1>0, <1>4 DEF Working, MapPoints
<1>11. Rooted(p)'
  <2>1. pgdir'[p].dir = pgdir[p].dir
    BY <1>3, <1>4 DEF WithMapped
  <2>2. state[p] = "kernel" /\ pgdir[p].dir # 0 /\ ttbr0[p] = pgdir[p].dir /\ old[p] = NoSpace
    BY <1>0 DEF Working, Rooted, Living, FreePoints
  <2> QED
    BY <1>4, <2>1, <2>2 DEF Rooted, NewPoints, Living
<1>12. Backed(p)'
  <2>1. MappedBelow(pgdir[p], sz[p]) /\ sz[p] \in Nat
    BY <1>0, VmAssumption DEF Backed, Typed
  <2>2. MappedBelow(m, sz[p])
    BY <1>1, <1>2, <1>3, <2>1, MappedFurther DEF r
  <2> QED
    BY <1>4, <2>2 DEF Backed, NewPoints
<1> QED
  BY <1>6, <1>7, <1>8, <1>9, <1>10, <1>11, <1>12, SameKept DEF IInv

\* kalloc() gives fork() the stack of the child.
LEMMA ForkAllocStep ==
    ASSUME IInv, NEW p \in Procs, NEW q \in Procs, kalloc, state[p] = "user", state[q] = "unused",
           state' = [state EXCEPT ![p] = "kernel", ![q] = "embryo"], kstack' = [kstack EXCEPT ![q] = Head(free)],
           target' = [target EXCEPT ![p] = q], Goto(p, "copy_dir"),
           UNCHANGED <<a, lim, segs, pgdir, sz, ttbr0, new, old, hand>>
    PROVE  IInv'
<1>0. /\ Typed /\ Unique /\ Targets /\ p # q
      /\ Working(p) /\ Rooted(p) /\ Backed(p) /\ Working(q) /\ Rooted(q) /\ Backed(q)
  BY DEF IInv
<1>1. /\ free # <<>> /\ free' = Tail(free) /\ kmemheld' = kmemheld /\ free' \in Seq(Pages)
      /\ Head(free) \in Pages /\ Head(free) \in 0..NPAGE
  BY <1>0, ListTaken, PagesTyped DEF Typed, kalloc
<1>2. Typed'
  <2>1. "copy_dir" \in Points /\ q \in 0..NPROC
    BY VmAssumption DEF Points, Procs
  <2>2. pc' \in [Procs -> Points]
    BY <1>0, <2>1 DEF Typed, Goto
  <2>3. kstack' \in [Procs -> 0..NPAGE] /\ target' \in [Procs -> 0..NPROC]
    BY <1>0, <1>1, <2>1 DEF Typed
  <2>4. state' \in [Procs -> {"unused", "embryo", "user", "kernel", "zombie", "freeing", "stopped"}]
    BY <1>0 DEF Typed
  <2> QED
    BY <1>0, <1>1, <2>2, <2>3, <2>4 DEF Typed
<1>3. Unique'
  BY <1>0, <1>1, TakeStack
<1>4. /\ pc[p] = "out" /\ pc[q] = "out" /\ pc'[p] = "copy_dir" /\ pc'[q] = "out"
      /\ state'[p] = "kernel" /\ state'[q] = "embryo" /\ target'[p] = q
      /\ \A o \in Procs : o # p => pc'[o] = pc[o] /\ target'[o] = target[o]
      /\ \A o \in Procs : o # p /\ o # q => state'[o] = state[o]
  BY <1>0 DEF Typed, Goto, Working
<1>5. Targets'
  BY <1>0, <1>4, TargetsNew DEF ForkPoints, TargetPoints
<1>6. \A o \in Procs : o # p /\ o # q => Same(o)
  BY <1>4 DEF Same
<1>7. Working(p)' /\ Rooted(p)' /\ Backed(p)'
  BY <1>0, <1>4 DEF Working, Rooted, Backed, MapPoints, NewPoints, FreePoints, Living
<1>8. Working(q)' /\ Rooted(q)' /\ Backed(q)'
  BY <1>0, <1>4 DEF Working, Rooted, Backed, MapPoints, NewPoints, Living
<1> QED
  BY <1>2, <1>3, <1>5, <1>6, <1>7, <1>8, SameKept DEF IInv

\* The next turn of a loop is set up: no page moves.
LEMMA LoopStep ==
    ASSUME IInv, NEW p \in Procs, state[p] \in {"user", "kernel"}, old[p] = NoSpace,
           NEW l \in {"exec_seg", "exec_alloc", "stack_alloc", "brk_alloc"}, Goto(p, l),
           state' = [state EXCEPT ![p] = "kernel"], NEW n \in 0..MaxV, NEW m \in 0..(MaxV + 1),
           a' = [a EXCEPT ![p] = n], lim' = [lim EXCEPT ![p] = m], segs' \in [Procs -> Seq(Segments)],
           UNCHANGED <<kmemVars, kstack, pgdir, sz, ttbr0, new, old, hand, target>>,
           l \in {"exec_seg", "exec_alloc"} => m + 2 <= MaxV,
           l = "stack_alloc" => m <= MaxV,
           l # "brk_alloc" => new[p].dir # 0,
           l \in {"exec_alloc", "stack_alloc"} => MappedBelow(new[p], n),
           l = "exec_seg" => MappedBelow(new[p], m)
    PROVE  IInv'
<1>0. Typed /\ Unique /\ Targets /\ Working(p) /\ Rooted(p) /\ Backed(p)
  BY DEF IInv
<1>1. Typed'
  <2>1. l \in Points
    BY DEF Points, NewPoints
  <2>2. pc' \in [Procs -> Points]
    BY <1>0, <2>1 DEF Typed, Goto
  <2>3. a' \in [Procs -> 0..MaxV] /\ lim' \in [Procs -> 0..(MaxV + 1)]
    BY <1>0 DEF Typed
  <2>4. state' \in [Procs -> {"unused", "embryo", "user", "kernel", "zombie", "freeing", "stopped"}]
    BY <1>0 DEF Typed
  <2> QED
    BY <1>0, <2>2, <2>3, <2>4 DEF Typed, kmemVars
<1>2. Unique'
  BY <1>0, DropUnique DEF kmemVars
<1>3. /\ pc'[p] = l /\ state'[p] = "kernel" /\ a'[p] = n /\ lim'[p] = m
      /\ \A q \in Procs : q # p => pc'[q] = pc[q] /\ state'[q] = state[q] /\ a'[q] = a[q] /\ lim'[q] = lim[q]
  BY <1>0 DEF Typed, Goto
<1>4. Targets'
  <2>1. l \notin ForkPoints /\ l # "wait_free"
    BY DEF ForkPoints
  <2> QED
    BY <1>0, <1>3, <2>1, TargetsKept
<1>5. \A q \in Procs : q # p => Same(q)
  BY <1>3 DEF Same
<1>6. Working(p)'
  BY <1>3 DEF Working, MapPoints
<1>7. Rooted(p)'
  BY <1>0, <1>3 DEF Rooted, Living, NewPoints
<1>8. Backed(p)'
  BY <1>0, <1>3 DEF Backed, NewPoints
<1> QED
  BY <1>1, <1>2, <1>4, <1>5, <1>6, <1>7, <1>8, SameKept DEF IInv

\* fork() gives the child the space it has built.
LEMMA ForkDoneStep == ASSUME IInv, NEW p \in Procs, ForkDone(p) PROVE IInv'
<1>0. /\ Typed /\ Unique /\ Targets /\ Working(p) /\ Rooted(p) /\ Backed(p)
      /\ pc[p] = "copy" /\ a[p] >= lim[p] /\ state[p] = "kernel" /\ pc[p] \in TargetPoints
  BY DEF IInv, ForkDone, Working, TargetPoints, ForkPoints
<1>1. PICK q \in Procs : q = target[p] /\ state[q] = "embryo" /\ q # p
  BY <1>0 DEF Targets, ForkPoints
<1>2. Working(q) /\ Rooted(q) /\ Backed(q)
  BY <1>1 DEF IInv
<1>3. /\ pgdir' = [pgdir EXCEPT ![q] = new[p]] /\ sz' = [sz EXCEPT ![q] = sz[p]]
      /\ ttbr0' = [ttbr0 EXCEPT ![q] = new[p].dir] /\ state' = [state EXCEPT ![p] = "user", ![q] = "user"]
      /\ pc' = [pc EXCEPT ![p] = "out"] /\ new' = [new EXCEPT ![p] = NoSpace] /\ target' = [target EXCEPT ![p] = 0]
      /\ a' = [a EXCEPT ![p] = 0] /\ lim' = [lim EXCEPT ![p] = 0]
      /\ UNCHANGED <<free, kmemheld, kstack, old, hand, segs>>
  BY <1>1 DEF ForkDone, Goto, kmemVars
<1>4. Typed'
  <2>1. new[p] \in Spaces /\ new[p].dir \in 0..NPAGE /\ sz[p] \in 0..MaxV
    BY <1>0 DEF Typed, Spaces
  <2>2. pgdir' \in [Procs -> Spaces]
    BY <1>0, <1>3, <2>1 DEF Typed
  <2>3. new' \in [Procs -> Spaces]
    BY <1>0, <1>3, NoSpaceTyped DEF Typed
  <2>4. sz' \in [Procs -> 0..MaxV] /\ ttbr0' \in [Procs -> 0..NPAGE]
    BY <1>0, <1>3, <2>1 DEF Typed
  <2>5. a' \in [Procs -> 0..MaxV] /\ lim' \in [Procs -> 0..(MaxV + 1)]
    <3>1. 0 \in 0..MaxV /\ 0 \in 0..(MaxV + 1)
      BY VmAssumption
    <3>2. a' \in [Procs -> 0..MaxV]
      BY <1>0, <1>3, <3>1 DEF Typed
    <3>3. lim' \in [Procs -> 0..(MaxV + 1)]
      BY <1>0, <1>3, <3>1 DEF Typed
    <3> QED
      BY <3>2, <3>3
  <2>6. target' \in [Procs -> 0..NPROC]
    BY <1>0, <1>3, VmAssumption DEF Typed
  <2>7. /\ state' \in [Procs -> {"unused", "embryo", "user", "kernel", "zombie", "freeing", "stopped"}]
        /\ pc' \in [Procs -> Points]
    <3>1. pc' \in [Procs -> Points]
      BY <1>0, <1>3 DEF Typed, Points
    <3>2. state' \in [Procs -> {"unused", "embryo", "user", "kernel", "zombie", "freeing", "stopped"}]
      BY <1>0, <1>3 DEF Typed
    <3> QED
      BY <3>1, <3>2
  <2> QED
    BY <1>0, <1>3, <2>2, <2>3, <2>4, <2>5, <2>6, <2>7 DEF Typed
<1>5. /\ pc'[p] = "out" /\ state'[p] = "user" /\ pgdir'[p] = pgdir[p] /\ sz'[p] = sz[p] /\ ttbr0'[p] = ttbr0[p]
      /\ pc'[q] = pc[q] /\ state'[q] = "user" /\ pgdir'[q] = new[p] /\ sz'[q] = sz[p] /\ ttbr0'[q] = new[p].dir
      /\ new'[p] = NoSpace /\ new'[q] = new[q]
      /\ \A o \in Procs : o # p => new'[o] = new[o] /\ pc'[o] = pc[o] /\ target'[o] = target[o]
      /\ \A o \in Procs : o # p /\ o # q => state'[o] = state[o]
      /\ \A o \in Procs : o # q => pgdir'[o] = pgdir[o]
  BY <1>0, <1>1, <1>3 DEF Typed
<1>6. old[p] = NoSpace /\ pc[q] = "out" /\ old[q] = NoSpace
  BY <1>0, <1>1, <1>2 DEF Rooted, Working, FreePoints
<1>7. Unique'
  <2>1. \A j \in Offsets : At(old'[p], j) = 0 /\ At(new'[p], j) = 0
    BY <1>3, <1>5, <1>6, NoSpaceTyped
  <2>2. \A o \in Procs : new'[o] \in {NoSpace, new[o]}
    BY <1>5
  <2> QED
    BY <1>0, <1>1, <1>3, <1>5, <2>1, <2>2, SpaceMoves
<1>8. Targets'
  BY <1>0, <1>1, <1>5, TargetsDone
<1>9. ASSUME NEW o \in Procs, o # p, o # q PROVE Same(o)
  BY <1>0, <1>3, <1>9 DEF Same, Typed
<1>10. Working(p)' /\ Rooted(p)' /\ Backed(p)'
  <2>1. Working(p)'
    BY <1>5 DEF Working, MapPoints
  <2>2. Rooted(p)'
    BY <1>0, <1>3, <1>5, <1>6 DEF Rooted, Living, NewPoints
  <2>3. Backed(p)'
    BY <1>0, <1>5 DEF Backed, NewPoints
  <2> QED
    BY <2>1, <2>2, <2>3
<1>11. Working(q)'
  BY <1>5, <1>6 DEF Working, MapPoints
<1>12. Rooted(q)'
  BY <1>0, <1>3, <1>5, <1>6 DEF Rooted, Living, NewPoints
<1>13. Backed(q)'
  <2>1. MappedBelow(new[p], a[p]) /\ lim[p] = sz[p] /\ sz[p] \in Nat /\ a[p] \in Nat
    BY <1>0, VmAssumption DEF Backed, NewPoints, Typed
  <2>2. \A v \in VPages : v \in Nat
    BY RegionTyped
  <2>3. MappedBelow(new[p], sz[p])
    BY <1>0, <2>1, <2>2 DEF MappedBelow
  <2> QED
    BY <1>5, <1>6, <2>3 DEF Backed, NewPoints
<1> QED
  BY <1>4, <1>7, <1>8, <1>9, <1>10, <1>11, <1>12, <1>13, SameKept DEF IInv

\* execve() changes to the space it has built.
LEMMA ExecSwitchStep == ASSUME IInv, NEW p \in Procs, ExecSwitch(p) PROVE IInv'
<1>0. /\ Typed /\ Unique /\ Targets /\ Working(p) /\ Rooted(p) /\ Backed(p)
      /\ pc[p] = "stack_alloc" /\ a[p] >= lim[p] /\ state[p] = "kernel"
  BY DEF IInv, ExecSwitch, Working
<1>a. lim[p] \in 0..MaxV
  <2>1. lim[p] \in 0..(MaxV + 1) /\ lim[p] <= MaxV
    BY <1>0 DEF Typed, Working
  <2> QED
    BY <2>1, VmAssumption
<1>1. /\ pgdir' = [pgdir EXCEPT ![p] = new[p]] /\ sz' = [sz EXCEPT ![p] = lim[p]]
      /\ ttbr0' = [ttbr0 EXCEPT ![p] = new[p].dir] /\ old' = [old EXCEPT ![p] = pgdir[p]]
      /\ new' = [new EXCEPT ![p] = NoSpace] /\ pc' = [pc EXCEPT ![p] = "exec_free"]
      /\ UNCHANGED <<free, kmemheld, state, kstack, hand, a, lim, segs, target>>
  BY DEF ExecSwitch, Goto, kmemVars
<1>2. Typed'
  <2>1. new[p] \in Spaces /\ new[p].dir \in 0..NPAGE /\ pgdir[p] \in Spaces
    BY <1>0 DEF Typed, Spaces
  <2>2. pgdir' \in [Procs -> Spaces] /\ old' \in [Procs -> Spaces]
    BY <1>0, <1>1, <2>1 DEF Typed
  <2>3. new' \in [Procs -> Spaces]
    BY <1>0, <1>1, NoSpaceTyped DEF Typed
  <2>4. sz' \in [Procs -> 0..MaxV] /\ ttbr0' \in [Procs -> 0..NPAGE]
    BY <1>0, <1>a, <1>1, <2>1 DEF Typed
  <2>5. pc' \in [Procs -> Points]
    BY <1>0, <1>1 DEF Typed, Points, FreePoints
  <2> QED
    BY <1>0, <1>1, <2>2, <2>3, <2>4, <2>5 DEF Typed
<1>3. /\ pc'[p] = "exec_free" /\ pgdir'[p] = new[p] /\ sz'[p] = lim[p] /\ ttbr0'[p] = new[p].dir
      /\ old'[p] = pgdir[p] /\ new'[p] = NoSpace
      /\ \A o \in Procs : o # p => /\ pc'[o] = pc[o] /\ pgdir'[o] = pgdir[o] /\ old'[o] = old[o]
                                   /\ new'[o] = new[o] /\ sz'[o] = sz[o] /\ ttbr0'[o] = ttbr0[o]
  BY <1>0, <1>1 DEF Typed
<1>4. Unique'
  <2>1. \A j \in Offsets : At(new'[p], j) = 0
    BY <1>3, NoSpaceTyped
  <2>2. \A o \in Procs : new'[o] \in {NoSpace, new[o]}
    BY <1>3
  <2> QED
    BY <1>0, <1>1, <1>3, <2>1, <2>2, SpaceMoves
<1>5. Targets'
  BY <1>0, <1>1, <1>3, TargetsKept DEF ForkPoints
<1>6. ASSUME NEW o \in Procs, o # p PROVE Same(o)
  BY <1>1, <1>3, <1>6 DEF Same
<1>7. Working(p)'
  BY <1>0, <1>1, <1>3 DEF Working, MapPoints
<1>8. Rooted(p)'
  BY <1>0, <1>1, <1>3 DEF Rooted, Living, NewPoints, FreePoints
<1>9. Backed(p)'
  <2>1. MappedBelow(new[p], a[p]) /\ lim[p] \in Nat /\ a[p] \in Nat
    BY <1>0, <1>a, VmAssumption DEF Backed, NewPoints, Typed
  <2>2. \A v \in VPages : v \in Nat
    BY RegionTyped
  <2>3. MappedBelow(new[p], lim[p])
    BY <1>0, <2>1, <2>2 DEF MappedBelow
  <2> QED
    BY <1>3, <2>3 DEF Backed, NewPoints
<1> QED
  BY <1>2, <1>4, <1>5, <1>6, <1>7, <1>8, <1>9, SameKept DEF IInv

\* exit(): the process leaves its CPU.
LEMMA ExitStep == ASSUME IInv, NEW p \in Procs, Exit(p) PROVE IInv'
<1>0. Typed /\ Unique /\ Targets /\ Working(p) /\ Rooted(p) /\ Backed(p) /\ state[p] = "user" /\ pc[p] = "out"
  BY DEF IInv, Exit, Working
<1>1. /\ state' = [state EXCEPT ![p] = "zombie"]
      /\ UNCHANGED <<free, kmemheld, kstack, pgdir, sz, ttbr0, pc, new, old, hand, a, lim, segs, target>>
  BY DEF Exit, kmemVars, jobVars
<1>2. Typed'
  <2>1. state' \in [Procs -> {"unused", "embryo", "user", "kernel", "zombie", "freeing", "stopped"}]
    BY <1>0, <1>1 DEF Typed
  <2> QED
    BY <1>0, <1>1, <2>1 DEF Typed
<1>3. Unique'
  BY <1>0, <1>1, DropUnique
<1>4. state'[p] = "zombie" /\ \A o \in Procs : o # p => state'[o] = state[o]
  BY <1>0, <1>1 DEF Typed
<1>5. Targets'
  BY <1>0, <1>1, <1>4, TargetsKept
<1>6. ASSUME NEW o \in Procs, o # p PROVE Same(o)
  BY <1>1, <1>4, <1>6 DEF Same
<1>7. Working(p)'
  BY <1>0, <1>1 DEF Working, MapPoints
<1>8. Rooted(p)'
  BY <1>0, <1>1, <1>4 DEF Rooted, Living, NewPoints
<1>9. Backed(p)'
  BY <1>0, <1>1 DEF Backed, NewPoints
<1> QED
  BY <1>2, <1>3, <1>5, <1>6, <1>7, <1>8, <1>9, SameKept DEF IInv

\* wait() takes the space of a zombie to free it.
LEMMA WaitCleanStep == ASSUME IInv, NEW p \in Procs, NEW q \in Procs, WaitClean(p, q) PROVE IInv'
<1>0. /\ Typed /\ Unique /\ Targets /\ Working(p) /\ Rooted(p) /\ Backed(p) /\ Working(q) /\ Rooted(q) /\ Backed(q)
      /\ state[p] = "user" /\ state[q] = "zombie" /\ p # q
  BY DEF IInv, WaitClean
<1>1. pc[p] = "out" /\ pc[q] = "out" /\ old[p] = NoSpace /\ old[q] = NoSpace /\ pgdir[q].dir # 0
  BY <1>0 DEF Working, Rooted, Living, FreePoints
<1>2. /\ state' = [state EXCEPT ![p] = "kernel", ![q] = "freeing"] /\ pc' = [pc EXCEPT ![p] = "wait_free"]
      /\ kstack' = [kstack EXCEPT ![q] = 0] /\ sz' = [sz EXCEPT ![q] = 0]
      /\ old' = [old EXCEPT ![p] = pgdir[q]] /\ pgdir' = [pgdir EXCEPT ![q] = NoSpace]
      /\ target' = [target EXCEPT ![p] = q]
      /\ UNCHANGED <<free, kmemheld, ttbr0, new, hand, a, lim, segs>>
  BY DEF WaitClean, Goto, kmemVars
<1>3. Typed'
  <2>0. 0 \in 0..NPAGE /\ 0 \in 0..MaxV /\ q \in 0..NPROC /\ pgdir[q] \in Spaces
    BY <1>0, VmAssumption DEF Procs, Typed
  <2>1. state' \in [Procs -> {"unused", "embryo", "user", "kernel", "zombie", "freeing", "stopped"}]
    BY <1>0, <1>2 DEF Typed
  <2>2. pc' \in [Procs -> Points]
    BY <1>0, <1>2 DEF Typed, Points, FreePoints
  <2>3. kstack' \in [Procs -> 0..NPAGE]
    BY <1>0, <1>2, <2>0 DEF Typed
  <2>4. sz' \in [Procs -> 0..MaxV]
    BY <1>0, <1>2, <2>0 DEF Typed
  <2>5. target' \in [Procs -> 0..NPROC]
    BY <1>0, <1>2, <2>0 DEF Typed
  <2>6. old' \in [Procs -> Spaces]
    BY <1>0, <1>2, <2>0 DEF Typed
  <2>7. pgdir' \in [Procs -> Spaces]
    BY <1>0, <1>2, NoSpaceTyped DEF Typed
  <2> QED
    BY <1>0, <1>2, <2>1, <2>2, <2>3, <2>4, <2>5, <2>6, <2>7 DEF Typed
<1>4. /\ pc'[p] = "wait_free" /\ pc'[q] = "out" /\ state'[p] = "kernel" /\ state'[q] = "freeing" /\ target'[p] = q
      /\ old'[p] = pgdir[q] /\ old'[q] = NoSpace /\ pgdir'[q] = NoSpace /\ pgdir'[p] = pgdir[p]
      /\ sz'[q] = 0 /\ sz'[p] = sz[p]
      /\ \A o \in Procs : o # p => pc'[o] = pc[o] /\ target'[o] = target[o] /\ old'[o] = old[o]
      /\ \A o \in Procs : o # q => pgdir'[o] = pgdir[o]
      /\ \A o \in Procs : o # p /\ o # q => state'[o] = state[o]
  BY <1>0, <1>1, <1>2 DEF Typed
<1>5. Unique'
  <2>1. \A j \in Offsets : At(pgdir'[q], j) = 0
    BY <1>4, NoSpaceTyped
  <2>2. \A o \in Procs : kstack'[o] \in {0, kstack[o]}
    BY <1>0, <1>2 DEF Typed
  <2> QED
    BY <1>0, <1>2, <1>4, <2>1, <2>2, SpaceMoves
<1>6. Targets'
  BY <1>0, <1>1, <1>4, TargetsNew DEF ForkPoints, TargetPoints
<1>7. ASSUME NEW o \in Procs, o # p, o # q PROVE Same(o)
  BY <1>0, <1>2, <1>4, <1>7 DEF Same, Typed
<1>8. Working(p)' /\ Working(q)'
  BY <1>4 DEF Working, MapPoints
<1>9. Rooted(p)'
  BY <1>0, <1>1, <1>2, <1>4 DEF Rooted, Living, NewPoints, FreePoints
<1>10. Rooted(q)'
  BY <1>4 DEF Rooted, Living, NewPoints
<1>11. Backed(p)'
  BY <1>0, <1>4 DEF Backed, NewPoints
<1>12. Backed(q)'
  <2>1. \A v \in VPages : ~ (v < 0)
    BY RegionTyped
  <2> QED
    BY <1>4, <2>1 DEF Backed, NewPoints, MappedBelow
<1> QED
  BY <1>3, <1>5, <1>6, <1>7, <1>8, <1>9, <1>10, <1>11, <1>12, SameKept DEF IInv

\* wait() has freed the space, and the slot is unused.
LEMMA WaitDoneStep == ASSUME IInv, NEW p \in Procs, WaitDone(p) PROVE IInv'
<1>0. /\ Typed /\ Unique /\ Targets /\ Working(p) /\ Rooted(p) /\ Backed(p)
      /\ pc[p] = "wait_free" /\ pc[p] \in TargetPoints /\ state[p] = "kernel" /\ old[p] = NoSpace
  BY DEF IInv, WaitDone, Working, TargetPoints
<1>1. PICK q \in Procs : q = target[p] /\ state[q] = "freeing" /\ q # p
  BY <1>0 DEF Targets
<1>2. Working(q) /\ Rooted(q) /\ Backed(q)
  BY DEF IInv
<1>3. /\ state' = [state EXCEPT ![p] = "user", ![q] = "unused"] /\ pc' = [pc EXCEPT ![p] = "out"]
      /\ target' = [target EXCEPT ![p] = 0]
      /\ UNCHANGED <<free, kmemheld, kstack, pgdir, sz, ttbr0, new, old, hand, a, lim, segs>>
  BY <1>1 DEF WaitDone, Goto, kmemVars
<1>4. Typed'
  <2>1. state' \in [Procs -> {"unused", "embryo", "user", "kernel", "zombie", "freeing", "stopped"}]
    BY <1>0, <1>3 DEF Typed
  <2>2. pc' \in [Procs -> Points]
    BY <1>0, <1>3 DEF Typed, Points
  <2>3. target' \in [Procs -> 0..NPROC]
    BY <1>0, <1>3, VmAssumption DEF Typed
  <2> QED
    BY <1>0, <1>3, <2>1, <2>2, <2>3 DEF Typed
<1>5. Unique'
  BY <1>0, <1>3, DropUnique
<1>6. /\ pc'[p] = "out" /\ pc'[q] = pc[q] /\ state'[p] = "user" /\ state'[q] = "unused"
      /\ \A o \in Procs : o # p => pc'[o] = pc[o] /\ target'[o] = target[o]
      /\ \A o \in Procs : o # p /\ o # q => state'[o] = state[o]
  BY <1>0, <1>1, <1>3 DEF Typed
<1>7. Targets'
  BY <1>0, <1>1, <1>6, TargetsDone
<1>8. ASSUME NEW o \in Procs, o # p, o # q PROVE Same(o)
  BY <1>3, <1>6, <1>8 DEF Same
<1>9. pc[q] = "out"
  BY <1>1, <1>2 DEF Working
<1>10. Working(p)' /\ Working(q)'
  BY <1>6, <1>9 DEF Working, MapPoints
<1>11. Rooted(p)'
  BY <1>0, <1>3, <1>6 DEF Rooted, Living, NewPoints
<1>12. Rooted(q)'
  BY <1>1, <1>2, <1>3, <1>6, <1>9 DEF Rooted, Living, NewPoints
<1>13. Backed(p)' /\ Backed(q)'
  BY <1>0, <1>2, <1>3, <1>6, <1>9 DEF Backed, NewPoints
<1> QED
  BY <1>4, <1>5, <1>7, <1>8, <1>10, <1>11, <1>12, <1>13, SameKept DEF IInv

\* The search for a slot and the walk over the tables take the lowest one.
LEMMA Lowest ==
    ASSUME NEW T \in SUBSET Nat, T # {}
    PROVE  (CHOOSE x \in T : \A y \in T : x <= y) \in T
<1> DEFINE R == OpToRel(<, Nat)
<1>1. IsWellFoundedOn(R, Nat)
  BY NatLessThanWellFounded, Zenon
<1>2. \A x, y \in Nat : x < y => <<x, y>> \in R
  BY DEF OpToRel
<1> HIDE DEF R
<1>3. PICK x \in T : \A y \in T : ~ (<<y, x>> \in R)
  BY <1>1, WFMin
<1>4. ASSUME NEW y \in T PROVE x <= y
  <2>1. x \in Nat /\ y \in Nat /\ ~ (y < x)
    BY <1>2, <1>3
  <2> QED
    BY <2>1
<1> QED
  BY <1>4

\* vm_free() gives a table back.
LEMMA FreeTableStep ==
    ASSUME IInv, NEW p \in Procs, pc[p] \in FreePoints, NEW t \in Regions, old[p].table[t] # 0, kfree(old[p].table[t]),
           old' = [old EXCEPT ![p].table[t] = 0,
                              ![p].leaf = [v \in VPages |-> IF RegionOf(v) = t THEN 0 ELSE @[v]]],
           UNCHANGED <<state, kstack, pgdir, sz, ttbr0, pc, new, hand, a, lim, segs, target>>
    PROVE  IInv'
<1>0. Typed /\ Unique /\ Targets /\ Working(p) /\ Rooted(p) /\ Backed(p)
  BY DEF IInv
<1>1. old[p] \in Spaces /\ old \in [Procs -> Spaces]
  BY <1>0 DEF Typed
<1>2. /\ old'[p].dir = old[p].dir /\ old'[p].table = [old[p].table EXCEPT ![t] = 0]
      /\ old'[p].leaf = [v \in VPages |-> IF RegionOf(v) = t THEN 0 ELSE old[p].leaf[v]]
      /\ old'[p] \in Spaces /\ \A o \in Procs : o # p => old'[o] = old[o]
  <2>1. 0 \in 0..NPAGE
    BY VmAssumption
  <2> QED
    BY <1>1, <2>1 DEF Spaces
<1>3. old' \in [Procs -> Spaces]
  <2>1. DOMAIN old' = Procs /\ old' = [o \in Procs |-> old'[o]]
    BY <1>1
  <2> QED
    BY <1>1, <1>2, <2>1
<1> HIDE DEF Goto
<1>4. PICK m \in Spaces : m = old'[p]
  BY <1>2
<1>5. /\ At(m, MaxV + t) = 0 /\ MaxV + t \in Offsets
      /\ \A j \in Offsets : At(m, j) # 0 => At(m, j) = At(old[p], j)
  <2>1. /\ m.dir = old[p].dir /\ m.table = [old[p].table EXCEPT ![t] = 0]
        /\ m.leaf = [v \in VPages |-> IF RegionOf(v) = t THEN 0 ELSE old[p].leaf[v]]
    BY <1>2, <1>4, Zenon
  <2>2. PICK s \in Spaces : s = old[p]
    BY <1>1
  <2>3. /\ m.dir = s.dir /\ m.table = [s.table EXCEPT ![t] = 0]
        /\ m.leaf = [v \in VPages |-> IF RegionOf(v) = t THEN 0 ELSE s.leaf[v]]
    BY <2>1, <2>2, Zenon
  <2>4. /\ At(m, MaxV + t) = 0 /\ MaxV + t \in Offsets
        /\ \A j \in Offsets : At(m, j) # 0 => At(m, j) = At(s, j)
    BY <2>3, ClearedTyped, SMTT(30)
  <2> QED
    BY <2>2, <2>4
<1>6. At(old[p], MaxV + t) = old[p].table[t] /\ old[p].table[t] \in Pages
  BY <1>1, AtOf, VmAssumption DEF Spaces, Pages
<1> DEFINE g == <<p, "old", MaxV + t>>
<1>7. g \in OwnPlaces /\ Page[g] = old[p].table[t] /\ Page'[g] = 0
  <2>1. g \in OwnPlaces
    BY <1>5, PlaceKinds
  <2>2. Page[g] = At(old[p], MaxV + t) /\ Page'[g] = At(old'[p], MaxV + t)
    BY <1>5, PageOf, PageOfNext DEF Laid
  <2> HIDE DEF g
  <2> QED
    BY <1>4, <1>5, <1>6, <2>1, <2>2
<1> HIDE DEF g
<1>8. free' = <<old[p].table[t]>> \o free /\ kmemheld' = kmemheld /\ free' \in Seq(Pages)
  BY <1>0, <1>6, ListGiven DEF kfree, Typed
<1>9. Typed'
  BY <1>0, <1>3, <1>8 DEF Typed
<1>10. Unique'
  <2>1. ASSUME NEW o \in Procs, NEW j \in Offsets PROVE At(old'[o], j) \in {0, At(old[o], j)}
    BY <1>2, <1>4, <1>5
  <2>2. \A x \in OwnPlaces \ {} : Page'[x] # 0 => Page'[x] = Page[x]
    BY <2>1, Stay
  <2> QED
    BY <1>0, <1>6, <1>7, <1>8, <2>2, GiveUnique DEF Typed
<1>11. Targets'
  BY <1>0, TargetsKept
<1>12. ASSUME NEW o \in Procs, o # p PROVE Same(o)
  BY <1>2, <1>12 DEF Same
<1>13. Working(p)' /\ Backed(p)'
  BY <1>0 DEF Working, Backed
<1>14. Rooted(p)'
  <2>1. old[p] # NoSpace
    BY <1>5, <1>6, NoSpaceTyped, VmAssumption DEF Pages
  <2> QED
    BY <1>0, <1>2, <2>1 DEF Rooted
<1> QED
  BY <1>9, <1>10, <1>11, <1>12, <1>13, <1>14, SameKept DEF IInv

\* vm_free() gives the directory back.
LEMMA FreeDirStep ==
    ASSUME IInv, NEW p \in Procs, pc[p] \in FreePoints, old[p] # NoSpace, kfree(old[p].dir),
           old' = [old EXCEPT ![p] = NoSpace],
           UNCHANGED <<state, kstack, pgdir, sz, ttbr0, pc, new, hand, a, lim, segs, target>>
    PROVE  IInv'
<1>0. Typed /\ Unique /\ Targets /\ Working(p) /\ Rooted(p) /\ Backed(p)
  BY DEF IInv
<1>1. old[p] \in Spaces /\ old[p].dir # 0 /\ old[p].dir \in Pages
  BY <1>0, VmAssumption DEF Typed, Rooted, Spaces, Pages
<1>2. old'[p] = NoSpace /\ \A o \in Procs : o # p => old'[o] = old[o]
  BY <1>0 DEF Typed
<1>3. old' \in [Procs -> Spaces]
  BY <1>0, NoSpaceTyped DEF Typed
<1> DEFINE g == <<p, "old", -1>>
<1>4. g \in OwnPlaces /\ Page[g] = old[p].dir /\ Page'[g] = 0
  <2>1. g \in OwnPlaces
    BY OffsetKinds, PlaceKinds
  <2>2. Page[g] = At(old[p], -1) /\ Page'[g] = At(old'[p], -1)
    BY OffsetKinds, PageOf, PageOfNext DEF Laid
  <2>3. At(old[p], -1) = old[p].dir /\ At(old'[p], -1) = 0
    BY <1>2, OffsetKinds, AtOf, NoSpaceTyped
  <2> HIDE DEF g
  <2> QED
    BY <2>1, <2>2, <2>3
<1> HIDE DEF g
<1>5. free' = <<old[p].dir>> \o free /\ kmemheld' = kmemheld /\ free' \in Seq(Pages)
  BY <1>0, <1>1, ListGiven DEF kfree, Typed
<1>6. Typed'
  BY <1>0, <1>3, <1>5 DEF Typed
<1>7. Unique'
  <2>1. ASSUME NEW o \in Procs, NEW j \in Offsets PROVE At(old'[o], j) \in {0, At(old[o], j)}
    BY <1>2, NoSpaceTyped
  <2>2. \A x \in OwnPlaces \ {} : Page'[x] # 0 => Page'[x] = Page[x]
    BY <2>1, Stay
  <2> QED
    BY <1>0, <1>1, <1>4, <1>5, <2>2, GiveUnique DEF Typed
<1>8. Targets'
  BY <1>0, TargetsKept
<1>9. ASSUME NEW o \in Procs, o # p PROVE Same(o)
  BY <1>2, <1>9 DEF Same
<1>10. Working(p)' /\ Backed(p)'
  BY <1>0 DEF Working, Backed
<1>11. Rooted(p)'
  BY <1>0, <1>2 DEF Rooted
<1> QED
  BY <1>6, <1>7, <1>8, <1>9, <1>10, <1>11, SameKept DEF IInv

LEMMA VmFreeStep == ASSUME IInv, NEW p \in Procs, VmFree(p) PROVE IInv'
<1>1. /\ pc[p] \in FreePoints /\ FreeOne(p)
      /\ UNCHANGED <<state, kstack, pgdir, sz, ttbr0, pc, new, hand, a, lim, segs, target>>
  BY DEF VmFree, FreePoints
<1> DEFINE regions == {t \in Regions : old[p].table[t] # 0}
           t == CHOOSE x \in regions : \A y \in regions : x <= y
<1>2. CASE regions # {}
  <2>1. regions \in SUBSET Nat
    BY RegionTyped
  <2>2. t \in regions
    <3> HIDE DEF regions
    <3> QED
      BY <1>2, <2>1, Lowest
  <2>3. /\ kfree(old[p].table[t])
        /\ old' = [old EXCEPT ![p].table[t] = 0,
                              ![p].leaf = [v \in VPages |-> IF RegionOf(v) = t THEN 0 ELSE @[v]]]
    BY <1>1, <1>2 DEF FreeOne
  <2>4. t \in Regions /\ old[p].table[t] # 0
    BY <2>2
  <2> HIDE DEF t
  <2> QED
    BY <1>1, <2>3, <2>4, FreeTableStep
<1>3. CASE regions = {}
  <2>1. old[p] # NoSpace /\ kfree(old[p].dir) /\ old' = [old EXCEPT ![p] = NoSpace]
    BY <1>1, <1>3 DEF FreeOne
  <2> QED
    BY <1>1, <2>1, FreeDirStep
<1> QED
  BY <1>2, <1>3

\* Nothing changes but kmemcslock, which a failed kalloc() leaves locked.
LEMMA HeldStep ==
    ASSUME IInv, kmemheld' \in BOOLEAN,
           UNCHANGED <<free, state, kstack, pgdir, sz, ttbr0, pc, new, old, hand, a, lim, segs, target>>
    PROVE  IInv'
<1>1. Typed /\ Unique /\ Targets
  BY DEF IInv
<1>2. Typed'
  BY <1>1 DEF Typed
<1>3. Unique'
  BY <1>1, DropUnique
<1>4. Targets'
  BY <1>1 DEF Targets
<1>5. \A q \in Procs : Same(q)
  BY DEF Same
<1> QED
  BY <1>2, <1>3, <1>4, <1>5, SameKept DEF IInv

\* A process in the kernel, outside vm_free(), has nothing to free.
LEMMA NothingOld ==
    ASSUME IInv, NEW p \in Procs, pc[p] \notin FreePoints
    PROVE  old[p] = NoSpace
  BY DEF IInv, Rooted

LEMMA ForkAllocInv == ASSUME IInv, NEW p \in Procs, ForkAlloc(p) PROVE IInv'
<1> DEFINE slots == {q \in Procs : state[q] = "unused"}
           q == CHOOSE x \in slots : \A y \in slots : x <= y
<1>0. state[p] = "user" /\ pc[p] = "out" /\ old[p] = NoSpace
  <2>1. state[p] = "user"
    BY DEF ForkAlloc
  <2>2. pc[p] = "out"
    BY <2>1 DEF IInv, Working
  <2> QED
    BY <2>1, <2>2, NothingOld DEF FreePoints
<1>1. CASE Stop(p) /\ UNCHANGED <<kstack, target>> /\ free' = free /\ kmemheld' \in BOOLEAN
  <2>1. UNCHANGED <<pgdir, sz, ttbr0, new, old, hand>> /\ Leave(p, "stopped")
    BY <1>1 DEF ForkAlloc, Stop
  <2> QED
    BY <1>0, <1>1, <2>1, LeaveStep
<1>2. CASE slots = {}
  <2>1. Stop(p) /\ UNCHANGED <<kmemVars, kstack, target>>
    BY <1>2 DEF ForkAlloc
  <2>2. kmemheld \in BOOLEAN
    BY DEF IInv, Typed
  <2> QED
    BY <1>1, <2>1, <2>2 DEF kmemVars
<1>3. CASE slots # {}
  <2>1. q \in slots
    <3>1. slots \in SUBSET Nat
      BY VmAssumption DEF Procs
    <3> HIDE DEF slots
    <3> QED
      BY <1>3, <3>1, Lowest
  <2>2. PICK r \in Procs : r = q /\ state[r] = "unused"
    BY <2>1
  <2>3. WithPage(LAMBDA pg : /\ state' = [state EXCEPT ![p] = "kernel", ![q] = "embryo"]
                             /\ kstack' = [kstack EXCEPT ![q] = pg]
                             /\ target' = [target EXCEPT ![p] = q]
                             /\ Goto(p, "copy_dir") /\ UNCHANGED <<a, lim, segs>>,
                 Stop(p) /\ UNCHANGED <<kstack, target>>)
    BY <1>3 DEF ForkAlloc
  <2> HIDE DEF q, slots
  <2>4. CASE kallocFails /\ Stop(p) /\ UNCHANGED <<kstack, target>>
    BY <1>1, <2>4 DEF kallocFails
  <2>5. CASE /\ kalloc
             /\ state' = [state EXCEPT ![p] = "kernel", ![r] = "embryo"] /\ kstack' = [kstack EXCEPT ![r] = Head(free)]
             /\ target' = [target EXCEPT ![p] = r] /\ Goto(p, "copy_dir") /\ UNCHANGED <<a, lim, segs>>
    <3>1. UNCHANGED <<pgdir, sz, ttbr0, new, old, hand>>
      BY DEF ForkAlloc
    <3> QED
      BY <1>0, <2>2, <2>5, <3>1, ForkAllocStep
  <2> QED
    BY <2>2, <2>3, <2>4, <2>5 DEF WithPage
<1> QED
  BY <1>2, <1>3

LEMMA CopyDirInv == ASSUME IInv, NEW p \in Procs, CopyDir(p) PROVE IInv'
<1>0. pc[p] = "copy_dir" /\ state[p] = "kernel" /\ old[p] = NoSpace /\ Typed
  BY NothingOld DEF CopyDir, IInv, Working, FreePoints
<1>1. UNCHANGED <<kstack, pgdir, sz, ttbr0, old, hand, target>>
  BY DEF CopyDir
<1>2. CASE kallocFails /\ Stop(p) /\ UNCHANGED new
  BY <1>0, <1>1, <1>2, LeaveStep DEF Stop, kallocFails
<1>3. CASE /\ kalloc /\ new' = [new EXCEPT ![p] = [NoSpace EXCEPT !.dir = Head(free)]]
           /\ a' = [a EXCEPT ![p] = 0] /\ lim' = [lim EXCEPT ![p] = sz[p]]
           /\ Goto(p, "copy") /\ UNCHANGED <<state, segs>>
  <2>1. state' = [state EXCEPT ![p] = "kernel"] /\ segs' \in [Procs -> Seq(Segments)]
    BY <1>0, <1>3 DEF Typed
  <2> QED
    BY <1>0, <1>1, <1>3, <2>1, TakeDirStep
<1> QED
  BY <1>2, <1>3 DEF CopyDir, WithPage

LEMMA CopyPageInv == ASSUME IInv, NEW p \in Procs, CopyPage(p) PROVE IInv'
<1>0. pc[p] = "copy" /\ a[p] < lim[p] /\ state[p] = "kernel" /\ old[p] = NoSpace /\ kmemheld \in BOOLEAN
  BY NothingOld DEF CopyPage, IInv, Working, FreePoints, Typed
<1>1. UNCHANGED <<kstack, pgdir, sz, ttbr0, new, old, target>>
  BY DEF CopyPage
<1>a. a[p] < MaxV
  BY <1>0, VmAssumption DEF IInv, Typed, Backed
<1>2. CASE Stop(p) /\ UNCHANGED hand /\ free' = free /\ kmemheld' \in BOOLEAN
  BY <1>0, <1>1, <1>2, LeaveStep DEF Stop
<1>3. CASE /\ kalloc /\ hand' = [hand EXCEPT ![p] = Head(free)] /\ Goto(p, "copy_map")
           /\ UNCHANGED <<state, a, lim, segs>>
  BY <1>0, <1>a, <1>1, <1>3, TakeHandStep
<1> QED
  BY <1>0, <1>2, <1>3 DEF CopyPage, WithPage, kallocFails, kmemVars

LEMMA CopyMapInv == ASSUME IInv, NEW p \in Procs, CopyMap(p) PROVE IInv'
<1>0. pc[p] = "copy_map" /\ state[p] = "kernel" /\ old[p] = NoSpace /\ kmemheld \in BOOLEAN
  BY NothingOld DEF CopyMap, IInv, Working, FreePoints, Typed
<1>1. MapPage(p, "copy", Stop(p) /\ UNCHANGED new) /\ UNCHANGED <<kstack, sz, ttbr0, old, target>>
  BY DEF CopyMap
<1>2. hand' = [hand EXCEPT ![p] = 0]
  BY <1>1 DEF MapPage
<1>3. CASE Stop(p) /\ UNCHANGED new /\ UNCHANGED pgdir /\ free' = free /\ kmemheld' \in BOOLEAN
  BY <1>0, <1>1, <1>2, <1>3, LeaveStep DEF Stop
<1>4. ASSUME NEW t, SetSpace(p, Mapped(Space(p), p, t)), a' = [a EXCEPT ![p] = @ + 1], Goto(p, "copy"),
             UNCHANGED <<state, lim, segs>>,
             \/ t = Space(p).table[RegionOf(a[p])] /\ t # 0 /\ UNCHANGED kmemVars
             \/ t = Head(free) /\ kalloc
      PROVE  IInv'
  <2>1. Space(p) = new[p] /\ new' = [new EXCEPT ![p] = Mapped(new[p], p, t)] /\ UNCHANGED pgdir
    BY <1>0, <1>4 DEF Space, SetSpace, InPlace
  <2> QED
    BY <1>0, <1>1, <1>2, <1>4, <2>1, MapNewStep
<1> QED
  BY <1>0, <1>1, <1>3, <1>4, MapCases DEF kallocFails, kmemVars


\* What a process in the kernel has, outside vm_free().
LEMMA AtWork ==
    ASSUME IInv, NEW p \in Procs, pc[p] # "out", pc[p] \notin FreePoints
    PROVE  /\ state[p] = "kernel" /\ state = [state EXCEPT ![p] = "kernel"] /\ old[p] = NoSpace
           /\ kmemheld \in BOOLEAN /\ segs \in [Procs -> Seq(Segments)]
           /\ a[p] \in 0..MaxV /\ lim[p] \in 0..(MaxV + 1) /\ sz[p] \in 0..MaxV
           /\ a = [a EXCEPT ![p] = a[p]] /\ lim = [lim EXCEPT ![p] = lim[p]]
<1>1. Typed /\ state[p] = "kernel"
  BY DEF IInv, Working
<1> QED
  BY <1>1, NothingOld DEF Typed

LEMMA ExecDirInv == ASSUME IInv, NEW p \in Procs, NEW prog \in Programs, ExecDir(p, prog) PROVE IInv'
<1>0. state[p] = "user" /\ old[p] = NoSpace /\ Typed
  BY NothingOld DEF ExecDir, IInv, Working, FreePoints
<1>1. UNCHANGED <<kstack, pgdir, sz, ttbr0, old, hand, target>>
  BY DEF ExecDir
<1>2. CASE kallocFails /\ UNCHANGED <<state, new, segs, a, lim, pc>>
  BY <1>0, <1>1, <1>2, HeldStep DEF kallocFails
<1>3. CASE /\ kalloc /\ state' = [state EXCEPT ![p] = "kernel"]
           /\ new' = [new EXCEPT ![p] = [NoSpace EXCEPT !.dir = Head(free)]]
           /\ segs' = [segs EXCEPT ![p] = prog]
           /\ a' = [a EXCEPT ![p] = 0] /\ lim' = [lim EXCEPT ![p] = 0] /\ Goto(p, "exec_seg")
  <2>1. prog \in Seq(Segments)
    BY ProgramsAssumption
  <2>2. segs' \in [Procs -> Seq(Segments)]
    BY <1>0, <1>3, <2>1 DEF Typed
  <2> QED
    BY <1>0, <1>1, <1>3, <2>2, TakeDirStep
<1> QED
  BY <1>2, <1>3 DEF ExecDir, WithPage

LEMMA ExecReadFailsInv == ASSUME IInv, NEW p \in Procs, ExecReadFails(p) PROVE IInv'
<1>1. pc[p] = "exec_seg" /\ ExecFailed(p) /\ UNCHANGED <<kmemVars, kstack, pgdir, sz, ttbr0, old, hand, target>>
  BY DEF ExecReadFails
<1>2. state[p] = "kernel" /\ old[p] = NoSpace /\ kmemheld \in BOOLEAN
  BY <1>1, AtWork DEF FreePoints
<1> QED
  BY <1>1, <1>2, LeaveStep DEF ExecFailed, Return, kmemVars

LEMMA ExecSegInv == ASSUME IInv, NEW p \in Procs, ExecSeg(p) PROVE IInv'
<1> DEFINE s == Head(segs[p])
           n == IF lim[p] < s.end THEN lim[p] ELSE s.end
           m == IF s.odd THEN s.end + 1 ELSE s.end
<1>1. /\ pc[p] = "exec_seg" /\ segs[p] # <<>> /\ a' = [a EXCEPT ![p] = n] /\ lim' = [lim EXCEPT ![p] = m]
      /\ segs' = [segs EXCEPT ![p] = Tail(@)] /\ Goto(p, "exec_alloc")
      /\ UNCHANGED <<kmemVars, state, kstack, pgdir, sz, ttbr0, new, old, hand, target>>
  BY DEF ExecSeg
<1>2. /\ state[p] = "kernel" /\ state = [state EXCEPT ![p] = "kernel"] /\ old[p] = NoSpace
      /\ segs \in [Procs -> Seq(Segments)] /\ lim[p] \in 0..(MaxV + 1)
  BY <1>1, AtWork DEF FreePoints
<1>3. segs[p] \in Seq(Segments)
  BY <1>2
<1>4. s \in Segments /\ Tail(segs[p]) \in Seq(Segments)
  BY <1>1, <1>3
<1>5. segs' \in [Procs -> Seq(Segments)]
  BY <1>1, <1>2, <1>4
<1> HIDE DEF s
<1>6. s.end \in 0..MaxV /\ s.odd \in BOOLEAN /\ m + 2 <= MaxV
  BY <1>4 DEF Segments
<1>7. n \in 0..MaxV /\ m \in 0..(MaxV + 1) /\ n <= lim[p]
  BY <1>2, <1>6, VmAssumption
<1>8. new[p].dir # 0 /\ MappedBelow(new[p], lim[p])
  BY <1>1 DEF IInv, Rooted, Backed, NewPoints
<1> HIDE DEF n, m
<1>9. MappedBelow(new[p], n)
  <2>1. VPages \subseteq Int /\ n \in Int /\ lim[p] \in Int
    BY <1>2, <1>7, VmAssumption DEF VPages
  <2>2. \A v \in VPages : v < n => v < lim[p]
    BY <1>7, <2>1
  <2> QED
    BY <1>8, <2>2 DEF MappedBelow
<1> QED
  BY <1>1, <1>2, <1>5, <1>6, <1>7, <1>8, <1>9, LoopStep

LEMMA ExecStackInv == ASSUME IInv, NEW p \in Procs, ExecStack(p) PROVE IInv'
<1>1. /\ pc[p] = "exec_seg" /\ a' = [a EXCEPT ![p] = lim[p]] /\ lim' = [lim EXCEPT ![p] = lim[p] + 2]
      /\ Goto(p, "stack_alloc") /\ UNCHANGED <<kmemVars, state, kstack, pgdir, sz, ttbr0, new, old, hand, segs, target>>
  BY DEF ExecStack
<1>2. /\ state[p] = "kernel" /\ state = [state EXCEPT ![p] = "kernel"] /\ old[p] = NoSpace
      /\ segs \in [Procs -> Seq(Segments)] /\ lim[p] \in 0..(MaxV + 1)
  BY <1>1, AtWork DEF FreePoints
<1>3. lim[p] + 2 <= MaxV /\ new[p].dir # 0 /\ MappedBelow(new[p], lim[p])
  BY <1>1 DEF IInv, Working, Rooted, Backed, NewPoints
<1>4. lim[p] \in 0..MaxV /\ lim[p] + 2 \in 0..(MaxV + 1) /\ lim[p] + 2 <= MaxV
  BY <1>2, <1>3, VmAssumption
<1> QED
  BY <1>1, <1>2, <1>3, <1>4, LoopStep

LEMMA ExecSegDoneInv == ASSUME IInv, NEW p \in Procs, ExecSegDone(p) PROVE IInv'
<1>1. /\ pc[p] = "exec_alloc" /\ a[p] >= lim[p] /\ Goto(p, "exec_seg")
      /\ UNCHANGED <<kmemVars, state, kstack, pgdir, sz, ttbr0, new, old, hand, a, lim, segs, target>>
  BY DEF ExecSegDone
<1>2. /\ state[p] = "kernel" /\ state = [state EXCEPT ![p] = "kernel"] /\ old[p] = NoSpace
      /\ segs \in [Procs -> Seq(Segments)] /\ lim[p] \in 0..(MaxV + 1) /\ a[p] \in 0..MaxV
      /\ a = [a EXCEPT ![p] = a[p]] /\ lim = [lim EXCEPT ![p] = lim[p]]
  BY <1>1, AtWork DEF FreePoints
<1>3. lim[p] + 2 <= MaxV /\ new[p].dir # 0 /\ MappedBelow(new[p], a[p])
  BY <1>1 DEF IInv, Working, Rooted, Backed, NewPoints
<1>4. MappedBelow(new[p], lim[p])
  <2>1. \A v \in VPages : v < lim[p] => v < a[p]
    BY <1>1, <1>2, RegionTyped, VmAssumption
  <2> QED
    BY <1>3, <2>1 DEF MappedBelow
<1> DEFINE n == a[p]  m == lim[p]
<1>5. a' = [a EXCEPT ![p] = n] /\ lim' = [lim EXCEPT ![p] = m] /\ state' = [state EXCEPT ![p] = "kernel"]
  BY <1>1, <1>2
<1>6. /\ n \in 0..MaxV /\ m \in 0..(MaxV + 1) /\ m + 2 <= MaxV /\ MappedBelow(new[p], m)
      /\ segs' \in [Procs -> Seq(Segments)]
  BY <1>1, <1>2, <1>3, <1>4
<1> HIDE DEF n, m
<1> QED
  BY <1>1, <1>2, <1>3, <1>5, <1>6, LoopStep

LEMMA ExecAllocInv == ASSUME IInv, NEW p \in Procs, ExecAlloc(p) PROVE IInv'
<1> DEFINE l == IF pc[p] = "exec_alloc" THEN "exec_map" ELSE "stack_map"
<1>1. pc[p] \in {"exec_alloc", "stack_alloc"} /\ a[p] < lim[p] /\ UNCHANGED <<kstack, pgdir, sz, ttbr0, old, target>>
  BY DEF ExecAlloc
<1>a. a[p] < MaxV
  BY <1>1, VmAssumption DEF IInv, Typed, Working
<1>2. state[p] = "kernel" /\ old[p] = NoSpace
  BY <1>1, AtWork DEF FreePoints
<1>3. CASE kallocFails /\ ExecFailed(p) /\ UNCHANGED hand
  BY <1>1, <1>2, <1>3, LeaveStep DEF kallocFails, ExecFailed, Return
<1>4. CASE /\ kalloc /\ hand' = [hand EXCEPT ![p] = Head(free)] /\ Goto(p, l)
           /\ UNCHANGED <<state, new, a, lim, segs>>
  BY <1>a, <1>1, <1>4, TakeHandStep
<1> QED
  BY <1>3, <1>4 DEF ExecAlloc, WithPage

LEMMA ExecMapInv == ASSUME IInv, NEW p \in Procs, ExecMap(p) PROVE IInv'
<1> DEFINE l == IF pc[p] = "exec_map" THEN "exec_alloc" ELSE "stack_alloc"
<1>1. /\ pc[p] \in {"exec_map", "stack_map"} /\ MapPage(p, l, ExecFailed(p))
      /\ UNCHANGED <<kstack, sz, ttbr0, old, target>>
  BY DEF ExecMap
<1>2. state[p] = "kernel" /\ old[p] = NoSpace /\ kmemheld \in BOOLEAN
  BY <1>1, AtWork DEF FreePoints
<1>3. hand' = [hand EXCEPT ![p] = 0]
  BY <1>1 DEF MapPage
<1>4. CASE ExecFailed(p) /\ UNCHANGED <<pgdir, kmemVars>>
  BY <1>1, <1>2, <1>3, <1>4, LeaveStep DEF ExecFailed, Return, kmemVars
<1>5. CASE Stop(p) /\ UNCHANGED <<new, pgdir>> /\ kallocFails
  BY <1>1, <1>2, <1>3, <1>5, LeaveStep DEF Stop, kallocFails
<1>6. ASSUME NEW t, SetSpace(p, Mapped(Space(p), p, t)), a' = [a EXCEPT ![p] = @ + 1], Goto(p, l),
             UNCHANGED <<state, lim, segs>>,
             \/ t = Space(p).table[RegionOf(a[p])] /\ t # 0 /\ UNCHANGED kmemVars
             \/ t = Head(free) /\ kalloc
      PROVE  IInv'
  <2>1. Space(p) = new[p] /\ new' = [new EXCEPT ![p] = Mapped(new[p], p, t)] /\ UNCHANGED pgdir
    BY <1>1, <1>6 DEF Space, SetSpace, InPlace
  <2> QED
    BY <1>1, <1>3, <1>6, <2>1, MapNewStep
<1> QED
  BY <1>1, <1>4, <1>5, <1>6, MapCases

LEMMA ExecDoneInv == ASSUME IInv, NEW p \in Procs, ExecDone(p) PROVE IInv'
<1>1. /\ pc[p] = "exec_free" /\ old[p] = NoSpace /\ Return(p)
      /\ UNCHANGED <<kmemVars, kstack, pgdir, sz, ttbr0, new, old, hand, target>>
  BY DEF ExecDone
<1>2. state[p] = "kernel" /\ kmemheld \in BOOLEAN
  BY <1>1 DEF IInv, Working, Typed
<1> QED
  BY <1>1, <1>2, LeaveStep DEF Return, kmemVars

LEMMA BrkEnterInv == ASSUME IInv, NEW p \in Procs, NEW n \in {-2, -1, 0, 1}, BrkEnter(p, n) PROVE IInv'
<1> DEFINE m == IF sz[p] + n \in 0..MaxV THEN sz[p] + n ELSE MaxV + 1
<1>1. /\ state[p] = "user" /\ state' = [state EXCEPT ![p] = "kernel"] /\ Goto(p, "brk_alloc")
      /\ a' = [a EXCEPT ![p] = sz[p]] /\ lim' = [lim EXCEPT ![p] = m]
      /\ UNCHANGED <<kmemVars, kstack, pgdir, sz, ttbr0, new, old, hand, segs, target>>
  BY DEF BrkEnter, Enter
<1>2. Typed /\ old[p] = NoSpace
  BY <1>1, NothingOld DEF IInv, Working, FreePoints
<1>3. segs' \in [Procs -> Seq(Segments)] /\ sz[p] \in 0..MaxV
  BY <1>1, <1>2 DEF Typed
<1>4. m \in 0..(MaxV + 1)
  BY VmAssumption
<1> HIDE DEF m
<1> QED
  BY <1>1, <1>2, <1>3, <1>4, LoopStep

LEMMA BrkAllocInv == ASSUME IInv, NEW p \in Procs, BrkAlloc(p) PROVE IInv'
<1>1. pc[p] = "brk_alloc" /\ a[p] < lim[p] /\ a[p] < MaxV /\ UNCHANGED <<kstack, pgdir, sz, ttbr0, new, old, target>>
  BY DEF BrkAlloc
<1>2. state[p] = "kernel" /\ old[p] = NoSpace
  BY <1>1, AtWork DEF FreePoints
<1>3. CASE kallocFails /\ Return(p) /\ UNCHANGED hand
  BY <1>1, <1>2, <1>3, LeaveStep DEF kallocFails, Return
<1>4. CASE /\ kalloc /\ hand' = [hand EXCEPT ![p] = Head(free)] /\ Goto(p, "brk_map")
           /\ UNCHANGED <<state, a, lim, segs>>
  BY <1>1, <1>4, TakeHandStep
<1> QED
  BY <1>3, <1>4 DEF BrkAlloc, WithPage

LEMMA BrkMapInv == ASSUME IInv, NEW p \in Procs, BrkMap(p) PROVE IInv'
<1>1. /\ pc[p] = "brk_map" /\ MapPage(p, "brk_alloc", Return(p) /\ UNCHANGED new)
      /\ UNCHANGED <<kstack, sz, ttbr0, old, target>>
  BY DEF BrkMap
<1>2. state[p] = "kernel" /\ old[p] = NoSpace /\ kmemheld \in BOOLEAN
  BY <1>1, AtWork DEF FreePoints
<1>3. hand' = [hand EXCEPT ![p] = 0]
  BY <1>1 DEF MapPage
<1>4. CASE Return(p) /\ UNCHANGED new /\ UNCHANGED <<pgdir, kmemVars>>
  BY <1>1, <1>2, <1>3, <1>4, LeaveStep DEF Return, kmemVars
<1>5. CASE Stop(p) /\ UNCHANGED <<new, pgdir>> /\ kallocFails
  BY <1>1, <1>2, <1>3, <1>5, LeaveStep DEF Stop, kallocFails
<1>6. ASSUME NEW t, SetSpace(p, Mapped(Space(p), p, t)), a' = [a EXCEPT ![p] = @ + 1], Goto(p, "brk_alloc"),
             UNCHANGED <<state, lim, segs>>,
             \/ t = Space(p).table[RegionOf(a[p])] /\ t # 0 /\ UNCHANGED kmemVars
             \/ t = Head(free) /\ kalloc
      PROVE  IInv'
  <2>1. Space(p) = pgdir[p] /\ pgdir' = [pgdir EXCEPT ![p] = Mapped(pgdir[p], p, t)] /\ UNCHANGED new
    BY <1>1, <1>6 DEF Space, SetSpace, InPlace
  <2> QED
    BY <1>1, <1>3, <1>6, <2>1, MapPgdirStep
<1> QED
  BY <1>1, <1>4, <1>5, <1>6, MapCases

LEMMA BrkDoneInv == ASSUME IInv, NEW p \in Procs, BrkDone(p) PROVE IInv'
<1>1. pc[p] = "brk_alloc" /\ Return(p) /\ UNCHANGED <<kmemVars, kstack, pgdir, new, old, hand, target>>
  BY DEF BrkDone
<1>2. state[p] = "kernel" /\ old[p] = NoSpace /\ kmemheld \in BOOLEAN
  BY <1>1, AtWork DEF FreePoints
<1>3. /\ sz' = sz \/ sz' = [sz EXCEPT ![p] = 0]
      /\ ttbr0' = ttbr0 \/ ttbr0' = [ttbr0 EXCEPT ![p] = pgdir[p].dir]
  BY DEF BrkDone
<1> QED
  BY <1>1, <1>2, <1>3, LeaveStep DEF Return, kmemVars

\* Every step keeps the invariant.
LEMMA NextStep == IInv /\ [Next]_vars => IInv'
<1> SUFFICES ASSUME IInv, [Next]_vars PROVE IInv'
  OBVIOUS
<1>1. CASE UNCHANGED vars
  <2>1. kmemheld' \in BOOLEAN
    BY <1>1 DEF IInv, Typed, vars
  <2> QED
    BY <1>1, <2>1, HeldStep DEF vars
<1>2. ASSUME NEW p \in Procs, SystemCall(p) PROVE IInv'
  BY <1>2, ForkAllocInv, ExecDirInv, BrkEnterInv, ExitStep, WaitCleanStep DEF SystemCall
<1>3. ASSUME NEW p \in Procs, InKernel(p) PROVE IInv'
  BY <1>3, CopyDirInv, CopyPageInv, CopyMapInv, ForkDoneStep, ExecReadFailsInv, ExecSegInv, ExecStackInv,
     ExecAllocInv, ExecMapInv, ExecSegDoneInv, ExecSwitchStep, VmFreeStep, ExecDoneInv, WaitDoneStep,
     BrkAllocInv, BrkMapInv, BrkDoneInv
     DEF InKernel
<1> QED
  BY <1>1, <1>2, <1>3 DEF Next
-----------------------------------------------------------------------------
(* What user_init() leaves.                                                *)

LEMMA BootPages ==
    /\ \A p \in 1..NBoot, i \in 0..3 : BootPage(p, i) \in Pages /\ BootPage(p, i) > NPAGE - 4 * NBoot
    /\ \A p, q \in 1..NBoot, i, j \in 0..3 : BootPage(p, i) = BootPage(q, j) => p = q /\ i = j
<1>1. NBoot \in Nat /\ NPAGE \in Nat /\ 4 * NBoot <= NPAGE
  BY VmAssumption
<1>2. ASSUME NEW p \in 1..NBoot, NEW i \in 0..3
      PROVE  BootPage(p, i) \in Pages /\ BootPage(p, i) > NPAGE - 4 * NBoot
  BY <1>1 DEF BootPage, Pages
<1>3. ASSUME NEW p \in 1..NBoot, NEW q \in 1..NBoot, NEW i \in 0..3, NEW j \in 0..3, BootPage(p, i) = BootPage(q, j)
      PROVE  p = q /\ i = j
  BY <1>1, <1>3 DEF BootPage
<1> QED
  BY <1>2, <1>3

LEMMA BootSpaces ==
    ASSUME NEW p \in 1..NBoot
    PROVE  /\ BootSpace(p) \in Spaces /\ BootSpace(p).dir = BootPage(p, 1) /\ MappedBelow(BootSpace(p), 1)
           /\ At(BootSpace(p), -1) = BootPage(p, 1) /\ At(BootSpace(p), 0) = BootPage(p, 2)
           /\ At(BootSpace(p), MaxV) = BootPage(p, 3)
           /\ \A j \in Offsets : At(BootSpace(p), j) # 0 => j = -1 \/ j = 0 \/ j = MaxV
<1> DEFINE s == BootSpace(p)
<1>0. 1 \in 0..3 /\ 2 \in 0..3 /\ 3 \in 0..3
  OBVIOUS
<1>1. BootPage(p, 1) \in Pages /\ BootPage(p, 2) \in Pages /\ BootPage(p, 3) \in Pages
  BY <1>0, BootPages
<1>2. /\ BootPage(p, 1) \in 0..NPAGE /\ BootPage(p, 2) \in 0..NPAGE /\ BootPage(p, 3) \in 0..NPAGE
      /\ BootPage(p, 2) # 0 /\ BootPage(p, 3) # 0
  BY <1>1, PagesTyped
<1>3. 0 \in VPages /\ 0 \in Regions /\ MaxV + 0 = MaxV
  BY RegionTyped, VmAssumption DEF VPages
<1>4. /\ s.dir = BootPage(p, 1) /\ s.leaf = [NoSpace.leaf EXCEPT ![0] = BootPage(p, 2)]
      /\ s.table = [NoSpace.table EXCEPT ![0] = BootPage(p, 3)]
      /\ s \in Spaces
  BY <1>2, <1>3, NoSpaceTyped DEF BootSpace, Spaces
<1> HIDE DEF s
<1>5. /\ NoSpace.leaf \in [VPages -> 0..NPAGE] /\ NoSpace.table \in [Regions -> 0..NPAGE]
      /\ \A v \in VPages : NoSpace.leaf[v] = 0
      /\ \A t \in Regions : NoSpace.table[t] = 0
  BY VmAssumption DEF NoSpace
<1>6. /\ s.leaf[0] = BootPage(p, 2) /\ s.table[0] = BootPage(p, 3)
      /\ \A v \in VPages : v # 0 => s.leaf[v] = 0
      /\ \A t \in Regions : t # 0 => s.table[t] = 0
  BY <1>3, <1>4, <1>5
<1>8. MappedBelow(s, 1)
  <2>1. \A v \in VPages : v < 1 => v = 0
    BY RegionTyped
  <2>2. RegionOf(0) = 0
    BY VmAssumption DEF RegionOf
  <2> QED
    BY <1>2, <1>6, <2>1, <2>2 DEF MappedBelow
<1>9. At(s, -1) = BootPage(p, 1) /\ At(s, 0) = BootPage(p, 2) /\ At(s, MaxV) = BootPage(p, 3)
  <2>1. At(s, MaxV + 0) = s.table[0]
    BY <1>3, AtOf
  <2> QED
    BY <1>3, <1>4, <1>6, <2>1, AtOf
<1>10. ASSUME NEW j \in Offsets, At(s, j) # 0 PROVE j = -1 \/ j = 0 \/ j = MaxV
  <2>1. CASE j \in VPages
    BY <1>6, <1>10, <2>1, AtOf
  <2>2. ASSUME NEW t \in Regions, j = MaxV + t PROVE j = -1 \/ j = 0 \/ j = MaxV
    BY <1>3, <1>6, <1>10, <2>2, AtOf
  <2> QED
    BY <2>1, <2>2, OffsetKinds
<1> QED
  BY <1>4, <1>8, <1>9, <1>10 DEF s

\* Where user_init() leaves the i-th page of process p.
Spot(p, i) == IF i = 0 THEN <<p, "kstack", 0>> ELSE <<p, "pgdir", IF i = 1 THEN -1 ELSE IF i = 2 THEN 0 ELSE MaxV>>

LEMMA InitPlaces ==
    ASSUME Init, NEW x \in Places, Page[x] # 0
    PROVE  \/ /\ x \in FreePlaces /\ x[3] \in 1..(NPAGE - 4 * NBoot)
              /\ Page[x] = NPAGE - 4 * NBoot - x[3] + 1
           \/ \E p \in 1..NBoot, i \in 0..3 : x = Spot(p, i) /\ Page[x] = BootPage(p, i)
<1>0. NBoot \in 1..NPROC /\ NPROC \in Nat /\ NPAGE \in Nat /\ 4 * NBoot <= NPAGE
  BY VmAssumption
<1>1. CASE x \in FreePlaces
  <2>1. Page[x] = IF x[3] \in DOMAIN free THEN free[x[3]] ELSE 0
    BY <1>1, PageOf DEF Laid
  <2>2. x[3] \in 1..(NPAGE - 4 * NBoot) /\ free[x[3]] = NPAGE - 4 * NBoot - x[3] + 1
    BY <2>1 DEF Init
  <2> QED
    BY <1>1, <2>1, <2>2
<1>2. ASSUME NEW p \in Procs, x = <<p, "kstack", 0>> PROVE p \in 1..NBoot /\ x = Spot(p, 0) /\ Page[x] = BootPage(p, 0)
  <2>0. p \in Nat /\ p >= 1
    BY <1>0 DEF Procs
  <2>1. Page[x] = kstack[p]
    BY <1>2, PageOf DEF Laid
  <2>2. kstack[p] = IF p <= NBoot THEN BootPage(p, 0) ELSE 0
    BY DEF Init
  <2> QED
    BY <1>0, <1>2, <2>0, <2>1, <2>2 DEF Spot
<1>3. ASSUME NEW p \in Procs, x = <<p, "hand", 0>> PROVE FALSE
  BY <1>3, PageOf DEF Laid, Init
<1>4. ASSUME NEW p \in Procs, NEW j \in Offsets, x = <<p, "pgdir", j>>
      PROVE  p \in 1..NBoot /\ \E i \in 0..3 : x = Spot(p, i) /\ Page[x] = BootPage(p, i)
  <2>0. p \in Nat /\ p >= 1
    BY <1>0 DEF Procs
  <2>1. Page[x] = At(pgdir[p], j)
    BY <1>4, PageOf DEF Laid
  <2>2. pgdir[p] = IF p <= NBoot THEN BootSpace(p) ELSE NoSpace
    BY DEF Init
  <2>3. p \in 1..NBoot /\ Page[x] = At(BootSpace(p), j)
    BY <1>0, <2>0, <2>1, <2>2, NoSpaceTyped
  <2>4. j = -1 \/ j = 0 \/ j = MaxV
    BY <2>3, BootSpaces
  <2>5. MaxV # 0 /\ 1 \in 0..3 /\ 2 \in 0..3 /\ 3 \in 0..3
    BY VmAssumption
  <2>6. Spot(p, 1) = <<p, "pgdir", -1>> /\ Spot(p, 2) = <<p, "pgdir", 0>> /\ Spot(p, 3) = <<p, "pgdir", MaxV>>
    BY DEF Spot
  <2> QED
    BY <1>4, <2>3, <2>4, <2>5, <2>6, BootSpaces
<1>5. ASSUME NEW p \in Procs, NEW j \in Offsets, x = <<p, "new", j>> \/ x = <<p, "old", j>> PROVE FALSE
  <2>1. new[p] = NoSpace /\ old[p] = NoSpace
    BY DEF Init
  <2>2. Page[x] = At(new[p], j) \/ Page[x] = At(old[p], j)
    BY <1>5, PageOf DEF Laid
  <2> QED
    BY <2>1, <2>2, NoSpaceTyped
<1>6. 0 \in 0..3
  OBVIOUS
<1> QED
  BY <1>1, <1>2, <1>3, <1>4, <1>5, <1>6, PlaceKinds, OwnKinds

LEMMA InitUnique == ASSUME Init PROVE Unique
<1> SUFFICES ASSUME NEW x \in Places, NEW y \in Places, Page[x] # 0, Page[x] = Page[y] PROVE x = y
  BY DEF Unique
<1>0. NBoot \in Nat /\ NPAGE \in Nat /\ 4 * NBoot <= NPAGE
  BY VmAssumption
<1> DEFINE n == NPAGE - 4 * NBoot
           Listed(z) == z \in FreePlaces /\ z[3] \in 1..n /\ Page[z] = n - z[3] + 1
           Booted(z) == \E p \in 1..NBoot, i \in 0..3 : z = Spot(p, i) /\ Page[z] = BootPage(p, i)
<1>1. (Listed(x) \/ Booted(x)) /\ (Listed(y) \/ Booted(y))
  BY InitPlaces
<1>2. n \in Nat /\ \A i, j \in 1..n : n - i + 1 \in Int /\ n - i + 1 <= n /\ (n - i + 1 = n - j + 1 => i = j)
  BY <1>0
<1> HIDE DEF n
<1>3. ASSUME NEW z, Listed(z) PROVE Page[z] \in Int /\ Page[z] <= n
  BY <1>2, <1>3
<1>4. ASSUME NEW z, Booted(z) PROVE Page[z] \in Int /\ Page[z] > n
  <2>1. PICK p \in 1..NBoot, i \in 0..3 : z = Spot(p, i) /\ Page[z] = BootPage(p, i)
    BY <1>4
  <2>2. BootPage(p, i) \in Pages /\ BootPage(p, i) > n
    BY BootPages DEF n
  <2> QED
    BY <2>1, <2>2 DEF Pages
<1>5. CASE Listed(x) /\ Listed(y)
  <2>1. x[3] = y[3]
    BY <1>2, <1>5
  <2> QED
    BY <1>5, <2>1 DEF FreePlaces
<1>6. CASE Booted(x) /\ Booted(y)
  BY <1>6, BootPages
<1>7. ~ (Listed(x) /\ Booted(y)) /\ ~ (Booted(x) /\ Listed(y))
  <2> HIDE DEF Listed, Booted
  <2> QED
    BY <1>2, <1>3, <1>4
<1> QED
  BY <1>1, <1>5, <1>6, <1>7

LEMMA InitInv == Init => IInv
<1> SUFFICES ASSUME Init PROVE IInv
  OBVIOUS
<1>0. NBoot \in 1..NPROC /\ NPROC \in Nat /\ NPAGE \in Nat /\ 4 * NBoot <= NPAGE /\ MaxV \in Nat \ {0}
  BY VmAssumption
<1>1. \A p \in Procs : p <= NBoot => p \in 1..NBoot
  BY <1>0 DEF Procs
<1>2. \A p \in 1..NBoot : BootPage(p, 0) \in 0..NPAGE /\ BootPage(p, 1) \in 0..NPAGE /\ BootPage(p, 1) # 0
  <2>1. 0 \in 0..3 /\ 1 \in 0..3
    OBVIOUS
  <2> QED
    BY <2>1, BootPages, PagesTyped
<1>3. Typed
  <2>1. free \in Seq(Pages)
    <3> DEFINE n == NPAGE - 4 * NBoot
               f == [i \in 1..n |-> n - i + 1]
    <3>1. n \in Nat /\ n <= NPAGE
      BY <1>0
    <3>2. free = f
      BY DEF Init
    <3> HIDE DEF n
    <3>3. \A i \in 1..n : n - i + 1 \in Pages
      BY <1>0, <3>1 DEF Pages
    <3> QED
      BY <3>1, <3>2, <3>3
  <2>2. pgdir \in [Procs -> Spaces]
    <3>1. \A p \in Procs : (IF p <= NBoot THEN BootSpace(p) ELSE NoSpace) \in Spaces
      BY <1>1, BootSpaces, NoSpaceTyped
    <3> QED
      BY <3>1 DEF Init
  <2>3. new \in [Procs -> Spaces] /\ old \in [Procs -> Spaces]
    BY NoSpaceTyped DEF Init
  <2>4. kstack \in [Procs -> 0..NPAGE] /\ ttbr0 \in [Procs -> 0..NPAGE] /\ hand \in [Procs -> 0..NPAGE]
    <3>1. /\ \A p \in Procs : (IF p <= NBoot THEN BootPage(p, 0) ELSE 0) \in 0..NPAGE
          /\ \A p \in Procs : (IF p <= NBoot THEN BootPage(p, 1) ELSE 0) \in 0..NPAGE
      BY <1>0, <1>1, <1>2
    <3> QED
      BY <1>0, <3>1 DEF Init
  <2>5. sz \in [Procs -> 0..MaxV] /\ a \in [Procs -> 0..MaxV] /\ lim \in [Procs -> 0..(MaxV + 1)]
    BY <1>0, VmAssumption DEF Init
  <2>6. pc \in [Procs -> Points] /\ target \in [Procs -> 0..NPROC]
    BY <1>0 DEF Init, Points
  <2>9. kmemheld \in BOOLEAN
    BY DEF Init
  <2>7. segs \in [Procs -> Seq(Segments)]
    BY DEF Init
  <2>8. state \in [Procs -> {"unused", "embryo", "user", "kernel", "zombie", "freeing", "stopped"}]
    BY DEF Init
  <2> QED
    BY <2>1, <2>2, <2>3, <2>4, <2>5, <2>6, <2>7, <2>8, <2>9 DEF Typed
<1>4. Targets
  BY DEF Init, Targets, TargetPoints, ForkPoints
<1>5. ASSUME NEW p \in Procs PROVE Working(p) /\ Rooted(p) /\ Backed(p)
  <2>1. /\ pc[p] = "out" /\ new[p] = NoSpace /\ old[p] = NoSpace
        /\ state[p] = IF p <= NBoot THEN "user" ELSE "unused"
        /\ sz[p] = IF p <= NBoot THEN 1 ELSE 0
        /\ pgdir[p] = IF p <= NBoot THEN BootSpace(p) ELSE NoSpace
        /\ ttbr0[p] = IF p <= NBoot THEN BootPage(p, 1) ELSE 0
    BY DEF Init
  <2>2. Working(p)
    BY <2>1 DEF Working, MapPoints
  <2>3. Rooted(p)
    <3>1. CASE p <= NBoot
      BY <1>1, <1>2, <2>1, <3>1, BootSpaces DEF Rooted, Living, NewPoints
    <3>2. CASE ~ (p <= NBoot)
      BY <2>1, <3>2 DEF Rooted, Living, NewPoints
    <3> QED
      BY <3>1, <3>2
  <2>4. Backed(p)
    <3>1. CASE p <= NBoot
      BY <1>1, <2>1, <3>1, BootSpaces DEF Backed, NewPoints
    <3>2. CASE ~ (p <= NBoot)
      <4>1. \A v \in VPages : ~ (v < 0)
        BY RegionTyped
      <4> QED
        BY <2>1, <3>2, <4>1 DEF Backed, MappedBelow, NewPoints
    <3> QED
      BY <3>1, <3>2
  <2> QED
    BY <2>2, <2>3, <2>4
<1> QED
  BY <1>3, <1>4, <1>5, InitUnique DEF IInv

\* The inductive invariant: no page is at two places, the calls that are under way
\* have what they work on, and every space is mapped as far as its size says.
THEOREM SpecIInv == Spec => []IInv
<1> QED
  BY InitInv, NextStep, PTL DEF Spec
-----------------------------------------------------------------------------
(* What follows from the invariant.                                        *)

LEMMA SpaceRefsOf ==
    ASSUME NEW p, NEW name, NEW s
    PROVE  SpaceRefs(p, name, s) = {<<At(s, j), p, name, j>> : j \in Offsets}
<1>1. ASSUME NEW z \in SpaceRefs(p, name, s) PROVE \E j \in Offsets : z = <<At(s, j), p, name, j>>
  <2>1. CASE z = <<s.dir, p, name, -1>>
    BY <2>1, AtOf, OffsetKinds
  <2>2. ASSUME NEW t \in Regions, z = <<s.table[t], p, name, MaxV + t>> PROVE \E j \in Offsets : z = <<At(s, j), p, name, j>>
    <3>1. At(s, MaxV + t) = s.table[t] /\ MaxV + t \in Offsets
      BY AtOf, OffsetKinds
    <3> QED
      BY <2>2, <3>1
  <2>3. ASSUME NEW v \in VPages, z = <<s.leaf[v], p, name, v>> PROVE \E j \in Offsets : z = <<At(s, j), p, name, j>>
    <3>1. At(s, v) = s.leaf[v] /\ v \in Offsets
      BY AtOf, OffsetKinds
    <3> QED
      BY <2>3, <3>1
  <2> QED
    BY <2>1, <2>2, <2>3 DEF SpaceRefs
<1>2. ASSUME NEW j \in Offsets PROVE <<At(s, j), p, name, j>> \in SpaceRefs(p, name, s)
  <2>1. CASE j = -1
    BY <2>1, AtOf DEF SpaceRefs
  <2>2. CASE j \in VPages
    BY <2>2, AtOf DEF SpaceRefs
  <2>3. ASSUME NEW t \in Regions, j = MaxV + t PROVE <<At(s, j), p, name, j>> \in SpaceRefs(p, name, s)
    BY <2>3, AtOf DEF SpaceRefs
  <2> QED
    BY <2>1, <2>2, <2>3, OffsetKinds
<1> QED
  BY <1>1, <1>2

\* A use of a page, and the place where it is.
RefOf(x) == <<Page[x], x[1], x[2], x[3]>>

LEMMA RefsOf ==
    ASSUME Typed
    PROVE  Refs = {RefOf(x) : x \in {y \in Places : Page[y] # 0}}
<1> DEFINE Full == {RefOf(x) : x \in {y \in Places : Page[y] # 0}}
           List == {<<free[i], 0, "free", i>> : i \in DOMAIN free}
           Spcs(p) == SpaceRefs(p, "pgdir", pgdir[p]) \cup SpaceRefs(p, "new", new[p]) \cup SpaceRefs(p, "old", old[p])
           All == List \cup {<<kstack[p], p, "kstack", 0>> : p \in Procs} \cup {<<hand[p], p, "hand", 0>> : p \in Procs}
                       \cup UNION {Spcs(p) : p \in Procs}
<1>1. Refs = {z \in All : z[1] # 0}
  BY DEF Refs
<1>2. DOMAIN free \subseteq Nat \ {0} /\ \A i \in DOMAIN free : <<0, "free", i>> \in FreePlaces
  BY DEF Typed, FreePlaces
<1>3. \A p \in Procs : \A z : z \in Spcs(p) <=>
         \E j \in Offsets : \/ z = <<At(pgdir[p], j), p, "pgdir", j>>
                            \/ z = <<At(new[p], j), p, "new", j>>
                            \/ z = <<At(old[p], j), p, "old", j>>
  BY SpaceRefsOf
<1>4. \A z : z \in All <=> \/ \E i \in DOMAIN free : z = <<free[i], 0, "free", i>>
                           \/ \E p \in Procs : z = <<kstack[p], p, "kstack", 0>> \/ z = <<hand[p], p, "hand", 0>>
                           \/ \E p \in Procs : z \in Spcs(p)
  OBVIOUS
<1> HIDE DEF All, Spcs, List
<1>5. ASSUME NEW z \in All, z[1] # 0 PROVE z \in Full
  <2>1. ASSUME NEW i \in DOMAIN free, z = <<free[i], 0, "free", i>> PROVE z \in Full
    <3> DEFINE x == <<0, "free", i>>
    <3>1. x \in FreePlaces /\ x[3] = i /\ x[1] = 0 /\ x[2] = "free"
      BY <1>2
    <3>2. Page[x] = free[i]
      BY <3>1, PageOf DEF Laid
    <3>3. x \in Places /\ RefOf(x) = z /\ Page[x] # 0
      BY <1>5, <2>1, <3>1, <3>2, PlaceKinds DEF RefOf
    <3> QED
      BY <3>3
  <2>2. ASSUME NEW p \in Procs, z = <<kstack[p], p, "kstack", 0>> PROVE z \in Full
    <3>1. <<p, "kstack", 0>> \in Places /\ Page[<<p, "kstack", 0>>] = kstack[p]
      BY PlaceKinds, PageOf DEF Laid
    <3>2. RefOf(<<p, "kstack", 0>>) = z /\ Page[<<p, "kstack", 0>>] # 0
      BY <1>5, <2>2, <3>1 DEF RefOf
    <3> QED
      BY <3>1, <3>2
  <2>3. ASSUME NEW p \in Procs, z = <<hand[p], p, "hand", 0>> PROVE z \in Full
    <3>1. <<p, "hand", 0>> \in Places /\ Page[<<p, "hand", 0>>] = hand[p]
      BY PlaceKinds, PageOf DEF Laid
    <3>2. RefOf(<<p, "hand", 0>>) = z /\ Page[<<p, "hand", 0>>] # 0
      BY <1>5, <2>3, <3>1 DEF RefOf
    <3> QED
      BY <3>1, <3>2
  <2>4. ASSUME NEW p \in Procs, NEW j \in Offsets, NEW k \in {"pgdir", "new", "old"}, z = <<Page[<<p, k, j>>], p, k, j>>
        PROVE  z \in Full
    <3>1. <<p, k, j>> \in Places
      BY PlaceKinds
    <3>2. RefOf(<<p, k, j>>) = z /\ Page[<<p, k, j>>] # 0
      BY <1>5, <2>4 DEF RefOf
    <3> QED
      BY <3>1, <3>2
  <2>5. ASSUME NEW p \in Procs, z \in Spcs(p) PROVE z \in Full
    <3>1. PICK j \in Offsets : \/ z = <<At(pgdir[p], j), p, "pgdir", j>>
                               \/ z = <<At(new[p], j), p, "new", j>>
                               \/ z = <<At(old[p], j), p, "old", j>>
      BY <1>3, <2>5
    <3>2. /\ Page[<<p, "pgdir", j>>] = At(pgdir[p], j) /\ Page[<<p, "new", j>>] = At(new[p], j)
          /\ Page[<<p, "old", j>>] = At(old[p], j)
      BY PageOf DEF Laid
    <3> HIDE DEF Full
    <3> QED
      BY <2>4, <3>1, <3>2
  <2> HIDE DEF Full
  <2> QED
    BY <1>4, <2>1, <2>2, <2>3, <2>5
<1>6. ASSUME NEW x \in Places, Page[x] # 0 PROVE RefOf(x) \in All /\ RefOf(x)[1] # 0
  <2>0. RefOf(x)[1] # 0
    BY <1>6 DEF RefOf
  <2>1. CASE x \in FreePlaces
    <3>1. Page[x] = IF x[3] \in DOMAIN free THEN free[x[3]] ELSE 0
      BY <2>1, PageOf DEF Laid
    <3>2. x[3] \in DOMAIN free /\ Page[x] = free[x[3]]
      BY <1>6, <3>1
    <3>3. x[1] = 0 /\ x[2] = "free"
      BY <2>1 DEF FreePlaces
    <3> QED
      BY <1>4, <2>0, <3>2, <3>3 DEF RefOf
  <2>2. ASSUME NEW p \in Procs, x = <<p, "kstack", 0>> \/ x = <<p, "hand", 0>> PROVE RefOf(x) \in All
    <3>1. Page[<<p, "kstack", 0>>] = kstack[p] /\ Page[<<p, "hand", 0>>] = hand[p]
      BY PageOf DEF Laid
    <3>2. RefOf(x) = <<kstack[p], p, "kstack", 0>> \/ RefOf(x) = <<hand[p], p, "hand", 0>>
      BY <2>2, <3>1 DEF RefOf
    <3> QED
      BY <1>4, <3>2
  <2>3. ASSUME NEW p \in Procs, NEW j \in Offsets,
               x = <<p, "pgdir", j>> \/ x = <<p, "new", j>> \/ x = <<p, "old", j>>
        PROVE  RefOf(x) \in All
    <3>1. /\ Page[<<p, "pgdir", j>>] = At(pgdir[p], j) /\ Page[<<p, "new", j>>] = At(new[p], j)
          /\ Page[<<p, "old", j>>] = At(old[p], j)
      BY PageOf DEF Laid
    <3>2. \/ RefOf(x) = <<At(pgdir[p], j), p, "pgdir", j>>
          \/ RefOf(x) = <<At(new[p], j), p, "new", j>>
          \/ RefOf(x) = <<At(old[p], j), p, "old", j>>
      BY <2>3, <3>1 DEF RefOf
    <3> QED
      BY <1>3, <1>4, <3>2
  <2> QED
    BY <2>0, <2>1, <2>2, <2>3, PlaceKinds, OwnKinds
<1> QED
  BY <1>1, <1>5, <1>6

\* Every use of a page is at a place, and a page at a place is in use.
Placed ==
    Typed => /\ Refs = {RefOf(x) : x \in {y \in Places : Page[y] # 0}}
             /\ {x[1] : x \in Refs} = {Page[x] : x \in Places} \ {0}

LEMMA PlacedHolds == Placed
<1> SUFFICES ASSUME Typed PROVE {x[1] : x \in Refs} = {Page[x] : x \in Places} \ {0}
  BY RefsOf DEF Placed
<1>1. \A x : RefOf(x)[1] = Page[x]
  BY DEF RefOf
<1>2. Refs = {RefOf(x) : x \in {y \in Places : Page[y] # 0}}
  BY RefsOf
<1> QED
  BY <1>1, <1>2

\* As many uses as pages in use: none has two.
LEMMA OnceEach ==
    ASSUME Typed, Unique
    PROVE  Cardinality(Refs) = Cardinality({x[1] : x \in Refs})
<1> DEFINE T == {x[1] : x \in Refs}
           f == [z \in Refs |-> z[1]]
<1>1. Refs = {RefOf(x) : x \in {y \in Places : Page[y] # 0}} /\ T = {Page[x] : x \in Places} \ {0}
  BY PlacedHolds DEF Placed
<1>2. \A x : RefOf(x)[1] = Page[x]
  BY DEF RefOf
<1>3. ASSUME NEW z \in Refs, NEW w \in Refs, z[1] = w[1] PROVE z = w
  <2>1. PICK x \in Places : z = RefOf(x) /\ Page[x] # 0
    BY <1>1
  <2>2. PICK y \in Places : w = RefOf(y) /\ Page[y] # 0
    BY <1>1
  <2>3. x = y
    BY <1>2, <1>3, <2>1, <2>2 DEF Unique
  <2> QED
    BY <2>1, <2>2, <2>3
<1>4. IsFiniteSet(T)
  <2>1. ASSUME NEW x \in Places PROVE Page[x] \in 0..NPAGE
    <3>1. CASE x \in FreePlaces
      <4>1. Page[x] = IF x[3] \in DOMAIN free THEN free[x[3]] ELSE 0
        BY <3>1, PageOf DEF Laid
      <4>2. \A i \in DOMAIN free : free[i] \in 1..NPAGE
        <5>1. free \in Seq(Pages)
          BY DEF Typed
        <5>2. \A i \in DOMAIN free : free[i] \in Pages
          BY <5>1
        <5> QED
          BY <5>2 DEF Pages
      <4> QED
        BY <4>1, <4>2, VmAssumption
    <3>2. ASSUME NEW p \in Procs, x = <<p, "kstack", 0>> \/ x = <<p, "hand", 0>> PROVE Page[x] \in 0..NPAGE
      <4>1. Page[x] = kstack[p] \/ Page[x] = hand[p]
        BY <3>2, PageOf DEF Laid
      <4> QED
        BY <4>1 DEF Typed
    <3>3. ASSUME NEW p \in Procs, NEW j \in Offsets,
                 x = <<p, "pgdir", j>> \/ x = <<p, "new", j>> \/ x = <<p, "old", j>>
          PROVE  Page[x] \in 0..NPAGE
      <4>1. PICK s \in Spaces : Page[x] = At(s, j)
        <5>1. Page[x] = At(pgdir[p], j) \/ Page[x] = At(new[p], j) \/ Page[x] = At(old[p], j)
          BY <3>3, PageOf DEF Laid
        <5>2. pgdir[p] \in Spaces /\ new[p] \in Spaces /\ old[p] \in Spaces
          BY DEF Typed
        <5> QED
          BY <5>1, <5>2
      <4>2. s.dir \in 0..NPAGE /\ s.leaf \in [VPages -> 0..NPAGE] /\ s.table \in [Regions -> 0..NPAGE]
        BY DEF Spaces
      <4>3. \A t \in Regions : At(s, MaxV + t) \in 0..NPAGE
        BY <4>2, AtOf
      <4>4. At(s, -1) \in 0..NPAGE /\ \A v \in VPages : At(s, v) \in 0..NPAGE
        BY <4>2, AtOf
      <4> QED
        BY <4>1, <4>3, <4>4, OffsetKinds
    <3> QED
      BY <3>1, <3>2, <3>3, PlaceKinds, OwnKinds
  <2>2. T \in SUBSET (0..NPAGE)
    BY <1>1, <2>1
  <2>3. IsFiniteSet(0..NPAGE)
    BY FS_Interval, VmAssumption
  <2> HIDE DEF T
  <2> QED
    BY <2>2, <2>3, FS_Subset
<1>5. f \in [Refs -> T] /\ \A t \in T : \E z \in Refs : f[z] = t
  OBVIOUS
<1>6. \A z, w \in Refs : f[z] = f[w] => z = w
  BY <1>3
<1> HIDE DEF T, f
<1>7. f \in Injection(Refs, T) /\ f \in Surjection(Refs, T)
  BY <1>5, <1>6 DEF Injection, Surjection, IsInjective
<1>8. Cardinality(Refs) = Cardinality(T)
  BY <1>4, <1>7, FS_Injection
<1> QED
  BY <1>8 DEF T

\* No page has two uses: kalloc() and kfree() keep the free list free of pages in
\* use and of a page twice, uvm_copy() gives the child pages of its own, and
\* vm_free() takes those of nobody else.
THEOREM SpecPageOwnedOnce == Spec => []PageOwnedOnce
<1>1. IInv => PageOwnedOnce
  <2> SUFFICES ASSUME IInv PROVE PageOwnedOnce
    OBVIOUS
  <2>1. Typed /\ Unique
    BY DEF IInv
  <2>2. \A p \in Procs : pgdir[p].dir \in 0..NPAGE /\ new[p].dir \in 0..NPAGE /\ old[p].dir \in 0..NPAGE
    BY <2>1 DEF Typed, Spaces
  <2>3. TypeOK
    BY <2>1, <2>2 DEF Typed, TypeOK
  <2> QED
    BY <2>1, <2>3, OnceEach DEF PageOwnedOnce
<1> QED
  BY <1>1, SpecIInv, PTL

\* Through fork(), execve(), brk() and the cleanproc() of others a process runs on
\* the directory of its own space, and kfree() never has that page.
THEOREM SpecRunsOnOwnTable == Spec => []RunsOnOwnTable
<1>1. IInv => RunsOnOwnTable
  <2> SUFFICES ASSUME IInv, NEW p \in Procs, state[p] \in {"user", "kernel"}
               PROVE  ttbr0[p] = pgdir[p].dir /\ \A i \in DOMAIN free : free[i] # ttbr0[p]
    BY DEF RunsOnOwnTable
  <2>1. Typed /\ Unique /\ ttbr0[p] = pgdir[p].dir /\ pgdir[p].dir # 0
    BY DEF IInv, Rooted, Living
  <2>2. ASSUME NEW i \in DOMAIN free, free[i] = pgdir[p].dir PROVE FALSE
    <3> DEFINE x == <<0, "free", i>>
               y == <<p, "pgdir", -1>>
    <3>1. x \in FreePlaces /\ x[3] = i
      BY <2>1 DEF Typed, FreePlaces
    <3>2. y \in OwnPlaces
      BY PlaceKinds, OffsetKinds
    <3>3. Page[x] = free[i]
      BY <3>1, PageOf DEF Laid
    <3>4. Page[y] = pgdir[p].dir
      BY PageOf, OffsetKinds, AtOf DEF Laid
    <3> HIDE DEF x, y
    <3> QED
      BY <2>1, <2>2, <3>1, <3>2, <3>3, <3>4, PlaceKinds DEF Unique
  <2> QED
    BY <2>1, <2>2
<1> QED
  BY <1>1, SpecIInv, PTL

\* What argptr(), fetchint() and fetchstr() accept is mapped, whatever fork(),
\* execve() and brk() did to the size of the process.
THEOREM SpecArgumentMapped == Spec => []ArgumentMapped
<1>1. IInv => ArgumentMapped
  <2> SUFFICES ASSUME IInv, NEW p \in Procs, NEW u \in VPages, NEW len \in 1..MaxV, len < IntPages, argptr(p, u, len),
                      NEW w \in u..(u + len - 1)
               PROVE  pgdir[p].leaf[w] # 0 /\ pgdir[p].table[RegionOf(w)] # 0
    BY DEF ArgumentMapped
  <2>1. MappedBelow(pgdir[p], sz[p]) /\ sz[p] \in 0..MaxV
    BY DEF IInv, Backed, Typed
  <2>2. u \in Nat /\ ToInt(len) = len
    BY VmAssumption DEF VPages, ToInt, IntPages
  <2>3. w \in VPages /\ w < sz[p]
    BY <2>1, <2>2, VmAssumption DEF VPages, argptr
  <2> QED
    BY <2>1, <2>3 DEF MappedBelow
<1> QED
  BY <1>1, SpecIInv, PTL
-----------------------------------------------------------------------------
(* No table is lost.                                                       *)

\* The numbers of the directory and the tables of a space.
TableOffsets == {-1} \cup {MaxV + t : t \in Regions}

\* Each table of a space the process has or frees is still in its space, or has
\* gone from the space it had to one it frees, or to the front of the free list.
Kept ==
    /\ \A p \in Procs, j \in TableOffsets : At(pgdir[p], j) # 0 =>
          At(pgdir'[p], j) = At(pgdir[p], j) \/ \E q \in Procs : At(old'[q], j) = At(pgdir[p], j)
    /\ \A p \in Procs, j \in TableOffsets : At(old[p], j) # 0 =>
          At(old'[p], j) = At(old[p], j) \/ Page'[First] = At(old[p], j)

NoTableLost == (UNION {TablesOf(pgdir[p]) \cup TablesOf(old[p]) : p \in Procs}) \cap Lost' = {}

LEMMA KeptNotLost == ASSUME Typed, Typed', Kept PROVE NoTableLost
<1>0. TableOffsets \subseteq Offsets
  BY DEF TableOffsets, Offsets
<1>1. ASSUME NEW s, NEW g \in TablesOf(s) PROVE g # 0 /\ \E j \in TableOffsets : g = At(s, j)
  <2>1. CASE g = s.dir
    BY <1>1, <2>1, AtOf DEF TablesOf, TableOffsets
  <2>2. ASSUME NEW t \in Regions, g = s.table[t] PROVE \E j \in TableOffsets : g = At(s, j)
    <3>1. At(s, MaxV + t) = g /\ MaxV + t \in TableOffsets
      BY <2>2, AtOf DEF TableOffsets
    <3> QED
      BY <3>1
  <2> QED
    BY <1>1, <2>1, <2>2 DEF TablesOf
<1>2. ASSUME NEW g, g # 0, NEW x \in Places, Page'[x] = g PROVE g \notin Lost'
  <2>1. Placed'
    BY PlacedHolds, PTL
  <2>2. {z[1] : z \in Refs'} = {Page'[z] : z \in Places} \ {0}
    BY <2>1 DEF Placed
  <2>3. g \in {z[1] : z \in Refs'}
    BY <1>2, <2>2
  <2> QED
    BY <2>3 DEF Lost
<1>3. /\ First \in Places
      /\ \A q \in Procs, j \in TableOffsets : <<q, "pgdir", j>> \in Places /\ <<q, "old", j>> \in Places
  BY <1>0, PlaceKinds, FreeKinds
<1>4. \A q \in Procs, j \in TableOffsets : /\ Page'[<<q, "pgdir", j>>] = At(pgdir'[q], j)
                                           /\ Page'[<<q, "old", j>>] = At(old'[q], j)
  BY <1>0, PageOfNext DEF Laid
<1>5. ASSUME NEW p \in Procs, NEW g \in TablesOf(pgdir[p]) PROVE g \notin Lost'
  <2>1. PICK j \in TableOffsets : g = At(pgdir[p], j) /\ g # 0
    BY <1>1, <1>5
  <2>2. At(pgdir'[p], j) = g \/ \E q \in Procs : At(old'[q], j) = g
    BY <2>1 DEF Kept
  <2> QED
    BY <1>2, <1>3, <1>4, <2>1, <2>2
<1>6. ASSUME NEW p \in Procs, NEW g \in TablesOf(old[p]) PROVE g \notin Lost'
  <2>1. PICK j \in TableOffsets : g = At(old[p], j) /\ g # 0
    BY <1>1, <1>6
  <2>2. At(old'[p], j) = g \/ Page'[First] = g
    BY <2>1 DEF Kept
  <2> QED
    BY <1>2, <1>3, <1>4, <2>1, <2>2
<1>7. ASSUME NEW g \in UNION {TablesOf(pgdir[p]) \cup TablesOf(old[p]) : p \in Procs} PROVE g \notin Lost'
  <2>1. PICK p \in Procs : g \in TablesOf(pgdir[p]) \cup TablesOf(old[p])
    BY <1>7
  <2> QED
    BY <1>5, <1>6, <2>1
<1> QED
  BY <1>7 DEF NoTableLost

LEMMA KeptSame == ASSUME UNCHANGED <<pgdir, old>> PROVE Kept
  BY DEF Kept

\* Nothing is lost with a space that is not there.
LEMMA NoSpaceEmpty == \A j \in TableOffsets : j \in Offsets /\ At(NoSpace, j) = 0
  BY NoSpaceTyped DEF TableOffsets, Offsets

LEMMA KeptBrkMap == ASSUME IInv, NEW p \in Procs, BrkMap(p) PROVE Kept
<1>1. /\ pc[p] = "brk_map" /\ MapPage(p, "brk_alloc", Return(p) /\ UNCHANGED new)
      /\ UNCHANGED <<kstack, sz, ttbr0, old, target>>
  BY DEF BrkMap
<1>2. CASE UNCHANGED pgdir
  BY <1>1, <1>2, KeptSame
<1>3. ASSUME NEW t, SetSpace(p, Mapped(Space(p), p, t)),
             t = Space(p).table[RegionOf(a[p])] \/ Space(p).table[RegionOf(a[p])] = 0
      PROVE  Kept
  <2> DEFINE r == RegionOf(a[p])
  <2>1. Space(p) = pgdir[p] /\ pgdir' = [pgdir EXCEPT ![p] = Mapped(pgdir[p], p, t)]
    BY <1>1, <1>3 DEF Space, SetSpace, InPlace
  <2>2. Typed /\ Working(p) /\ pc[p] \in MapPoints
    BY <1>1 DEF IInv, MapPoints
  <2>3. a[p] \in VPages /\ r \in Regions /\ pgdir[p] \in Spaces
    BY <2>2, MapPlace DEF Typed
  <2>4. pgdir'[p] = Mapped(pgdir[p], p, t) /\ \A q \in Procs : q # p => pgdir'[q] = pgdir[q]
    BY <2>1, <2>2 DEF Typed
  <2>5. WithMapped(pgdir'[p], pgdir[p], a[p], hand[p], r, t)
    BY <2>3, <2>4 DEF Mapped, Spaces, WithMapped
  <2>6. /\ At(pgdir'[p], MaxV + r) = t
        /\ \A j \in Offsets : j # a[p] /\ j # MaxV + r => At(pgdir'[p], j) = At(pgdir[p], j)
    BY <2>3, <2>5, MappedAt
  <2>7. t = At(pgdir[p], MaxV + r) \/ At(pgdir[p], MaxV + r) = 0
    BY <1>3, <2>1, <2>3, AtOf
  <2>8. \A j \in TableOffsets : j \in Offsets /\ j # a[p]
    BY <2>3, OffsetKinds DEF TableOffsets
  <2> HIDE DEF r
  <2>9. \A j \in TableOffsets : At(pgdir[p], j) # 0 => At(pgdir'[p], j) = At(pgdir[p], j)
    BY <2>6, <2>7, <2>8
  <2> QED
    BY <1>1, <2>4, <2>9 DEF Kept
<1> QED
  BY <1>1, <1>2, <1>3, MapCases

LEMMA KeptForkDone == ASSUME IInv, NEW p \in Procs, ForkDone(p) PROVE Kept
<1>1. PICK q \in Procs : q = target[p] /\ state[q] = "embryo"
  BY DEF IInv, ForkDone, Targets, ForkPoints
<1>2. pgdir[q] = NoSpace /\ pgdir \in [Procs -> Spaces]
  BY <1>1 DEF IInv, Rooted, Living, Typed
<1>3. pgdir' = [pgdir EXCEPT ![q] = new[p]] /\ UNCHANGED old
  BY <1>1 DEF ForkDone
<1>4. \A o \in Procs : o # q => pgdir'[o] = pgdir[o]
  BY <1>2, <1>3
<1> QED
  BY <1>2, <1>3, <1>4, NoSpaceEmpty DEF Kept

LEMMA KeptExecSwitch == ASSUME IInv, NEW p \in Procs, ExecSwitch(p) PROVE Kept
<1>1. pc[p] = "stack_alloc" /\ pgdir' = [pgdir EXCEPT ![p] = new[p]] /\ old' = [old EXCEPT ![p] = pgdir[p]]
  BY DEF ExecSwitch
<1>2. old[p] = NoSpace /\ Typed
  BY <1>1, NothingOld DEF FreePoints, IInv
<1>3. old'[p] = pgdir[p] /\ \A o \in Procs : o # p => pgdir'[o] = pgdir[o] /\ old'[o] = old[o]
  BY <1>1, <1>2 DEF Typed
<1> QED
  BY <1>2, <1>3, NoSpaceEmpty DEF Kept

LEMMA KeptWaitClean == ASSUME IInv, NEW p \in Procs, NEW q \in Procs, WaitClean(p, q) PROVE Kept
<1>1. state[p] = "user" /\ old' = [old EXCEPT ![p] = pgdir[q]] /\ pgdir' = [pgdir EXCEPT ![q] = NoSpace]
  BY DEF WaitClean
<1>2. old[p] = NoSpace /\ Typed
  BY <1>1, NothingOld DEF FreePoints, IInv, Working
<1>3. /\ old'[p] = pgdir[q]
      /\ \A o \in Procs : o # q => pgdir'[o] = pgdir[o]
      /\ \A o \in Procs : o # p => old'[o] = old[o]
  BY <1>1, <1>2 DEF Typed
<1> QED
  BY <1>2, <1>3, NoSpaceEmpty DEF Kept

LEMMA KeptVmFree == ASSUME IInv, NEW p \in Procs, VmFree(p) PROVE Kept
<1>1. FreeOne(p) /\ UNCHANGED pgdir /\ Typed /\ old[p] # NoSpace
  BY DEF VmFree, FreeOne, IInv
<1>2. old[p] \in Spaces /\ old[p].dir # 0 /\ old[p].dir \in Pages /\ old \in [Procs -> Spaces] /\ free \in Seq(Pages)
  <2>1. old[p] \in Spaces /\ old[p].dir # 0 /\ old \in [Procs -> Spaces] /\ free \in Seq(Pages)
    BY <1>1 DEF Typed, IInv, Rooted
  <2>2. old[p].dir \in Pages
    BY <2>1, VmAssumption DEF Spaces, Pages
  <2> QED
    BY <2>1, <2>2
<1> DEFINE regions == {t \in Regions : old[p].table[t] # 0}
           t == CHOOSE x \in regions : \A y \in regions : x <= y
<1>3. CASE regions # {}
  <2>1. t \in regions
    <3>1. regions \in SUBSET Nat
      BY RegionTyped
    <3> HIDE DEF regions
    <3> QED
      BY <1>3, <3>1, Lowest
  <2>2. /\ kfree(old[p].table[t])
        /\ old' = [old EXCEPT ![p].table[t] = 0,
                              ![p].leaf = [v \in VPages |-> IF RegionOf(v) = t THEN 0 ELSE @[v]]]
    BY <1>1, <1>3 DEF FreeOne
  <2>3. t \in Regions /\ old[p].table[t] # 0
    BY <2>1
  <2> HIDE DEF t, regions
  <2>4. /\ old'[p].dir = old[p].dir /\ old'[p].table = [old[p].table EXCEPT ![t] = 0]
        /\ \A o \in Procs : o # p => old'[o] = old[o]
    BY <1>2, <2>2, <2>3 DEF Spaces
  <2>5. old[p].table \in [Regions -> 0..NPAGE]
    BY <1>2 DEF Spaces
  <2>6. old[p].table[t] \in Pages
    BY <2>3, <2>5, VmAssumption DEF Pages
  <2>7. Page'[First] = old[p].table[t]
    BY <1>2, <2>2, <2>6, ListGiven DEF kfree
  <2>8. At(old'[p], -1) = At(old[p], -1) /\ At(old[p], MaxV + t) = Page'[First]
    BY <2>3, <2>4, <2>7, AtOf
  <2>9. \A r \in Regions : r # t => At(old'[p], MaxV + r) = At(old[p], MaxV + r)
    <3>1. \A r \in Regions : r # t => old'[p].table[r] = old[p].table[r]
      BY <2>4, <2>5
    <3> QED
      BY <3>1, AtOf
  <2>10. \A j \in TableOffsets : At(old'[p], j) = At(old[p], j) \/ Page'[First] = At(old[p], j)
    BY <2>8, <2>9 DEF TableOffsets
  <2> QED
    BY <1>1, <2>4, <2>10 DEF Kept
<1>4. CASE regions = {}
  <2>1. kfree(old[p].dir) /\ old' = [old EXCEPT ![p] = NoSpace]
    BY <1>1, <1>4 DEF FreeOne
  <2>2. \A o \in Procs : o # p => old'[o] = old[o]
    BY <1>2, <2>1
  <2>3. Page'[First] = At(old[p], -1)
    BY <1>2, <2>1, ListGiven, AtOf DEF kfree
  <2>4. \A r \in Regions : At(old[p], MaxV + r) = 0
    BY <1>4, AtOf
  <2>5. \A j \in TableOffsets : At(old[p], j) # 0 => Page'[First] = At(old[p], j)
    BY <2>3, <2>4 DEF TableOffsets
  <2> QED
    BY <1>1, <2>2, <2>5 DEF Kept
<1> QED
  BY <1>3, <1>4

\* uvm_copy() and execve() map pages in the space they build.
LEMMA KeptMapNew ==
    ASSUME NEW p \in Procs, NEW l, NEW ACTION T, MapPage(p, l, T), ~ InPlace(p), UNCHANGED old
    PROVE  Kept
<1>1. UNCHANGED pgdir
  BY MapCases DEF SetSpace
<1> QED
  BY <1>1, KeptSame

LEMMA KeptNext == ASSUME IInv, Next PROVE Kept
<1>1. PICK p \in Procs : SystemCall(p) \/ InKernel(p)
  BY DEF Next
<1>2. CASE SystemCall(p)
  <2>1. CASE \E q \in Procs : WaitClean(p, q)
    BY <2>1, KeptWaitClean
  <2>2. CASE ForkAlloc(p)
    BY <2>2, KeptSame DEF ForkAlloc
  <2>3. ASSUME NEW prog \in Programs, ExecDir(p, prog) PROVE Kept
    BY <2>3, KeptSame DEF ExecDir
  <2>4. ASSUME NEW n, BrkEnter(p, n) PROVE Kept
    BY <2>4, KeptSame DEF BrkEnter
  <2>5. CASE Exit(p)
    BY <2>5, KeptSame DEF Exit, jobVars
  <2> QED
    BY <1>2, <2>1, <2>2, <2>3, <2>4, <2>5 DEF SystemCall
<1>3. CASE InKernel(p)
  <2>1. CASE CopyMap(p) \/ ExecMap(p)
    <3>1. CASE CopyMap(p)
      BY <3>1, KeptMapNew DEF CopyMap, InPlace
    <3>2. CASE ExecMap(p)
      BY <3>2, KeptMapNew DEF ExecMap, InPlace
    <3> QED
      BY <2>1, <3>1, <3>2
  <2>2. CASE CopyDir(p) \/ CopyPage(p)
    BY <2>2, KeptSame DEF CopyDir, CopyPage
  <2>3. CASE ExecReadFails(p) \/ ExecSeg(p) \/ ExecStack(p) \/ ExecAlloc(p) \/ ExecSegDone(p) \/ ExecDone(p)
    BY <2>3, KeptSame DEF ExecReadFails, ExecSeg, ExecStack, ExecAlloc, ExecSegDone, ExecDone
  <2>4. CASE WaitDone(p) \/ BrkAlloc(p) \/ BrkDone(p)
    BY <2>4, KeptSame DEF WaitDone, BrkAlloc, BrkDone
  <2> QED
    BY <1>3, <2>1, <2>2, <2>3, <2>4, KeptForkDone, KeptExecSwitch, KeptVmFree, KeptBrkMap DEF InKernel
<1> QED
  BY <1>1, <1>2, <1>3

\* vm_free() puts every table and the directory of a space on the free list, and
\* no other call loses one that a process has or frees.
THEOREM SpecTablesReturned == Spec => TablesReturned
<1>1. ASSUME IInv, IInv', Next PROVE NoTableLost
  <2>1. Typed /\ Typed'
    BY <1>1 DEF IInv
  <2> QED
    BY <1>1, <2>1, KeptNext, KeptNotLost
<1>2. IInv /\ IInv' /\ [Next]_vars =>
         [LET tables == UNION {TablesOf(pgdir[p]) \cup TablesOf(old[p]) : p \in Procs}
          IN tables \cap Lost' = {}]_vars
  BY <1>1 DEF NoTableLost
<1> QED
  BY <1>2, SpecIInv, PTL DEF Spec, TablesReturned
=============================================================================
