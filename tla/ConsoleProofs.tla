---------------------------- MODULE ConsoleProofs ---------------------------
(***************************************************************************)
(* Proofs about the console: InputInOrder, NoForgottenReader and           *)
(* PanicWhole hold for any ring size, any readers, CPUs and characters,    *)
(* under ConsoleAssumption alone; MaxIn bounds the characters of Console   *)
(* and the proofs hold for any value of it.                                *)
(*                                                                         *)
(* IInv has three parts: who holds the two locks (Locks), what the ring    *)
(* holds between r, w and e (Ring), and how far the panic has come         *)
(* (Panics).  A sleeping reader and the handler meet only through the      *)
(* locks, so NoForgottenReader needs its reader followed from the test of  *)
(* r and w under conslock on (Waiting).                                    *)
(***************************************************************************)
EXTENDS Console, SequenceTheorems, TLAPS

Points == {"idle", "loop", "release", "sched", "asleep", "woken", "done"}

Typed ==
    /\ TypeOK
    /\ pc \in [Readers -> Points]
    /\ intr \in {"off", "getc", "wake", "dump"}
    /\ cpu \in [Cpus -> {"run", "panic", "halted"}]
    /\ typed \in Seq(Codes) /\ edit \in Seq(Codes)

\* conslock is held by the handler while it runs and by a reader in
\* console_read(), ptablelock by a reader in sleep().
Locks ==
    /\ conslock = "intr" <=> intr \in {"getc", "wake"}
    /\ \A p \in Readers : /\ conslock = p <=> pc[p] \in {"loop", "release", "done"}
                          /\ ptablelock = p <=> pc[p] \in {"release", "sched"}

\* r, w and e are in order and at most the size of the ring apart; the ring
\* holds what was entered and not read, and behind it the line being typed,
\* which has no newline.
Ring ==
    /\ r <= w /\ w <= e /\ e - r <= INPUT_BUF /\ (e - r = INPUT_BUF => r # w)
    /\ Len(typed) = w /\ Len(edit) = e - w
    /\ delivered = SubSeq(typed, 1, r)
    /\ \A i \in r..(w - 1) : buf[i % INPUT_BUF] = typed[i + 1]
    /\ \A i \in w..(e - 1) : buf[i % INPUT_BUF] = edit[i - w + 1]
    /\ \A i \in 1..Len(edit) : edit[i] # "newline"

\* A reader on its way into sleep() found the ring empty, and what is entered
\* after it gave up conslock is announced by a wakeup() that waits for it.
Waiting ==
    \A p \in Readers : /\ pc[p] = "release" => r = w
                       /\ pc[p] \in {"sched", "asleep"} => r = w \/ intr = "wake"

\* What is printed since CPU p panicked: its message, its place at most once, and
\* writes of users on other CPUs.
Outputs == Cpus \X {"panic", "text", "user"}
Users(s) == \A i \in 2..Len(s) : s[i][2] = "user"
Shown(p, s) ==
    /\ s \in Seq(Outputs) /\ Len(s) > 0 /\ s[1] = <<p, "panic">>
    /\ \A i \in 2..Len(s) :
          \/ s[i][2] = "user" /\ s[i][1] # p
          \/ s[i] = <<p, "text">> /\ \A j \in (i + 1)..Len(s) : s[j][2] = "user"

\* The CPU that panicked first is in panic() until it has printed its place; no
\* other CPU is in panic(), and the handler does not run any more.
Panics ==
    /\ intr # "off" => cpu[0] = "run"
    /\ \A c \in Cpus : cpu[c] = "panic" => c = panicked
    /\ panicked = -1 => screen = <<>>
    /\ panicked # -1 =>
         /\ intr \in {"off", "dump"} /\ cpu[panicked] \in {"panic", "halted"}
         /\ Shown(panicked, screen) /\ (cpu[panicked] = "panic" => Users(screen))

IInv == Typed /\ Locks /\ Ring /\ Waiting /\ Panics
-----------------------------------------------------------------------------
(* Sequences and the ring.                                                 *)

\* Two positions less than a ring apart are different slots.
LEMMA SlotsApart ==
    ASSUME NEW N \in Nat \ {0}, NEW i \in Nat, NEW j \in Nat, i < j, j - i < N
    PROVE  i % N # j % N
<1> DEFINE a == i \div N
           b == j \div N
<1>1. a \in Int /\ i = N * a + (i % N)
  OBVIOUS
<1>2. b \in Int /\ j = N * b + (j % N)
  OBVIOUS
<1> HIDE DEF a, b
<1>3. i % N \in Int /\ j % N \in Int
  OBVIOUS
<1> SUFFICES ASSUME i % N = j % N PROVE FALSE
  OBVIOUS
<1>4. j - i = N * (b - a)
  <2>1. N * b \in Int /\ N * a \in Int /\ N * (b - a) = N * b - N * a
    BY <1>1, <1>2
  <2> QED
    BY <1>1, <1>2, <1>3, <2>1
<1> DEFINE d == b - a
<1>5. d \in Int /\ j - i = N * d
  BY <1>1, <1>2, <1>4
<1> HIDE DEF d
<1>6. CASE d <= 0
  <2>1. N * d <= 0
    BY <1>5, <1>6
  <2> QED
    BY <1>5, <2>1
<1>7. CASE d >= 1
  <2>1. N * d >= N
    BY <1>5, <1>7
  <2> QED
    BY <1>5, <2>1
<1> QED
  BY <1>5, <1>6, <1>7

\* A slot of the ring.
LEMMA SlotOf ==
    ASSUME NEW i \in Nat
    PROVE  i % INPUT_BUF \in Slots
  BY ConsoleAssumption DEF Slots

\* A prefix and the element behind it make the next prefix.
LEMMA NextPrefix ==
    ASSUME NEW S, NEW s \in Seq(S), NEW k \in Nat, k < Len(s)
    PROVE  Append(SubSeq(s, 1, k), s[k + 1]) = SubSeq(s, 1, k + 1)
<1>1. SubSeq(s, 1, k) \in Seq(S) /\ Len(SubSeq(s, 1, k)) = k
  OBVIOUS
<1>2. SubSeq(s, 1, k + 1) \in Seq(S) /\ Len(SubSeq(s, 1, k + 1)) = k + 1
  OBVIOUS
<1>3. s[k + 1] \in S
  OBVIOUS
<1>4. \A i \in 1..(k + 1) : Append(SubSeq(s, 1, k), s[k + 1])[i] = SubSeq(s, 1, k + 1)[i]
  BY <1>1, <1>2
<1> QED
  BY <1>1, <1>2, <1>3, <1>4, SeqEqual

\* Two sequences that agree up to k have the same prefix.
LEMMA SamePrefix ==
    ASSUME NEW S, NEW s \in Seq(S), NEW t \in Seq(S), NEW k \in Nat, k <= Len(s), k <= Len(t),
           \A i \in 1..k : s[i] = t[i]
    PROVE  SubSeq(s, 1, k) = SubSeq(t, 1, k)
<1>1. /\ SubSeq(s, 1, k) \in Seq(S) /\ Len(SubSeq(s, 1, k)) = k
      /\ SubSeq(t, 1, k) \in Seq(S) /\ Len(SubSeq(t, 1, k)) = k
  OBVIOUS
<1>2. \A i \in 1..k : SubSeq(s, 1, k)[i] = SubSeq(t, 1, k)[i]
  OBVIOUS
<1> QED
  BY <1>1, <1>2, SeqEqual

\* What is entered with c: what was entered, the line being typed, and c.
LEMMA Entered ==
    ASSUME NEW S, NEW s \in Seq(S), NEW t \in Seq(S), NEW c \in S
    PROVE  /\ s \o t \o <<c>> \in Seq(S)
           /\ Len(s \o t \o <<c>>) = Len(s) + Len(t) + 1
           /\ \A i \in 1..(Len(s) + Len(t) + 1) :
                 (s \o t \o <<c>>)[i] = IF i <= Len(s) THEN s[i]
                                        ELSE IF i <= Len(s) + Len(t) THEN t[i - Len(s)] ELSE c
<1> DEFINE u == s \o t
<1>1. u \in Seq(S) /\ Len(u) = Len(s) + Len(t)
  OBVIOUS
<1>2. \A i \in 1..(Len(s) + Len(t)) : u[i] = IF i <= Len(s) THEN s[i] ELSE t[i - Len(s)]
  OBVIOUS
<1> HIDE DEF u
<1>3. /\ u \o <<c>> \in Seq(S) /\ Len(u \o <<c>>) = Len(u) + 1
      /\ \A i \in 1..(Len(u) + 1) : (u \o <<c>>)[i] = IF i <= Len(u) THEN u[i] ELSE c
  BY <1>1
<1> QED
  BY <1>1, <1>2, <1>3 DEF u
-----------------------------------------------------------------------------
(* What a step leaves alone.                                               *)

\* panicked is -1 or a CPU number.
LEMMA PanickedNat ==
    ASSUME Typed
    PROVE  panicked \in Int /\ (panicked >= 0 <=> panicked # -1) /\ (panicked # -1 => panicked \in Cpus)
  BY ConsoleAssumption DEF Typed, TypeOK

\* The first and the second line of output.
LEMMA OneLine == ASSUME NEW x PROVE Append(<<>>, x) = <<x>>
  OBVIOUS

\* A line behind what is printed.
LEMMA OneMore ==
    ASSUME NEW s \in Seq(Outputs), NEW x \in Outputs
    PROVE  /\ Append(s, x) \in Seq(Outputs) /\ Len(Append(s, x)) = Len(s) + 1 /\ Len(s) \in Nat
           /\ Append(s, x)[Len(s) + 1] = x /\ \A i \in 1..Len(s) : Append(s, x)[i] = s[i]
  OBVIOUS

\* The write of a user on another CPU.
LEMMA ShownUser ==
    ASSUME NEW p \in Cpus, NEW s, Shown(p, s), NEW c \in Cpus, c # p
    PROVE  Shown(p, Append(s, <<c, "user">>)) /\ (Users(s) => Users(Append(s, <<c, "user">>)))
<1> DEFINE x == <<c, "user">>
           t == Append(s, x)
<1>1. x \in Outputs /\ x[1] = c /\ x[2] = "user"
  BY DEF Outputs
<1>2. /\ t \in Seq(Outputs) /\ Len(t) = Len(s) + 1 /\ Len(s) \in Nat /\ Len(s) > 0
      /\ t[Len(s) + 1] = x /\ \A i \in 1..Len(s) : t[i] = s[i]
  BY <1>1, OneMore DEF Shown
<1> HIDE DEF x, t
<1>3. t[1] = <<p, "panic">>
  BY <1>2 DEF Shown
<1>4. ASSUME NEW i \in 2..Len(t)
      PROVE  \/ t[i][2] = "user" /\ t[i][1] # p
             \/ t[i] = <<p, "text">> /\ \A j \in (i + 1)..Len(t) : t[j][2] = "user"
  <2>1. CASE i = Len(s) + 1
    BY <1>1, <1>2, <2>1
  <2>2. CASE i # Len(s) + 1
    <3>1. i \in 2..Len(s) /\ i \in 1..Len(s) /\ t[i] = s[i]
      BY <1>2, <2>2
    <3>2. ASSUME NEW j \in (i + 1)..Len(t), \A k \in (i + 1)..Len(s) : s[k][2] = "user" PROVE t[j][2] = "user"
      <4>1. CASE j = Len(s) + 1
        BY <1>1, <1>2, <4>1
      <4>2. CASE j # Len(s) + 1
        <5>1. j \in (i + 1)..Len(s) /\ j \in 1..Len(s)
          BY <1>2, <3>1, <4>2
        <5> QED
          BY <1>2, <3>2, <5>1
      <4> QED
        BY <4>1, <4>2
    <3> QED
      BY <3>1, <3>2 DEF Shown
  <2> QED
    BY <2>1, <2>2
<1>5. Shown(p, t)
  BY <1>2, <1>3, <1>4 DEF Shown
<1>6. ASSUME Users(s), NEW i \in 2..Len(t) PROVE t[i][2] = "user"
  <2>1. CASE i = Len(s) + 1
    BY <1>1, <1>2, <2>1
  <2>2. CASE i # Len(s) + 1
    <3>1. i \in 2..Len(s) /\ i \in 1..Len(s)
      BY <1>2, <2>2
    <3> QED
      BY <1>2, <1>6, <3>1 DEF Users
  <2> QED
    BY <2>1, <2>2
<1> QED
  BY <1>5, <1>6 DEF Users, x, t

\* The place, by the CPU that panicked, where only users have written since.
LEMMA ShownPlace ==
    ASSUME NEW p \in Cpus, NEW s, Shown(p, s), Users(s)
    PROVE  Shown(p, Append(s, <<p, "text">>))
<1> DEFINE x == <<p, "text">>
           t == Append(s, x)
<1>1. x \in Outputs
  BY DEF Outputs
<1>2. /\ t \in Seq(Outputs) /\ Len(t) = Len(s) + 1 /\ Len(s) \in Nat /\ Len(s) > 0
      /\ t[Len(s) + 1] = x /\ \A i \in 1..Len(s) : t[i] = s[i]
  BY <1>1, OneMore DEF Shown
<1>3. \A i \in 2..Len(s) : s[i][2] = "user" /\ s[i] # <<p, "text">>
  <2> SUFFICES ASSUME NEW i \in 2..Len(s) PROVE s[i][2] = "user" /\ s[i] # <<p, "text">>
    OBVIOUS
  <2>1. s[i][2] = "user" /\ <<p, "text">>[2] # "user"
    BY DEF Users
  <2> QED
    BY <2>1
<1>4. \A i \in 2..Len(s) : s[i][1] # p
  BY <1>3 DEF Shown
<1> HIDE DEF x, t
<1>5. t[1] = <<p, "panic">>
  BY <1>2 DEF Shown
<1>6. ASSUME NEW i \in 2..Len(t)
      PROVE  \/ t[i][2] = "user" /\ t[i][1] # p
             \/ t[i] = x /\ \A j \in (i + 1)..Len(t) : t[j][2] = "user"
  <2>1. CASE i = Len(s) + 1
    BY <1>2, <2>1
  <2>2. CASE i # Len(s) + 1
    <3>1. i \in 2..Len(s) /\ i \in 1..Len(s)
      BY <1>2, <2>2
    <3> QED
      BY <1>2, <1>3, <1>4, <3>1
  <2> QED
    BY <2>1, <2>2
<1> QED
  BY <1>2, <1>5, <1>6 DEF Shown, x, t

LEMMA InitIInv == Init => IInv
<1> SUFFICES ASSUME Init PROVE IInv
  OBVIOUS
<1> USE ConsoleAssumption
<1>1. Typed
  BY DEF Init, Typed, TypeOK, Points, Codes, Slots
<1>2. Locks /\ Waiting /\ Panics
  BY DEF Init, Locks, Waiting, Panics
<1>3. Ring
  <2>1. SubSeq(<<>>, 1, 0) = <<>>
    OBVIOUS
  <2> QED
    BY <2>1 DEF Init, Ring
<1> QED
  BY <1>1, <1>2, <1>3 DEF IInv

\* A step that leaves the ring and its histories alone.
LEMMA RingKept ==
    ASSUME Ring, UNCHANGED <<buf, r, w, e, typed, edit, delivered>>
    PROVE  Ring'
  BY DEF Ring

\* A step of the handler writes nothing for the kernel: there is no panic.
LEMMA NoEcho ==
    ASSUME IInv, intr = "getc", consputc(0, "echo"), UNCHANGED panicked
    PROVE  screen' = screen
<1>1. panicked = -1
  BY DEF IInv, Panics
<1> QED
  BY <1>1 DEF consputc, vprintfmt

\* A step of the handler between getc() and wakeup().
LEMMA HandlerKept ==
    ASSUME IInv, intr = "getc", intr' \in {"getc", "wake"}, UNCHANGED <<pc, conslock, ptablelock>>,
           UNCHANGED <<panicked, cpu, screen>>
    PROVE  Locks' /\ Panics'
<1>1. Locks'
  BY DEF IInv, Locks
<1>2. Panics'
  BY DEF IInv, Panics
<1> QED
  BY <1>1, <1>2
-----------------------------------------------------------------------------
(* Output.                                                                 *)

LEMMA MessageStep == ASSUME IInv, NEW c \in Cpus, Message(c) PROVE IInv'
<1> USE DEF inputVars, readVars
<1>1. panicked' = panicked
  BY DEF Message, cprintf
<1>2. CASE panicked = -1
  <2>1. cpu' = [cpu EXCEPT ![c] = "run"] /\ screen' = screen
    BY <1>1, <1>2 DEF Message, cprintf, vprintfmt
  <2>2. Typed' /\ Locks' /\ Waiting' /\ Ring'
    BY <1>1, <2>1, RingKept DEF IInv, Typed, TypeOK, Locks, Waiting, Message
  <2>3. Panics'
    BY <1>1, <1>2, <2>1 DEF IInv, Typed, Panics, Message
  <2> QED
    BY <2>2, <2>3 DEF IInv
<1>3. CASE panicked # -1
  <2>1. panicked # c /\ panicked >= 0 /\ panicked \in Cpus
    BY <1>3, PanickedNat DEF IInv, Panics, Message
  <2>2. cpu' = [cpu EXCEPT ![c] = "halted"] /\ screen' = screen
    BY <2>1 DEF Message, cprintf, Halt
  <2>3. Typed' /\ Locks' /\ Waiting' /\ Ring'
    BY <1>1, <2>2, RingKept DEF IInv, Typed, TypeOK, Locks, Waiting, Message
  <2>4. Panics'
    BY <1>1, <1>3, <2>1, <2>2, ConsoleAssumption DEF IInv, Typed, Panics, Message
  <2> QED
    BY <2>3, <2>4 DEF IInv
<1> QED
  BY <1>2, <1>3

\* The write of a process, before a panic and after it.
LEMMA ConsoleWriteStep == ASSUME IInv, NEW c \in Cpus, console_write(c) PROVE IInv'
<1> USE DEF inputVars, readVars
<1>1. panicked' = panicked /\ cpu' = cpu /\ intr' = intr /\ cpu[c] = "run"
  BY DEF console_write
<1>2. Typed' /\ Locks' /\ Waiting' /\ Ring'
  BY RingKept DEF console_write, IInv, Typed, TypeOK, Locks, Waiting
<1>3. CASE panicked = -1
  <2>1. screen' = screen
    BY <1>1, <1>3 DEF console_write, consputc, vprintfmt
  <2> QED
    BY <1>1, <1>2, <1>3, <2>1 DEF IInv, Panics
<1>4. CASE panicked # -1
  <2>1. panicked # c /\ panicked >= 0 /\ panicked \in Cpus
    BY <1>1, <1>4, PanickedNat DEF IInv, Panics
  <2>2. screen' = Append(screen, <<c, "user">>)
    BY <1>1, <2>1 DEF console_write, consputc, vprintfmt
  <2>3. Shown(panicked, screen') /\ (Users(screen) => Users(screen'))
    BY <1>4, <2>1, <2>2, ShownUser DEF IInv, Panics
  <2>4. Panics'
    BY <1>1, <1>4, <2>3 DEF IInv, Panics
  <2> QED
    BY <1>2, <2>4 DEF IInv
<1> QED
  BY <1>3, <1>4

\* The first CPU in panic() prints, another one stops.
LEMMA panicStep ==
    ASSUME IInv, NEW c \in Cpus, cpu[c] = "run", panic(c),
           intr \in {"off", "dump"}, c = 0 => intr' = "off", c # 0 => intr' = intr
    PROVE  /\ panicked' \in Cpus \cup {-1} /\ cpu' \in [Cpus -> {"run", "panic", "halted"}]
           /\ Panics'
<1>1. CASE panicked = -1
  <2>1. panicked' = c /\ cpu' = [cpu EXCEPT ![c] = "panic"] /\ c >= 0 /\ c # -1
    BY <1>1, ConsoleAssumption DEF panic
  <2>2. screen' = <<<<c, "panic">>>>
    <3>1. screen' = Append(screen, <<c, "panic">>)
      BY <1>1, <2>1 DEF panic, vprintfmt
    <3>2. screen = <<>>
      BY <1>1 DEF IInv, Panics
    <3> QED
      BY <3>1, <3>2, OneLine
  <2>3. \A d \in Cpus : cpu[d] # "panic"
    BY <1>1, ConsoleAssumption DEF IInv, Panics
  <2>4. panicked' \in Cpus \cup {-1} /\ cpu' \in [Cpus -> {"run", "panic", "halted"}]
    BY <2>1 DEF IInv, Typed
  <2>5. cpu'[c] = "panic" /\ \A d \in Cpus : d # c => cpu'[d] = cpu[d]
    BY <2>1 DEF IInv, Typed
  <2>6. Shown(c, screen') /\ Users(screen')
    <3>1. <<c, "panic">> \in Outputs
      BY DEF Outputs
    <3> QED
      BY <2>2, <3>1 DEF Shown, Users
  <2>7. Panics'
    BY <2>1, <2>3, <2>5, <2>6, ConsoleAssumption DEF IInv, Panics
  <2> QED
    BY <2>4, <2>7
<1>2. CASE panicked # -1
  <2>1. panicked # c /\ panicked >= 0 /\ panicked \in Cpus
    BY <1>2, PanickedNat DEF IInv, Panics
  <2>2. panicked' = panicked /\ cpu' = [cpu EXCEPT ![c] = "halted"] /\ screen' = screen
    BY <2>1, PanickedNat DEF panic, Halt, IInv
  <2>3. Panics'
    BY <1>2, <2>1, <2>2, ConsoleAssumption DEF IInv, Typed, Panics
  <2> QED
    BY <2>2, <2>3 DEF IInv, Typed, TypeOK
<1> QED
  BY <1>1, <1>2

LEMMA PanicStep == ASSUME IInv, NEW c \in Cpus, Panic(c) PROVE IInv'
<1> USE DEF inputVars, readVars
<1>1. cpu[c] = "run" /\ intr' = intr /\ (c = 0 => intr = "off") /\ panic(c)
  BY DEF Panic
<1>2. intr \in {"off", "dump"}
  BY <1>1 DEF panic, IInv, Locks, Typed
<1>3. /\ panicked' \in Cpus \cup {-1} /\ cpu' \in [Cpus -> {"run", "panic", "halted"}]
      /\ Panics'
  BY <1>1, <1>2, panicStep
<1>4. Typed' /\ Locks' /\ Waiting' /\ Ring'
  BY <1>3, RingKept DEF IInv, Typed, TypeOK, Locks, Waiting, Panic
<1> QED
  BY <1>3, <1>4 DEF IInv

\* The second line of the panic.
LEMMA PanicWhereStep == ASSUME IInv, NEW c \in Cpus, PanicWhere(c) PROVE IInv'
<1> USE DEF inputVars, readVars
<1>1. panicked' = panicked /\ panicked = c /\ c >= 0 /\ c # -1
  BY ConsoleAssumption DEF PanicWhere, cprintf, IInv, Panics
<1>2. cpu' = [cpu EXCEPT ![c] = "halted"] /\ screen' = Append(screen, <<c, "text">>)
  BY <1>1 DEF PanicWhere, cprintf, vprintfmt
<1>3. Shown(c, screen')
  <2>1. Shown(c, screen) /\ Users(screen)
    BY <1>1 DEF PanicWhere, IInv, Panics
  <2> QED
    BY <1>2, <2>1, ShownPlace
<1>4. Typed' /\ Locks' /\ Waiting' /\ Ring'
  BY <1>1, <1>2, RingKept DEF IInv, Typed, TypeOK, Locks, Waiting, PanicWhere
<1>5. Panics'
  <2>1. cpu'[c] = "halted" /\ \A d \in Cpus : d # c => cpu'[d] = cpu[d]
    BY <1>2 DEF IInv, Typed
  <2>2. c = 0 => intr = "off"
    BY DEF PanicWhere, IInv, Panics
  <2> QED
    BY <1>1, <1>3, <2>1, <2>2, ConsoleAssumption DEF IInv, Panics, PanicWhere
<1> QED
  BY <1>4, <1>5 DEF IInv

LEMMA IntrProcdumpStep == ASSUME IInv, IntrProcdump PROVE IInv'
<1> USE DEF inputVars, readVars
<1>1. intr = "dump" /\ intr' = "off" /\ panic(0) /\ cpu[0] = "run" /\ 0 \in Cpus
  BY ConsoleAssumption DEF IntrProcdump, IInv, Panics
<1>2. /\ panicked' \in Cpus \cup {-1} /\ cpu' \in [Cpus -> {"run", "panic", "halted"}]
      /\ Panics'
  BY <1>1, panicStep
<1>3. Typed' /\ Locks' /\ Waiting' /\ Ring'
  BY <1>1, <1>2, RingKept DEF IInv, Typed, TypeOK, Locks, Waiting, IntrProcdump
<1> QED
  BY <1>2, <1>3 DEF IInv
-----------------------------------------------------------------------------
(* console_intr()                                                          *)

LEMMA IntrEnterStep == ASSUME IInv, IntrEnter PROVE IInv'
<1> USE DEF inputVars, readVars
<1>1. UNCHANGED <<pc, ptablelock, panicked, screen, r, w>> /\ intr = "off" /\ conslock = "none"
  BY DEF IntrEnter
<1>2. CASE panicked = -1
  <2>1. conslock' = "intr" /\ intr' = "getc" /\ cpu' = cpu /\ cpu[0] = "run"
    BY <1>2, ConsoleAssumption DEF IntrEnter
  <2>2. Typed' /\ Ring'
    BY <1>1, <2>1, RingKept DEF IInv, Typed, TypeOK, IntrEnter
  <2>3. Locks' /\ Waiting'
    BY <1>1, <2>1, ConsoleAssumption DEF IInv, Locks, Waiting
  <2>4. Panics'
    BY <1>1, <1>2, <2>1 DEF IInv, Panics
  <2> QED
    BY <2>2, <2>3, <2>4 DEF IInv
<1>3. CASE panicked # -1
  <2>1. UNCHANGED <<conslock, intr>> /\ cpu' = [cpu EXCEPT ![0] = "halted"]
    BY <1>3, PanickedNat DEF IntrEnter, Halt, IInv
  <2>2. Typed' /\ Ring' /\ Locks' /\ Waiting'
    BY <1>1, <2>1, RingKept DEF IInv, Typed, TypeOK, IntrEnter, Locks, Waiting
  <2>3. panicked # 0 /\ panicked \in Cpus
    BY <1>3, PanickedNat DEF IInv, Panics, IntrEnter
  <2>4. Panics'
    BY <1>1, <1>3, <2>1, <2>3, ConsoleAssumption DEF IInv, Typed, Panics
  <2> QED
    BY <2>2, <2>4 DEF IInv
<1> QED
  BY <1>2, <1>3

\* The ring without room: nothing changes.
LEMMA DroppedStep == ASSUME IInv, NEW c \in Codes, IntrChar(c), ~ Room PROVE IInv'
<1> USE DEF inputVars, readVars
<1>1. UNCHANGED <<buf, r, w, e, intr, typed, edit, delivered, pc, conslock, ptablelock, panicked, cpu, screen>>
  BY DEF IntrChar, IntrKeeps
<1>2. Typed' /\ Ring'
  BY <1>1, RingKept DEF IInv, Typed, TypeOK
<1>3. Locks' /\ Panics' /\ Waiting'
  BY <1>1 DEF IInv, Locks, Panics, Waiting
<1> QED
  BY <1>2, <1>3 DEF IInv

\* A character goes into the slot of e, which holds nothing that is still to
\* be read or erased.
LEMMA StoredChar ==
    ASSUME IInv, NEW c \in Codes, IntrChar(c), Room
    PROVE  /\ buf' \in [Slots -> Codes \cup {"nul"}]
           /\ buf'[e % INPUT_BUF] = c
           /\ \A i \in r..(e - 1) : buf'[i % INPUT_BUF] = buf[i % INPUT_BUF]
           /\ e' = e + 1 /\ e' \in 0..MaxIn /\ r' = r
           /\ UNCHANGED <<delivered, pc, conslock, ptablelock, panicked, cpu, screen>>
           /\ intr = "getc" /\ e - r < INPUT_BUF
<1>1. /\ buf' = [buf EXCEPT ![e % INPUT_BUF] = c] /\ e' = e + 1 /\ e < MaxIn /\ r' = r
      /\ UNCHANGED <<delivered, pc, conslock, ptablelock, panicked, cpu>>
      /\ intr = "getc" /\ e - r < INPUT_BUF
  BY DEF IntrChar, IntrKeeps, Room, readVars
<1>2. e \in Nat /\ r \in Nat /\ INPUT_BUF \in Nat \ {0} /\ MaxIn \in Nat
  BY ConsoleAssumption DEF IInv, Typed, TypeOK
<1>3. e % INPUT_BUF \in Slots
  BY <1>2, SlotOf
<1>4. screen' = screen
  BY <1>1, NoEcho DEF IntrChar
<1>5. buf' \in [Slots -> Codes \cup {"nul"}] /\ buf'[e % INPUT_BUF] = c
  BY <1>1, <1>3 DEF IInv, Typed, TypeOK
<1>6. ASSUME NEW i \in r..(e - 1) PROVE buf'[i % INPUT_BUF] = buf[i % INPUT_BUF]
  <2>1. i \in Nat /\ i < e /\ e - i < INPUT_BUF
    BY <1>1, <1>2
  <2>2. i % INPUT_BUF # e % INPUT_BUF /\ i % INPUT_BUF \in Slots
    BY <1>2, <2>1, SlotsApart, SlotOf
  <2> QED
    BY <1>1, <2>2 DEF IInv, Typed, TypeOK
<1> QED
  BY <1>1, <1>2, <1>4, <1>5, <1>6

\* The line goes on.
LEMMA LineStep == ASSUME IInv, NEW c \in Codes, IntrChar(c), Room, ~ Commits(c) PROVE IInv'
<1>1. UNCHANGED <<w, intr, typed>> /\ edit' = Append(edit, c)
  BY DEF IntrChar
<1>2. /\ buf' \in [Slots -> Codes \cup {"nul"}]
      /\ buf'[e % INPUT_BUF] = c
      /\ \A i \in r..(e - 1) : buf'[i % INPUT_BUF] = buf[i % INPUT_BUF]
      /\ e' = e + 1 /\ e' \in 0..MaxIn /\ r' = r
      /\ UNCHANGED <<delivered, pc, conslock, ptablelock, panicked, cpu, screen>>
      /\ intr = "getc" /\ e - r < INPUT_BUF
  BY StoredChar
<1>3. c # "newline" /\ e + 1 # r + INPUT_BUF
  BY DEF Commits
<1>4. /\ r \in Nat /\ w \in Nat /\ e \in Nat /\ r <= w /\ w <= e /\ INPUT_BUF \in Nat
      /\ edit \in Seq(Codes) /\ Len(edit) = e - w
  BY ConsoleAssumption DEF IInv, Typed, TypeOK, Ring
<1>5. /\ edit' \in Seq(Codes) /\ Len(edit') = e - w + 1
      /\ \A i \in 1..(e - w + 1) : edit'[i] = IF i = e - w + 1 THEN c ELSE edit[i]
  BY <1>1, <1>4
<1>6. Typed'
  BY <1>1, <1>2, <1>5 DEF IInv, Typed, TypeOK
<1>7. Ring'
  <2>1. /\ r' <= w' /\ w' <= e' /\ e' - r' <= INPUT_BUF /\ (e' - r' = INPUT_BUF => r' # w')
        /\ Len(typed') = w' /\ Len(edit') = e' - w'
    BY <1>1, <1>2, <1>3, <1>4, <1>5 DEF IInv, Ring
  <2>2. delivered' = SubSeq(typed', 1, r')
    BY <1>1, <1>2 DEF IInv, Ring
  <2>3. ASSUME NEW i \in r'..(w' - 1) PROVE buf'[i % INPUT_BUF] = typed'[i + 1]
    <3>1. i \in r..(w - 1) /\ i \in r..(e - 1)
      BY <1>1, <1>2, <1>4
    <3>2. buf[i % INPUT_BUF] = typed[i + 1]
      BY <3>1 DEF IInv, Ring
    <3> QED
      BY <1>1, <1>2, <3>1, <3>2
  <2>4. ASSUME NEW i \in w'..(e' - 1) PROVE buf'[i % INPUT_BUF] = edit'[i - w' + 1]
    <3>1. CASE i = e
      BY <1>1, <1>2, <1>4, <1>5, <3>1
    <3>2. CASE i # e
      <4>1. i \in w..(e - 1) /\ i \in r..(e - 1) /\ i - w + 1 \in 1..(e - w)
        BY <1>1, <1>2, <1>4, <2>4, <3>2
      <4>2. buf'[i % INPUT_BUF] = edit[i - w + 1]
        BY <1>2, <4>1 DEF IInv, Ring
      <4> QED
        BY <1>1, <1>4, <1>5, <4>1, <4>2
    <3> QED
      BY <3>1, <3>2
  <2>5. ASSUME NEW i \in 1..Len(edit') PROVE edit'[i] # "newline"
    <3>1. i \in 1..(e - w + 1) /\ (i # e - w + 1 => i \in 1..Len(edit))
      BY <1>4, <1>5
    <3>2. i # e - w + 1 => edit[i] # "newline"
      BY <3>1 DEF IInv, Ring
    <3> QED
      BY <1>3, <1>5, <3>1, <3>2
  <2> QED
    BY <2>1, <2>2, <2>3, <2>4, <2>5 DEF Ring
<1>8. Waiting'
  BY <1>1, <1>2 DEF IInv, Waiting
<1>9. Locks' /\ Panics'
  BY <1>1, <1>2, HandlerKept
<1> QED
  BY <1>6, <1>7, <1>8, <1>9 DEF IInv

\* The line is entered, and a wakeup() is due.
LEMMA EnterStep == ASSUME IInv, NEW c \in Codes, IntrChar(c), Room, Commits(c) PROVE IInv'
<1>1. w' = e + 1 /\ intr' = "wake" /\ typed' = typed \o edit \o <<c>> /\ edit' = <<>>
  BY DEF IntrChar
<1>2. /\ buf' \in [Slots -> Codes \cup {"nul"}]
      /\ buf'[e % INPUT_BUF] = c
      /\ \A i \in r..(e - 1) : buf'[i % INPUT_BUF] = buf[i % INPUT_BUF]
      /\ e' = e + 1 /\ e' \in 0..MaxIn /\ r' = r
      /\ UNCHANGED <<delivered, pc, conslock, ptablelock, panicked, cpu, screen>>
      /\ intr = "getc" /\ e - r < INPUT_BUF
  BY StoredChar
<1>3. /\ r \in Nat /\ w \in Nat /\ e \in Nat /\ r <= w /\ w <= e /\ INPUT_BUF \in Nat
      /\ edit \in Seq(Codes) /\ Len(edit) = e - w /\ typed \in Seq(Codes) /\ Len(typed) = w
  BY ConsoleAssumption DEF IInv, Typed, TypeOK, Ring
<1>4. /\ typed' \in Seq(Codes) /\ Len(typed') = e + 1
      /\ \A i \in 1..(e + 1) : typed'[i] = IF i <= w THEN typed[i]
                                          ELSE IF i <= e THEN edit[i - w] ELSE c
  <2>1. w + (e - w) + 1 = e + 1 /\ w + (e - w) = e
    BY <1>3
  <2> QED
    BY <1>1, <1>3, <2>1, Entered
<1>5. Typed'
  BY <1>1, <1>2, <1>4 DEF IInv, Typed, TypeOK
<1>6. Ring'
  <2>1. /\ r' <= w' /\ w' <= e' /\ e' - r' <= INPUT_BUF /\ (e' - r' = INPUT_BUF => r' # w')
        /\ Len(typed') = w' /\ Len(edit') = e' - w'
    BY <1>1, <1>2, <1>3, <1>4
  <2>2. delivered' = SubSeq(typed', 1, r')
    <3>1. \A i \in 1..r : typed'[i] = typed[i]
      BY <1>3, <1>4
    <3>2. SubSeq(typed', 1, r) = SubSeq(typed, 1, r)
      BY <1>3, <1>4, <3>1, SamePrefix
    <3> QED
      BY <1>2, <3>2 DEF IInv, Ring
  <2>3. ASSUME NEW i \in r'..(w' - 1) PROVE buf'[i % INPUT_BUF] = typed'[i + 1]
    <3>0. i \in r..e /\ i + 1 \in 1..(e + 1)
      BY <1>1, <1>2, <1>3, <2>3
    <3>1. CASE i = e
      BY <1>2, <1>3, <1>4, <3>0, <3>1
    <3>2. CASE i # e /\ i >= w
      <4>1. i \in w..(e - 1) /\ i \in r..(e - 1) /\ (i + 1) - w = i - w + 1
        BY <1>3, <3>0, <3>2
      <4>2. buf'[i % INPUT_BUF] = edit[i - w + 1]
        BY <1>2, <4>1 DEF IInv, Ring
      <4>3. ~ (i + 1 <= w) /\ i + 1 <= e
        BY <1>3, <3>0, <3>2
      <4>4. ASSUME NEW j \in 1..(e + 1), ~ (j <= w), j <= e PROVE typed'[j] = edit[j - w]
        BY <1>3, <1>4, <4>4
      <4>5. typed'[i + 1] = edit[(i + 1) - w]
        BY <3>0, <4>3, <4>4, ZenonT(60)
      <4> QED
        BY <4>1, <4>2, <4>5
    <3>3. CASE i < w
      <4>1. i \in r..(w - 1) /\ i \in r..(e - 1)
        BY <1>3, <3>0, <3>3
      <4>2. buf'[i % INPUT_BUF] = typed[i + 1]
        BY <1>2, <4>1 DEF IInv, Ring
      <4> QED
        BY <1>3, <1>4, <3>0, <3>3, <4>2
    <3> QED
      BY <1>3, <3>0, <3>1, <3>2, <3>3
  <2>4. \A i \in w'..(e' - 1) : buf'[i % INPUT_BUF] = edit'[i - w' + 1]
    BY <1>1, <1>2, <1>3
  <2>5. \A i \in 1..Len(edit') : edit'[i] # "newline"
    BY <1>1
  <2> QED
    BY <2>1, <2>2, <2>3, <2>4, <2>5 DEF Ring
<1>7. Waiting'
  <2>1. \A p \in Readers : pc[p] # "release"
    BY <1>2, ConsoleAssumption DEF IInv, Locks
  <2> QED
    BY <1>1, <1>2, <2>1 DEF Waiting
<1>8. Locks' /\ Panics'
  BY <1>1, <1>2, HandlerKept
<1> QED
  BY <1>5, <1>6, <1>7, <1>8 DEF IInv

LEMMA IntrCharStep == ASSUME IInv, NEW c \in Codes, IntrChar(c) PROVE IInv'
  BY DroppedStep, LineStep, EnterStep

\* ^H never goes back behind w.
LEMMA IntrBackspaceStep == ASSUME IInv, IntrBackspace PROVE IInv'
<1>1. /\ intr = "getc" /\ e # w /\ e' = e - 1 /\ edit' = SubSeq(edit, 1, Len(edit) - 1)
      /\ UNCHANGED <<buf, r, w, typed, intr, delivered, pc, conslock, ptablelock, panicked, cpu>>
  BY DEF IntrBackspace, IntrKeeps, readVars
<1>2. /\ r \in Nat /\ w \in Nat /\ e \in Nat /\ r <= w /\ w < e /\ INPUT_BUF \in Nat /\ e <= MaxIn
      /\ edit \in Seq(Codes) /\ Len(edit) = e - w /\ MaxIn \in Nat
  BY <1>1, ConsoleAssumption DEF IInv, Typed, TypeOK, Ring
<1>3. /\ edit' \in Seq(Codes) /\ Len(edit') = e - 1 - w
      /\ \A i \in 1..(e - 1 - w) : edit'[i] = edit[i]
  <2> DEFINE k == Len(edit) - 1
  <2>1. k \in Nat /\ k <= Len(edit) /\ k = e - 1 - w
    BY <1>2
  <2> HIDE DEF k
  <2>2. /\ SubSeq(edit, 1, k) \in Seq(Codes) /\ Len(SubSeq(edit, 1, k)) = k
        /\ \A i \in 1..k : SubSeq(edit, 1, k)[i] = edit[i]
    BY <1>2, <2>1
  <2> QED
    BY <1>1, <2>1, <2>2 DEF k
<1>4. screen' = screen
  BY <1>1, NoEcho DEF IntrBackspace
<1>5. Typed'
  BY <1>1, <1>2, <1>3 DEF IInv, Typed, TypeOK
<1>6. Ring'
  <2>1. /\ r' <= w' /\ w' <= e' /\ e' - r' <= INPUT_BUF /\ (e' - r' = INPUT_BUF => r' # w')
        /\ Len(typed') = w' /\ Len(edit') = e' - w'
    BY <1>1, <1>2, <1>3 DEF IInv, Ring
  <2>2. /\ delivered' = SubSeq(typed', 1, r')
        /\ \A i \in r'..(w' - 1) : buf'[i % INPUT_BUF] = typed'[i + 1]
    BY <1>1 DEF IInv, Ring
  <2>3. ASSUME NEW i \in w'..(e' - 1) PROVE buf'[i % INPUT_BUF] = edit'[i - w' + 1]
    <3>1. i \in w..(e - 1) /\ i - w + 1 \in 1..(e - 1 - w)
      BY <1>1, <1>2
    <3> QED
      BY <1>1, <1>3, <3>1 DEF IInv, Ring
  <2>4. ASSUME NEW i \in 1..Len(edit') PROVE edit'[i] # "newline"
    <3>1. i \in 1..(e - 1 - w) /\ i \in 1..Len(edit)
      BY <1>2, <1>3
    <3> QED
      BY <1>3, <3>1 DEF IInv, Ring
  <2> QED
    BY <2>1, <2>2, <2>3, <2>4 DEF Ring
<1>7. Waiting'
  BY <1>1 DEF IInv, Waiting
<1>8. Locks' /\ Panics'
  BY <1>1, <1>4, HandlerKept
<1> QED
  BY <1>5, <1>6, <1>7, <1>8 DEF IInv

\* ^U goes back to w: there is no newline in between.
LEMMA IntrKillStep == ASSUME IInv, IntrKill PROVE IInv'
<1> DEFINE stops == {i \in w..e : i = w \/ buf[(i - 1) % INPUT_BUF] = "newline"}
<1>1. /\ intr = "getc" /\ e # w /\ edit' = <<>>
      /\ UNCHANGED <<buf, r, w, typed, intr, delivered, pc, conslock, ptablelock, panicked, cpu>>
  BY DEF IntrKill, IntrKeeps, readVars
<1>2. /\ r \in Nat /\ w \in Nat /\ e \in Nat /\ r <= w /\ w < e /\ INPUT_BUF \in Nat /\ e <= MaxIn
      /\ Len(edit) = e - w /\ MaxIn \in Nat /\ e - r <= INPUT_BUF
  BY <1>1, ConsoleAssumption DEF IInv, Typed, TypeOK, Ring
<1>3. stops = {w}
  <2>1. ASSUME NEW i \in w..e, i # w PROVE buf[(i - 1) % INPUT_BUF] # "newline"
    <3>1. i - 1 \in w..(e - 1) /\ i - 1 - w + 1 \in 1..Len(edit)
      BY <1>2, <2>1
    <3>2. buf[(i - 1) % INPUT_BUF] = edit[i - 1 - w + 1]
      BY <3>1 DEF IInv, Ring
    <3> QED
      BY <3>1, <3>2 DEF IInv, Ring
  <2> QED
    BY <1>2, <2>1
<1>4. e' = w
  <2>0. e' = CHOOSE i \in stops : \A j \in stops : j <= i
    BY DEF IntrKill
  <2> HIDE DEF stops
  <2>1. \E i \in stops : \A j \in stops : j <= i
    BY <1>2, <1>3
  <2> QED
    BY <1>3, <2>0, <2>1
<1>5. screen' = screen
  BY <1>1, NoEcho DEF IntrKill
<1> HIDE DEF stops
<1>6. Typed'
  <2>1. edit' \in Seq(Codes) /\ e' \in 0..MaxIn
    BY <1>1, <1>2, <1>4
  <2> QED
    BY <1>1, <2>1 DEF IInv, Typed, TypeOK
<1>7. Ring'
  <2>0. Len(edit') = 0 /\ Len(typed) = w
    BY <1>1 DEF IInv, Ring
  <2>1. /\ r' <= w' /\ w' <= e' /\ e' - r' <= INPUT_BUF /\ (e' - r' = INPUT_BUF => r' # w')
        /\ Len(typed') = w' /\ Len(edit') = e' - w'
    BY <1>1, <1>2, <1>4, <2>0
  <2>2. /\ delivered' = SubSeq(typed', 1, r')
        /\ \A i \in r'..(w' - 1) : buf'[i % INPUT_BUF] = typed'[i + 1]
    BY <1>1 DEF IInv, Ring
  <2>3. /\ \A i \in w'..(e' - 1) : buf'[i % INPUT_BUF] = edit'[i - w' + 1]
        /\ \A i \in 1..Len(edit') : edit'[i] # "newline"
    BY <1>1, <1>2, <1>4, <2>0
  <2> QED
    BY <2>1, <2>2, <2>3 DEF Ring
<1>8. Waiting'
  BY <1>1 DEF IInv, Waiting
<1>9. Locks' /\ Panics'
  BY <1>1, <1>5, HandlerKept
<1> QED
  BY <1>6, <1>7, <1>8, <1>9 DEF IInv

LEMMA IntrDumpStep == ASSUME IInv, IntrDump PROVE IInv'
<1> USE DEF inputVars, readVars
<1>1. UNCHANGED <<buf, r, w, e, intr, typed, edit, delivered, pc, conslock, ptablelock, panicked, cpu, screen>>
  BY DEF IntrDump, IntrKeeps
<1>2. Typed' /\ Ring'
  BY <1>1, RingKept DEF IInv, Typed, TypeOK
<1>3. Locks' /\ Panics' /\ Waiting'
  BY <1>1 DEF IInv, Locks, Panics, Waiting
<1> QED
  BY <1>2, <1>3 DEF IInv

\* ptablelock is free, so no reader is between its test and the queue.
LEMMA IntrWakeStep == ASSUME IInv, IntrWake PROVE IInv'
<1> USE DEF inputVars, outVars
<1>1. /\ UNCHANGED <<buf, r, w, e, typed, edit, delivered, conslock, ptablelock, panicked, cpu, screen>>
      /\ intr = "wake" /\ intr' = "getc" /\ ptablelock = "none"
      /\ pc' = [p \in Readers |-> IF pc[p] = "asleep" THEN "woken" ELSE pc[p]]
  BY DEF IntrWake, Woken
<1>2. Typed' /\ Ring'
  BY <1>1, RingKept DEF IInv, Typed, TypeOK, Points
<1>3. Locks'
  BY <1>1 DEF IInv, Locks
<1>4. \A p \in Readers : pc[p] \notin {"release", "sched"}
  BY <1>1, ConsoleAssumption DEF IInv, Locks
<1>5. Waiting'
  BY <1>1, <1>4 DEF Waiting
<1>6. Panics'
  BY <1>1 DEF IInv, Panics
<1> QED
  BY <1>2, <1>3, <1>5, <1>6 DEF IInv

LEMMA IntrExitStep == ASSUME IInv, IntrExit PROVE IInv'
<1> USE DEF inputVars, readVars, outVars
<1>1. /\ UNCHANGED <<buf, r, w, e, typed, edit, delivered, pc, ptablelock, panicked, cpu, screen>>
      /\ intr = "getc" /\ intr' \in {"off", "dump"} /\ conslock' = "none"
  BY DEF IntrExit
<1>2. Typed' /\ Ring'
  BY <1>1, RingKept DEF IInv, Typed, TypeOK
<1>3. Locks'
  BY <1>1, ConsoleAssumption DEF IInv, Locks
<1>4. Waiting' /\ Panics'
  BY <1>1 DEF IInv, Waiting, Panics
<1> QED
  BY <1>2, <1>3, <1>4 DEF IInv
-----------------------------------------------------------------------------
(* console_read() and sleep()                                              *)

\* Only one reader holds conslock, and the handler does not run beside it.
LEMMA Alone ==
    ASSUME IInv, NEW p \in Readers, pc[p] \in {"loop", "release", "done"}
    PROVE  /\ conslock = p /\ intr \notin {"getc", "wake"}
           /\ \A q \in Readers \ {p} : pc[q] \notin {"loop", "release", "done"}
  BY ConsoleAssumption DEF IInv, Locks

\* A step of a reader that leaves the ring, the handler and the output alone.
LEMMA ReaderKept ==
    ASSUME IInv, pc' \in [Readers -> Points],
           UNCHANGED <<buf, r, w, e, typed, edit, delivered, intr, panicked, cpu, screen>>,
           conslock' \in Readers \cup {"intr", "none"}, ptablelock' \in Readers \cup {"none"}
    PROVE  Typed' /\ Ring' /\ Panics'
<1>1. Typed' /\ Ring'
  BY RingKept DEF IInv, Typed, TypeOK
<1>2. Panics'
  BY DEF IInv, Panics
<1> QED
  BY <1>1, <1>2

\* How a reader's move shows in pc.
LEMMA Moved ==
    ASSUME IInv, NEW p \in Readers, NEW l \in Points, Goto(p, l)
    PROVE  /\ pc' \in [Readers -> Points] /\ pc'[p] = l
           /\ \A q \in Readers \ {p} : pc'[q] = pc[q]
  BY DEF Goto, IInv, Typed

LEMMA ReadEnterStep == ASSUME IInv, NEW p \in Readers, NEW k \in Sizes, ReadEnter(p, k) PROVE IInv'
<1>1. /\ UNCHANGED <<buf, r, w, e, typed, edit, delivered, intr, panicked, cpu, screen, ptablelock>>
      /\ pc[p] = "idle" /\ conslock = "none" /\ conslock' = p /\ Goto(p, "loop")
  BY DEF ReadEnter, inputVars, outVars
<1>2. /\ pc' \in [Readers -> Points] /\ pc'[p] = "loop"
      /\ \A q \in Readers \ {p} : pc'[q] = pc[q]
  BY <1>1, Moved DEF Points
<1>3. Typed' /\ Ring' /\ Panics'
  BY <1>1, <1>2, ReaderKept DEF IInv, Typed, TypeOK
<1>4. Locks'
  BY <1>1, <1>2, ConsoleAssumption DEF IInv, Locks
<1>5. Waiting'
  BY <1>1, <1>2 DEF IInv, Waiting
<1> QED
  BY <1>3, <1>4, <1>5 DEF IInv

\* The slot of r holds the next character that was entered.
LEMMA ReadTakeStep == ASSUME IInv, NEW p \in Readers, ReadTake(p) PROVE IInv'
<1> DEFINE c == buf[r % INPUT_BUF]
<1>1. /\ UNCHANGED <<buf, w, e, typed, edit, intr, panicked, cpu, screen, ptablelock, conslock>>
      /\ pc[p] = "loop" /\ r # w /\ Take(p)
  BY DEF ReadTake, outVars
<1>2. /\ r \in Nat /\ w \in Nat /\ e \in Nat /\ r < w /\ w <= e /\ INPUT_BUF \in Nat /\ w <= MaxIn
      /\ typed \in Seq(Codes) /\ Len(typed) = w /\ MaxIn \in Nat /\ Len(edit) = e - w
      /\ e - r <= INPUT_BUF
  BY <1>1, ConsoleAssumption DEF IInv, Typed, TypeOK, Ring
<1>3. c = typed[r + 1]
  <2>1. r \in r..(w - 1)
    BY <1>2
  <2> QED
    BY <2>1 DEF IInv, Ring
<1>4. PICK l \in {"loop", "done"} : Goto(p, l)
  BY <1>1 DEF Take
<1>5. /\ pc' \in [Readers -> Points] /\ pc'[p] \in {"loop", "done"}
      /\ \A q \in Readers \ {p} : pc'[q] = pc[q]
  BY <1>4, Moved DEF Points
<1>6. \/ r' = r /\ delivered' = delivered
      \/ r' = r + 1 /\ delivered' = Append(delivered, c)
  BY <1>1 DEF Take
<1> HIDE DEF c
<1>7. r' \in Nat /\ r <= r' /\ r' <= w
  BY <1>2, <1>6
<1>8. Typed'
  <2>1. r' \in 0..MaxIn
    BY <1>2, <1>7
  <2> QED
    BY <1>1, <1>5, <2>1 DEF IInv, Typed, TypeOK
<1>9. Ring'
  <2>1. /\ r' <= w' /\ w' <= e' /\ e' - r' <= INPUT_BUF /\ (e' - r' = INPUT_BUF => r' # w')
        /\ Len(typed') = w' /\ Len(edit') = e' - w'
    BY <1>1, <1>2, <1>6
  <2>2. delivered' = SubSeq(typed', 1, r')
    <3>1. delivered = SubSeq(typed, 1, r)
      BY DEF IInv, Ring
    <3>2. Append(SubSeq(typed, 1, r), typed[r + 1]) = SubSeq(typed, 1, r + 1)
      BY <1>2, NextPrefix
    <3> QED
      BY <1>1, <1>3, <1>6, <3>1, <3>2
  <2>3. ASSUME NEW i \in r'..(w' - 1) PROVE buf'[i % INPUT_BUF] = typed'[i + 1]
    <3>1. i \in r..(w - 1)
      BY <1>1, <1>2, <1>7
    <3> QED
      BY <1>1, <3>1 DEF IInv, Ring
  <2>4. /\ \A i \in w'..(e' - 1) : buf'[i % INPUT_BUF] = edit'[i - w' + 1]
        /\ \A i \in 1..Len(edit') : edit'[i] # "newline"
    BY <1>1 DEF IInv, Ring
  <2> QED
    BY <2>1, <2>2, <2>3, <2>4 DEF Ring
<1>10. Locks'
  BY <1>1, <1>5 DEF IInv, Locks
<1>11. Waiting'
  <2>1. intr # "wake" /\ \A q \in Readers \ {p} : pc[q] # "release"
    BY <1>1, Alone
  <2>2. \A q \in Readers : pc[q] \notin {"sched", "asleep"}
    BY <1>1, <2>1 DEF IInv, Waiting
  <2> QED
    BY <1>5, <2>1, <2>2 DEF Waiting
<1>12. Panics'
  BY <1>1 DEF IInv, Panics
<1> QED
  BY <1>8, <1>9, <1>10, <1>11, <1>12 DEF IInv

LEMMA ReadSleepStep == ASSUME IInv, NEW p \in Readers, ReadSleep(p) PROVE IInv'
<1>1. /\ UNCHANGED <<buf, r, w, e, typed, edit, delivered, intr, panicked, cpu, screen, conslock>>
      /\ pc[p] = "loop" /\ r = w /\ ptablelock = "none" /\ ptablelock' = p /\ Goto(p, "release")
  BY DEF ReadSleep, SleepLockPtable, inputVars, outVars
<1>2. /\ pc' \in [Readers -> Points] /\ pc'[p] = "release"
      /\ \A q \in Readers \ {p} : pc'[q] = pc[q]
  BY <1>1, Moved DEF Points
<1>3. Typed' /\ Ring' /\ Panics'
  BY <1>1, <1>2, ReaderKept DEF IInv, Typed, TypeOK
<1>4. Locks'
  BY <1>1, <1>2, ConsoleAssumption DEF IInv, Locks
<1>5. Waiting'
  BY <1>1, <1>2 DEF IInv, Waiting
<1> QED
  BY <1>3, <1>4, <1>5 DEF IInv

\* From here on the handler may enter a line, but its wakeup() waits for
\* ptablelock.
LEMMA SleepReleaseStep == ASSUME IInv, NEW p \in Readers, SleepRelease(p) PROVE IInv'
<1>1. /\ UNCHANGED <<buf, r, w, e, typed, edit, delivered, intr, panicked, cpu, screen, ptablelock>>
      /\ pc[p] = "release" /\ conslock = p /\ conslock' = "none" /\ Goto(p, "sched")
  BY DEF SleepRelease, inputVars, outVars
<1>2. /\ pc' \in [Readers -> Points] /\ pc'[p] = "sched"
      /\ \A q \in Readers \ {p} : pc'[q] = pc[q]
  BY <1>1, Moved DEF Points
<1>3. Typed' /\ Ring' /\ Panics'
  BY <1>1, <1>2, ReaderKept DEF IInv, Typed, TypeOK
<1>4. Locks'
  BY <1>1, <1>2, ConsoleAssumption DEF IInv, Locks
<1>5. Waiting'
  BY <1>1, <1>2 DEF IInv, Waiting
<1> QED
  BY <1>3, <1>4, <1>5 DEF IInv

LEMMA SleepSchedStep == ASSUME IInv, NEW p \in Readers, SleepSched(p) PROVE IInv'
<1>1. /\ UNCHANGED <<buf, r, w, e, typed, edit, delivered, intr, panicked, cpu, screen, conslock>>
      /\ pc[p] = "sched" /\ ptablelock' = "none" /\ Goto(p, "asleep")
  BY DEF SleepSched, inputVars, outVars
<1>2. /\ pc' \in [Readers -> Points] /\ pc'[p] = "asleep"
      /\ \A q \in Readers \ {p} : pc'[q] = pc[q]
  BY <1>1, Moved DEF Points
<1>3. Typed' /\ Ring' /\ Panics'
  BY <1>1, <1>2, ReaderKept DEF IInv, Typed, TypeOK
<1>4. Locks'
  <2>1. ptablelock = p
    BY <1>1 DEF IInv, Locks
  <2> QED
    BY <1>1, <1>2, <2>1, ConsoleAssumption DEF IInv, Locks
<1>5. Waiting'
  BY <1>1, <1>2 DEF IInv, Waiting
<1> QED
  BY <1>3, <1>4, <1>5 DEF IInv

LEMMA SleepReturnStep == ASSUME IInv, NEW p \in Readers, SleepReturn(p) PROVE IInv'
<1>1. /\ UNCHANGED <<buf, r, w, e, typed, edit, delivered, intr, panicked, cpu, screen, ptablelock>>
      /\ pc[p] = "woken" /\ conslock = "none" /\ conslock' = p /\ Goto(p, "loop")
  BY DEF SleepReturn, inputVars, outVars
<1>2. /\ pc' \in [Readers -> Points] /\ pc'[p] = "loop"
      /\ \A q \in Readers \ {p} : pc'[q] = pc[q]
  BY <1>1, Moved DEF Points
<1>3. Typed' /\ Ring' /\ Panics'
  BY <1>1, <1>2, ReaderKept DEF IInv, Typed, TypeOK
<1>4. Locks'
  BY <1>1, <1>2, ConsoleAssumption DEF IInv, Locks
<1>5. Waiting'
  BY <1>1, <1>2 DEF IInv, Waiting
<1> QED
  BY <1>3, <1>4, <1>5 DEF IInv

LEMMA ReadReturnStep == ASSUME IInv, NEW p \in Readers, ReadReturn(p) PROVE IInv'
<1>1. /\ UNCHANGED <<buf, r, w, e, typed, edit, delivered, intr, panicked, cpu, screen, ptablelock>>
      /\ pc[p] \in {"loop", "done"} /\ conslock' = "none" /\ Goto(p, "idle")
  BY DEF ReadReturn, inputVars, outVars
<1>2. /\ pc' \in [Readers -> Points] /\ pc'[p] = "idle"
      /\ \A q \in Readers \ {p} : pc'[q] = pc[q]
  BY <1>1, Moved DEF Points
<1>3. Typed' /\ Ring' /\ Panics'
  BY <1>1, <1>2, ReaderKept DEF IInv, Typed, TypeOK
<1>4. Locks'
  <2>1. conslock = p
    BY <1>1, Alone
  <2> QED
    BY <1>1, <1>2, <2>1, ConsoleAssumption DEF IInv, Locks
<1>5. Waiting'
  BY <1>1, <1>2 DEF IInv, Waiting
<1> QED
  BY <1>3, <1>4, <1>5 DEF IInv
-----------------------------------------------------------------------------
LEMMA StutterStep == ASSUME IInv, UNCHANGED vars PROVE IInv'
<1>1. Typed' /\ Ring'
  BY RingKept DEF IInv, Typed, TypeOK, vars
<1>2. Locks' /\ Waiting' /\ Panics'
  BY DEF IInv, Locks, Waiting, Panics, vars
<1> QED
  BY <1>1, <1>2 DEF IInv

LEMMA NextIInv == IInv /\ [Next]_vars => IInv'
<1> SUFFICES ASSUME IInv, [Next]_vars PROVE IInv'
  OBVIOUS
<1>1. CASE IntrEnter
  BY <1>1, IntrEnterStep
<1>2. CASE Handler
  BY <1>2, IntrCharStep, IntrBackspaceStep, IntrKillStep, IntrDumpStep, IntrWakeStep, IntrExitStep,
     IntrProcdumpStep DEF Handler
<1>3. ASSUME NEW p \in Readers, Reader(p) PROVE IInv'
  BY <1>3, ReadTakeStep, ReadSleepStep, SleepReleaseStep, SleepSchedStep, SleepReturnStep,
     ReadReturnStep DEF Reader
<1>4. ASSUME NEW p \in Readers, NEW k \in Sizes, ReadEnter(p, k) PROVE IInv'
  BY <1>4, ReadEnterStep
<1>5. ASSUME NEW c \in Cpus, Message(c) \/ console_write(c) \/ Panic(c) \/ PanicWhere(c) PROVE IInv'
  BY <1>5, MessageStep, ConsoleWriteStep, PanicStep, PanicWhereStep
<1>6. CASE UNCHANGED vars
  BY <1>6, StutterStep
<1> QED
  BY <1>1, <1>2, <1>3, <1>4, <1>5, <1>6 DEF Next

\* The inductive invariant holds in every reachable state.
THEOREM SpecIInv == Spec => []IInv
  BY InitIInv, NextIInv, PTL DEF Spec

\* Readers get exactly what was typed, in order, whatever the size of the ring
\* that console_intr() and console_read() share.
THEOREM SpecInputInOrder == Spec => []InputInOrder
<1>1. IInv => InputInOrder
  BY DEF IInv, Typed, Ring, InputInOrder
<1> QED
  BY <1>1, SpecIInv, PTL

\* No reader sleeps in console_read() on input that console_intr() has entered
\* and announced, for any number of readers.
THEOREM SpecNoForgottenReader == Spec => []NoForgottenReader
<1>1. IInv => NoForgottenReader
  BY DEF IInv, Waiting, NoForgottenReader
<1> QED
  BY <1>1, SpecIInv, PTL

\* After panic() the kernel prints the message and the place of the CPU that
\* panicked first and nothing more, for any number of CPUs that print, panic, echo
\* and let their users write.
THEOREM SpecPanicWhole == Spec => []PanicWhole
<1>1. ASSUME IInv PROVE PanicWhole
  <2>1. CASE panicked = -1
    BY <1>1, <2>1 DEF IInv, Panics, PanicWhole
  <2>2. CASE panicked # -1
    <3>1. ~ (panicked < 0) /\ Shown(panicked, screen)
      BY <1>1, <2>2, PanickedNat DEF IInv, Panics
    <3>2. screen # <<>>
      BY <3>1 DEF Shown
    <3> QED
      BY <3>1, <3>2 DEF Shown, PanicWhole
  <2> QED
    BY <2>1, <2>2
<1> QED
  BY <1>1, SpecIInv, PTL
=============================================================================
