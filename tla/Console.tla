------------------------------- MODULE Console -------------------------------
(***************************************************************************)
(* The console (kern/console.c) over the mini UART (kern/uart.c): the      *)
(* input ring that console_intr() fills and console_read() empties, the    *)
(* output of cprintf() and console_write(), and panic().                   *)
(*                                                                         *)
(* What is done under conslock without waiting is one step.  conslock is   *)
(* kept over several steps where its holder takes ptablelock: in sleep()   *)
(* and in wakeup().  Interrupts are off in the kernel and the UART's go to *)
(* CPU 0.  Which CPU a reader runs on is left out.                         *)
(***************************************************************************)
EXTENDS Integers, Sequences, FiniteSets

CONSTANTS Readers,    \* processes that read the console
          Cpus,       \* CPU numbers, 0 among them
          INPUT_BUF,  \* size of the ring
          Chars,      \* ordinary characters
          Sizes,      \* sizes of the reads
          MaxIn,      \* bound: characters put in the ring
          MaxOut      \* bound: outputs since a panic before another of a user

ASSUME ConsoleAssumption == /\ INPUT_BUF \in Nat \ {0} /\ MaxIn \in Nat /\ MaxOut \in Nat
                            /\ Cpus \subseteq Nat /\ 0 \in Cpus /\ Sizes \subseteq Nat
                            /\ Readers \cap {"intr", "none"} = {}

VARIABLES
    buf, r, w, e,  \* input
    conslock,      \* its holder: a reader, "intr" or "none"
    ptablelock,    \* the same for ptablelock
    pc,            \* where each reader is
    n, target,     \* locals of console_read()
    intr,          \* where console_intr() is: off, getc or wake
    doprocdump,
    panicked,      \* -1 or a CPU
    cpu,           \* what each CPU does: run, panic (its second line is due) or halted
    screen,        \* history: what is printed since the panic, as <<CPU, what>>
    edit,          \* history: the line being typed, as the screen shows it
    typed,         \* history: what has been entered
    delivered      \* history: what readers got, an end of file as "eof"

inputVars == <<buf, r, w, e, edit, typed>>
readVars  == <<pc, n, target, delivered>>
outVars   == <<panicked, cpu, screen>>
vars      == <<buf, r, w, e, conslock, ptablelock, pc, n, target, intr, doprocdump,
               panicked, cpu, screen, edit, typed, delivered>>

Codes == Chars \cup {"newline", "eof"}
Slots == 0..(INPUT_BUF - 1)

\* console_init() and the initialisers: an empty ring, no panic.
Init ==
    /\ buf = [i \in Slots |-> "nul"] /\ r = 0 /\ w = 0 /\ e = 0
    /\ conslock = "none" /\ ptablelock = "none"
    /\ pc = [p \in Readers |-> "idle"] /\ n = [p \in Readers |-> 0] /\ target = [p \in Readers |-> 0]
    /\ intr = "off" /\ doprocdump = FALSE
    /\ panicked = -1 /\ cpu = [c \in Cpus |-> "run"]
    /\ screen = <<>> /\ edit = <<>> /\ typed = <<>> /\ delivered = <<>>

Goto(p, l) == pc' = [pc EXCEPT ![p] = l]

-----------------------------------------------------------------------------
(* Output: vprintfmt() puts a message on the screen, consputc() an echo or  *)
(* what a user writes.                                                     *)

vprintfmt(c, what) ==
    screen' = IF panicked' >= 0 THEN Append(screen, <<c, what>>) ELSE screen

consputc(c, what) == vprintfmt(c, what)

Halt(c) == cpu' = [cpu EXCEPT ![c] = "halted"]

\* Bug: cprintf() does not look at panicked.
Bug_PrintOn(c, then) ==
    /\ conslock = "none"
    /\ cpu' = [cpu EXCEPT ![c] = then] /\ UNCHANGED panicked /\ vprintfmt(c, "text")

\* cprintf(): after a panic the other CPUs stop here.
cprintf(c, then) ==
    /\ conslock = "none"
    /\ UNCHANGED panicked
    /\ IF panicked >= 0 /\ panicked # c
       THEN Halt(c) /\ UNCHANGED screen
       ELSE cpu' = [cpu EXCEPT ![c] = then] /\ vprintfmt(c, "text")

Message(c) ==
    /\ cpu[c] = "run" /\ (c = 0 => intr = "off")
    /\ cprintf(c, "run")
    /\ UNCHANGED <<inputVars, readVars, conslock, ptablelock, intr, doprocdump>>

\* console_write(), the write() of a process: it does not look at panicked.
console_write(c) ==
    /\ cpu[c] = "run" /\ (c = 0 => intr = "off") /\ conslock = "none" /\ Len(screen) < MaxOut
    /\ UNCHANGED <<inputVars, readVars, conslock, ptablelock, intr, doprocdump, panicked, cpu>>
    /\ consputc(c, "user")

\* panic(), first part: only the first CPU prints its message.
panic(c) ==
    /\ conslock = "none"
    /\ IF panicked < 0
       THEN panicked' = c /\ cpu' = [cpu EXCEPT ![c] = "panic"] /\ vprintfmt(c, "panic")
       ELSE Halt(c) /\ UNCHANGED <<panicked, screen>>

Panic(c) ==
    /\ cpu[c] = "run" /\ (c = 0 => intr = "off")
    /\ panic(c)
    /\ UNCHANGED <<inputVars, readVars, conslock, ptablelock, intr, doprocdump>>

\* Its second part, the line with the place, under another use of the lock.
PanicWhere(c) ==
    /\ cpu[c] = "panic"
    /\ cprintf(c, "halted")
    /\ UNCHANGED <<inputVars, readVars, conslock, ptablelock, intr, doprocdump>>

-----------------------------------------------------------------------------
(* console_intr(), on CPU 0.                                               *)

\* uart_intr(): the handler takes the lock; after a panic it does not go on.
IntrEnter ==
    /\ cpu[0] = "run" /\ intr = "off" /\ conslock = "none"
    /\ IF panicked >= 0 THEN Halt(0) /\ UNCHANGED <<conslock, intr>>
                        ELSE conslock' = "intr" /\ intr' = "getc" /\ UNCHANGED cpu
    /\ UNCHANGED <<inputVars, readVars, ptablelock, doprocdump, panicked, screen>>

IntrKeeps == UNCHANGED <<readVars, conslock, ptablelock, panicked, cpu>>

\* Bug: the room left is counted from w.
Bug_RoomFromW == e - w < INPUT_BUF

Room == e - r < INPUT_BUF

\* The character ends the line, or fills the ring.
Commits(c) == c \in {"newline", "eof"} \/ e + 1 = r + INPUT_BUF

\* The default case: a character for the ring ("\r" is a newline as well).
IntrChar(c) ==
    /\ intr = "getc" /\ e < MaxIn /\ IntrKeeps
    /\ IF Room
       THEN /\ buf' = [buf EXCEPT ![e % INPUT_BUF] = c]
            /\ e' = e + 1
            /\ consputc(0, "echo")
            /\ IF Commits(c)
               THEN w' = e + 1 /\ intr' = "wake" /\ typed' = typed \o edit \o <<c>> /\ edit' = <<>>
               ELSE edit' = Append(edit, c) /\ UNCHANGED <<w, intr, typed>>
       ELSE UNCHANGED <<buf, w, e, intr, typed, edit, screen>>
    /\ UNCHANGED <<r, doprocdump>>

\* ^H and delete: one character, and not one that has been entered.
IntrBackspace ==
    /\ intr = "getc" /\ e # w /\ IntrKeeps
    /\ e' = e - 1 /\ consputc(0, "echo")
    /\ edit' = SubSeq(edit, 1, Len(edit) - 1)
    /\ UNCHANGED <<buf, r, w, typed, intr, doprocdump>>

\* ^U: back to a newline or to what has been entered.
IntrKill ==
    /\ intr = "getc" /\ e # w /\ IntrKeeps
    /\ LET stops == {i \in w..e : i = w \/ buf[(i - 1) % INPUT_BUF] = "newline"}
       IN e' = CHOOSE i \in stops : \A j \in stops : j <= i
    /\ consputc(0, "echo")
    /\ edit' = <<>>
    /\ UNCHANGED <<buf, r, w, typed, intr, doprocdump>>

\* ^P
IntrDump ==
    /\ intr = "getc" /\ doprocdump' = TRUE /\ IntrKeeps
    /\ UNCHANGED <<inputVars, intr, screen>>

\* wakeup1(): every process on the channel.
Woken == {p \in Readers : pc[p] = "asleep"}

\* wakeup(&input.r), with conslock held.
IntrWake ==
    /\ intr = "wake" /\ ptablelock = "none"
    /\ pc' = [p \in Readers |-> IF p \in Woken THEN "woken" ELSE pc[p]]
    /\ intr' = "getc"
    /\ UNCHANGED <<inputVars, n, target, delivered, conslock, ptablelock, doprocdump, outVars>>

\* getc() has no more: release(), and procdump(), which is panic().
IntrExit ==
    /\ intr = "getc"
    /\ conslock' = "none"
    /\ intr' = IF doprocdump THEN "dump" ELSE "off"
    /\ doprocdump' = FALSE
    /\ UNCHANGED <<inputVars, readVars, ptablelock, outVars>>

IntrProcdump ==
    /\ intr = "dump"
    /\ panic(0)
    /\ intr' = "off"
    /\ UNCHANGED <<inputVars, readVars, conslock, ptablelock, doprocdump>>

-----------------------------------------------------------------------------
(* console_read(); sleep() and its return.                                 *)

ReadEnter(p, k) ==
    /\ pc[p] = "idle" /\ conslock = "none"
    /\ conslock' = p /\ Goto(p, "loop")
    /\ n' = [n EXCEPT ![p] = k] /\ target' = [target EXCEPT ![p] = k]
    /\ UNCHANGED <<inputVars, delivered, ptablelock, intr, doprocdump, outVars>>

\* The next character.  An end of file behind other characters stays in the
\* ring, so that the next read returns 0.
Take(p) ==
    LET c == buf[r % INPUT_BUF] IN
    /\ r' = IF c = "eof" /\ n[p] < target[p] THEN r ELSE r + 1
    /\ IF c = "eof" THEN Goto(p, "done") /\ UNCHANGED n
                         /\ delivered' = IF n[p] < target[p] THEN delivered ELSE Append(delivered, "eof")
       ELSE /\ n' = [n EXCEPT ![p] = @ - 1] /\ delivered' = Append(delivered, c)
            /\ Goto(p, IF c = "newline" THEN "done" ELSE "loop")

ReadTake(p) ==
    /\ pc[p] = "loop" /\ n[p] > 0 /\ r # w
    /\ Take(p)
    /\ UNCHANGED <<buf, w, e, edit, typed, target, conslock, ptablelock, intr, doprocdump, outVars>>

\* Bug: sleep() gives up conslock before it has ptablelock.
Bug_SleepUnlocked(p) ==
    /\ pc[p] = "loop" /\ n[p] > 0 /\ r = w
    /\ conslock' = "none" /\ Goto(p, "sched") /\ UNCHANGED ptablelock

\* sleep(&input.r, &conslock): ptablelock first.
SleepLockPtable(p) ==
    /\ pc[p] = "loop" /\ n[p] > 0 /\ r = w
    /\ ptablelock = "none"
    /\ ptablelock' = p /\ Goto(p, "release") /\ UNCHANGED conslock

ReadSleep(p) ==
    /\ SleepLockPtable(p)
    /\ UNCHANGED <<inputVars, n, target, delivered, intr, doprocdump, outVars>>

SleepRelease(p) ==
    /\ pc[p] = "release" /\ conslock = p
    /\ conslock' = "none" /\ Goto(p, "sched")
    /\ UNCHANGED <<inputVars, n, target, delivered, ptablelock, intr, doprocdump, outVars>>

\* SLEEPING, on the channel's list; the scheduler releases ptablelock.
SleepSched(p) ==
    /\ pc[p] = "sched"
    /\ ptablelock' = "none" /\ Goto(p, "asleep")
    /\ UNCHANGED <<inputVars, n, target, delivered, conslock, intr, doprocdump, outVars>>

\* Scheduled again: conslock is taken after ptablelock has been released.
SleepReturn(p) ==
    /\ pc[p] = "woken" /\ conslock = "none"
    /\ conslock' = p /\ Goto(p, "loop")
    /\ UNCHANGED <<inputVars, n, target, delivered, ptablelock, intr, doprocdump, outVars>>

ReadReturn(p) ==
    /\ pc[p] = "done" \/ (pc[p] = "loop" /\ n[p] = 0)
    /\ conslock' = "none" /\ Goto(p, "idle")
    /\ n' = [n EXCEPT ![p] = 0] /\ target' = [target EXCEPT ![p] = 0]
    /\ UNCHANGED <<inputVars, delivered, ptablelock, intr, doprocdump, outVars>>

-----------------------------------------------------------------------------
Handler ==
    \/ \E c \in Codes : IntrChar(c)
    \/ IntrBackspace \/ IntrKill \/ IntrDump \/ IntrWake \/ IntrExit \/ IntrProcdump

Reader(p) ==
    \/ ReadTake(p) \/ ReadSleep(p) \/ SleepRelease(p) \/ SleepSched(p) \/ SleepReturn(p) \/ ReadReturn(p)

Next ==
    \/ IntrEnter \/ Handler
    \/ \E p \in Readers : Reader(p) \/ \E k \in Sizes : ReadEnter(p, k)
    \/ \E c \in Cpus : Message(c) \/ console_write(c) \/ Panic(c) \/ PanicWhere(c)

Spec == Init /\ [][Next]_vars

-----------------------------------------------------------------------------
\* The indices of the ring, the locks and panicked keep their types.
TypeOK ==
    /\ buf \in [Slots -> Codes \cup {"nul"}]
    /\ r \in 0..MaxIn /\ w \in 0..MaxIn /\ e \in 0..MaxIn
    /\ conslock \in Readers \cup {"intr", "none"} /\ ptablelock \in Readers \cup {"none"}
    /\ panicked \in Cpus \cup {-1}

\* Readers get exactly what was typed, in order: nothing is overwritten in the
\* ring before it is read, erased after it was entered, read twice or dropped,
\* and each end of file is one read of 0 bytes.  A full ring can be read: were it
\* full of a line nobody may read yet, every further character, the newline too,
\* would be dropped for ever.
InputInOrder ==
    /\ TypeOK
    /\ e - r = INPUT_BUF => r # w
    /\ Len(typed) = w /\ Len(edit) = e - w
    /\ delivered = SubSeq(typed, 1, r)
    /\ \A i \in r..(w - 1) : buf[i % INPUT_BUF] = typed[i + 1]
    /\ \A i \in w..(e - 1) : buf[i % INPUT_BUF] = edit[i - w + 1]

\* No reader sleeps on input that has been entered, once the handler has
\* finished its wakeup().
NoForgottenReader ==
    \A p \in Readers : pc[p] = "asleep" /\ intr # "wake" => r = w

\* After a panic the kernel prints the message of the CPU that panicked first and
\* then its place, once, and nothing more: no other CPU's message, second panic or
\* echo.  What is between the two and behind them are writes of users on the CPUs
\* still running, as console_write() goes on after a panic.
PanicWhole ==
    IF panicked < 0 THEN screen = <<>>
    ELSE /\ screen # <<>> /\ screen[1] = <<panicked, "panic">>
         /\ \A i \in 2..Len(screen) :
               \/ screen[i][2] = "user" /\ screen[i][1] # panicked
               \/ /\ screen[i] = <<panicked, "text">>
                  /\ \A j \in (i + 1)..Len(screen) : screen[j][2] = "user"

=============================================================================
