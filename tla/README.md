# xv6 on ARMv8: TLA+ models, checks and proofs

This directory models the kernel in `src/kern`: the process table and its
scheduler, the three kinds of locks, the SD card from power-on to the request
queue, the buffer cache, the log, the inode cache with directories, the blocks of
files, the open files with their system calls, page allocation and address
spaces, and the console. TLC checks the modules on small instances; TLAPS
proves every safety property that holds for every size of the system (those of
`Blocks` for the writes that the code handles correctly, see Proofs); the liveness
properties are checked on the small instances only. Where the code does not do what
its comments say, a run shows it (see Findings).

## The system

The kernel is an SMP kernel for the four cores of a Raspberry Pi 3. Interrupts
are masked whenever a core is in the kernel (a trap masks them, nothing unmasks
them), so a core runs kernel code without preemption, the cores interleave with
each other, and a process leaves the CPU only in `sched()`.

| Component | State it keeps | Operations | Hard parts | What makes it correct |
|---|---|---|---|---|
| spinlock (`spinlock.c`) | `locked`, `cpu` | `acquire`, `release`, `holding` | two words read and written one at a time | mutual exclusion, no false panic |
| mcslock (`spinlock.c`) | queue of nodes | `mcsacquire`, `mcsrelease` | enqueue and link are two steps | FIFO hand-over |
| processes (`proc.c`) | `ptable`, `prioque`, `hashmp`, `nextpid`, `cpus[].proc` | `scheduler`, `yield`, `sleep`, `wakeup`, `fork`, `wait`, `exit` | `ptablelock` handed over by `swtch()`, exit against wait, children changing parent | queues exact, one CPU per kernel stack, no lost wakeup |
| sleeplock (`sleeplock.c`) | `locked`, `pid` | `acquiresleep`, `releasesleep`, `holdingsleep` | test and sleep are separate steps | mutual exclusion, no lost wakeup |
| SD driver (`sd.c`) | `sdCard`, `sdque`, the EMMC registers | `sdInit`, `sdrw`, `sd_start`, `sd_intr` | lost and late answers at initialisation, requests queued while one is in flight, one sleep without a loop | driver and card agree on how to talk; `sdrw()` returns with its own request done |
| buffer cache (`bio.c`) | LRU list, `refcnt`, flags | `bread`, `bwrite`, `brelse`, `bpin`, `bunpin` | the lock of the cache is dropped before the buffer's is taken | one buffer per block, reads see the last write |
| log (`log.c`) | `outstanding`, `committing`, the header in memory and on disk | `begin_op`, `log_write`, `end_op`, `commit`, recovery | crashes, commits against new operations | all or nothing on disk |
| inodes, directories (`fs.c`) | `icache`, bitmap and inodes on disk | `iget`, `ilock`, `iput`, `ialloc`, `balloc`, `bmap`, `readi`, `writei`, `dirlink`, `namex` | references against locks, last reference against a new one | one cache entry per inode, no block used twice |
| files (`file.c`, `sysfile.c`) | `ftable`, `ofile`, `cwd` | `filealloc`, `filedup`, `fileclose`, `create`, `openat` | error paths, shared descriptors | reference counts match the references |
| memory (`kalloc.c`, `vm.c`) | free list, page tables, `sz` | `kalloc`, `kfree`, `uvm_alloc`, `uvm_copy`, `vm_free` | exhaustion in the middle of a call, the switch of `execve()` | a page has one owner, what lies below `sz` is mapped |
| console (`console.c`, `uart.c`) | input ring, `panicked` | `console_intr`, `console_read`, `cprintf`, `panic` | interrupt against reader, a full ring, a panic beside other output | no character lost or read twice, no reader forgotten, the kernel prints nothing but the panic |

They interact by calls (`bread` → `sdrw` → `sleep` → `sched`), by shared state
under a lock (`ptablelock` under everything that sleeps), and by interrupts:
the timer calls `yield()`, the SD card `sd_intr()`, the UART `console_intr()`, all only while a core is in
user mode. The hazards, each at its line and with the properties that cover it,
are in `PROJECT.json`.

## Modules

| Module | Models | State ↔ code |
|---|---|---|
| `Mutex` | what a lock promises | `holder` |
| `Cpus` | the CPUs of the two locks below | |
| `Spinlock` | `acquire`, `release`, `holding`, one step per access | `lk_locked`, `cpu` = the fields, `pc` = program counter of each CPU |
| `McsLock` | `mcsacquire`, `mcsrelease`, one step per shared access | `last` = `lk->next`, `next`, `nlocked` = fields of the nodes, `order` = history |
| `Proc` | all of `proc.c` | one variable per field of `struct proc`, the two arrays of lists, the owner of `ptablelock`, `cpus[c].proc`, `kmemheld` = `kmemcslock` left locked; `cpc` = where CPU `c` is; `ctx` = where `swtch()` resumes a process |
| `SleepLock` | `sleeplock.c` over `Proc` (EXTENDS it; steps are conjunctions with Proc's) | `lk` = owner of the inner spinlock, `locked`, `lpid`, `kept` = a process that left the kernel with the lock, `spc` = where each process is |
| `SdCard` | `sdInit` with the card, then `SdDriver` (EXTENDS it) | `card` = the card (external), `sd` = `sdCard`, `boot` = where `sdInit` is, `fault` = an exchange has gone wrong |
| `SdDriver` | `sdrw`, `sd_start`, `sd_intr` and the controller | `sdlock`, `sdque`, the buffer flags, `hw` and `ints` = the transfer and `*EMMC_INTERRUPT` |
| `BCache` | `bio.c` and the `bpin()` of `log_write()` | the list, the fields of `struct buf`; sleeplock and `sdrw()` as their specifications |
| `Log` | `log.c` | `struct log`, the header, log and home blocks on disk, `boot` = where recovery is, `left` = operations left open |
| `FileSys` | `fs.c`, `file.c`, `sysfile.c`, and what `fork`, `exit`, `execve` do to files | `dinode`, `ents` = inodes and directories on disk, `icache`, `holder` = the inode cache and its sleeplocks, `ftable`, `ofile`, `cwd`; `pc` = where each process is |
| `Blocks` | `balloc`, `bzero`, `bmap`, `readi`, `writei` by block; the image of mkfs as `Init` | bitmap, inode addresses, indirect blocks on disk and in buffers that may be recycled |
| `Vm` | `kalloc.c`, `vm.c` and what `fork`, `execve`, `brk`, `exit`, `wait` do to memory | `free` = the list, `pgdir` = an address space (directory, tables, pages), `sz`, `ttbr0`, `new`/`old`/`hand` = locals of a call |
| `Console` | `console.c`, `uart_intr`, and the `sleep`/`wakeup` of its reader | `input` ring and its indices, `conslock`, `panicked`, the output as a history |
| `MCProc`, `MCFair`, `MCSleepLock`, `MCSdDriver`, `MCBCache`, `MCLog`, `MCFileSys`, `MCBlocks`, `MCVm`, `MCConsole` | instances for TLC | |
| `ProcProofs`, `BCacheProofs`, `LogProofs`, `SdProofs`, `ConsoleProofs`, `VmProofs`, `BlocksProofs`, `FileSysProofs` | the theorems, one module per component (`ProcProofs`: `Spinlock`, `McsLock`, `Proc` and `SleepLock`; `SdProofs`: `SdDriver` and `SdCard`) | |

Composition is by assume-guarantee: `Spinlock` is shown to implement `Mutex`, so
`Proc` uses the abstract lock for `ptablelock`; `SleepLock` runs over the whole of
`Proc` and implements `Mutex` again, so `BCache` uses the abstract lock for a
buffer; `SdDriver` shows the contract of `sdrw()` that `BCache` uses; `BCache`
shows that its users see one contents per block (`ReadsLatest`), which is what
`Log` and `FileSys` assume of the cache. `Blocks` does not assume it for a buffer
after `brelse()`: it may be recycled at any time unless it is pinned. `FileSys` knows
a file by its size, `Blocks` says what its blocks hold; `Proc` says who runs, `Vm`
on which memory. `MCFair` has the behaviours of the two locks of
`spinlock.c` and of the scheduler with their fairness, told apart by `kind`.

Conventions. An action is one handler, or the part of it between two points at
which another CPU can act. A definition `Bug_X` is a plausible mistake in the
definition that follows it; it is not part of any specification and shows that a
property can fail.

### Reading `Proc`

`cpc[c]` is `"idle"` between two turns of `scheduler()`, `"user"` while the
process of the CPU runs outside `ptablelock` (in user mode, or in a system call
that does not touch the process table), and a point of `proc.c` otherwise; a name
ending in `_sw` is the call of `sched()`, one ending in `_ret` the return from it.
`swtch()` is a step that stores the resume point in `ctx` and moves the CPU to
`"post"` in its scheduler, and `SchedDispatch` is the way back. `wakeup1()` takes
one step per process it wakes; it may be called by an interrupt handler, whoever
runs. `kalloc()` may fail (while `nextpid` is at most `MaxFailPid`): it then returns with `kmemcslock` held
(`kmemheld`; `kalloc.c:89`). The CPU that saw the failure panics in `fork()`, and goes
on in `execve()` and `brk()` (`CallNoMemory`); every CPU that calls `kalloc()` or
`kfree()` afterwards spins for ever, in `proc_alloc()` and `cleanproc()` with
`ptablelock` held.

### Reading `SleepLock`

A process uses the one lock of the model as `ilock()` and `iunlock()` do, sleeps with
it on other channels, and may return to user mode with it, as after a failing
`write()` (`file.c:142`) or `execve()` (`exec.c:85`): `kept` is that process, and
from then on the lock is never free. It may exit and its slot may be reused;
`HolderKnown` says that the new process does not pass for the holder.

### Reading `Log`

A process may leave its operation open in the same way (`LeaveOpen`, counted in
`left`) and begin another. `outstanding` then never returns to 0: nothing is
committed any more, and `CommitsAlone` counts the open operations too.

### Reading `FileSys`

A step of `FileSys` goes from one acquisition of `icache.lock`, `ftable.lock` or
an inode's sleeplock to the next; what is done between `ilock()` and `iunlock()`
without another lock is one step, since nobody else can see it. `ip` and `nxt` are
the inode pointers of a call (`dp` and the new or found inode in `create()`); a
path is a sequence of names, so `skipelem()` is `Head` and `Tail`. Files are known by
their size, in blocks; a directory is its set of entries. Three errors of the code
are part of the model: references nobody drops are counted in `leaked`
(`create()` of an existing name, `fileclose()`, a failing `execve()`), inodes that
stay locked after a failing `write()` or `execve()` are in `kept`, and `iget()`
panics with `icache.lock` held. `iput()` has no freeing branch: `IputNeverFrees`
shows that its condition is never met, because no call removes a link. Programs
read directories and are assumed not to write to them, which the code would let them
do through `openat()` with `O_CREAT`. Which devices have a driver is left open: an
access is served, or refused with the errors of `readi()` and `writei()`. `execve()` does
not look at the type of the inode, nor does the model (`ExecLoad`).

### Reading `SdCard`

`sdInit()` is a sequence of exchanges, one step each. An exchange may find the
controller busy, be lost before or after the card heard it, be damaged, or go
well; all but the last set `fault`. The card is the state machine of the SD
specification as far as the driver's commands reach it: a card of version 1 does
not answer SEND_IF_COND, a high-capacity card stays busy unless it is told of
HCS, and a command the card's state does not allow is not answered. `sdrw()` and
`sd_intr()` start when `sdInit()` has set `init`; otherwise the assertion of
`sd_init()` stops the kernel (`boot = "failed"`).

### Reading `Vm`

A step goes from one use of `kmemcslock` to the next, so that every allocation of
a call can be the one that fails. Sizes and addresses are in pages. What
`pgdir_walk()` does with a null page (`vm.c:49`) is not modelled: the process stops
there. After `exit()` the CPU stays on the directory of the dead process until it
runs another one, so `ttbr0` stays while `wait()` frees that directory. A `brk()` to
below 0 or beyond `MaxV` is one that `uvm_alloc()` has to refuse or fail in; no space
grows beyond the bound `MaxV`. `argptr()` takes its size as an `int` (`ToInt`).
The pages that the code loses (leaf pages in `vm_free()`, kernel stacks in
`cleanproc()`, the new space of a failing `execve()`, a page `map_region()` refuses)
are lost in the model too.

### Reading `Blocks`

`mem` is what `bread()` returns for a block. The buffer of a block that is neither
pinned nor in use may be given to another block at any time, and the next
`bread()` finds what mkfs wrote, as no commit writes anything (`Log`). `bmap()` returns
its word in a step of its own after `brelse()` (`Peek`), as line 408 of `fs.c` does: if
the buffer has been recycled in between (`stale`), any block may come out. `Writable`
says how far each file is written; the runs differ in it.

### Reading `Console`

Characters are `x`, the end of a line, backspace, kill, end of file and the dump of
`^P`. `sleep()` and `wakeup()` are their steps on `ptablelock`; the UART hands in
characters until it has no more. A `cprintf()` is one step, because it holds
`conslock`; a CPU that calls it after another has panicked stops there, and `panic()` is
two of them. `^P` calls `procdump()`, whose body is a panic. `console_write()`, the
`write()` of a process, never looks at `panicked` (`console.c:35-45`): its output may
come between the two lines of a panic and behind them. `screen` is what is printed from
the panic on, `MaxOut` bounds how much of it is users'.

## Runs

| Run | Instance | Shows |
|---|---|---|
| `proc` | 2 CPUs, 5 slots, 1 endless process, 2 priorities, colliding channels, `kalloc()` failing in `fork()`, `execve()` or `brk()`, 5 pids | the inductive invariant, queues, hand-over of `ptablelock`, `NoLostWait`, `ParentAlive`, `ZombieUntilReaped` |
| `fair` | either lock on 3 CPUs, or `Proc` on two of them with 5 slots and 4 pids and without failures of `kalloc()` | spinlock: exclusion, exact `holding()`, refinement of `Mutex`, some CPU always gets it; MCS lock: FIFO, no starvation once enqueued; scheduler: `RunnableRuns`, `WaitReturns` |
| `sleeplock` | 2 CPUs, 4 slots, a process may leave with the lock | `NoLostWakeup`, `HolderKnown`, refinement of `Mutex` |
| `sd` | a card of each kind (high capacity and slow to power up, version 2, version 1), any exchange faulty, 6 retries as in the code; then 3 processes, 2 blocks, 2 contents, fair | `CardReady`, `FailsOnlyOnFault`, `BootEnds`; `SdrwSynced`, queue and controller in step, every request is served |
| `bcache` | 3 processes, 3 buffers, 4 blocks, 2 changes | one buffer per block, exact counts, latest contents |
| `log` | 3 processes, operations left open, a log of 2 blocks, 2 crashes, four logs at boot | commits alone, complete recovery |
| `logcommit` | no crash | **violated**: committed blocks are not written |
| `fs` | 2 processes, 4 calls, 4 inodes, 3 cache entries, 2 files, 2 descriptors, files of 4 blocks written 2 at a time | reference counts, `CacheCoherent` with the offsets, `TreeSound`, `IputNeverFrees`, `HolderRuns` |
| `blocks` | 2 processes, 3 files from mkfs (a program of 2 blocks, so with an indirect block, one of 1 block, an empty one), 1 direct and 2 indirect addresses, a bitmap of 12 bits, 4 writes; the program is read as a whole and written in its direct block | no block given out twice, every block is as last written, writers are given the block of their file |
| `blockslarge` | the same, the program is written anywhere | **violated**: a write goes to a block of another file |
| `vm` | 2 slots, 1 boot process, 13 pages, 4 user pages, 2 pages per table, 2 programs | one use per page, no process on a freed table, accepted arguments of any length that is an `int` are mapped, tables come back |
| `console` | 2 readers of 1 or 3 characters, 2 CPUs that print, panic and let users write, a ring of 2, 4 characters typed, 3 outputs after a panic | input once and in order, no forgotten reader, after a panic the kernel prints its two lines and no other, with users' writes alone between and behind them |

Bounds. Two CPUs and five slots give `initproc`, an endless process, a parent and
two children at once, so that exit, wait, reparenting and dispatch of the same
processes overlap and a `fork()` may fail beside a `wait()`; the hash puts unrelated channels into one bucket, so that
`wakeup1()` skips processes; `MaxPid` bounds the number of forks; three are
enough to fill the table and, after a `wait()`, to use a slot again. `MaxFailPid` lets
`kalloc()` fail until the third `proc_alloc()`, that is with up to two forks done. Three CPUs are what a queue lock needs for
a predecessor, an owner and a successor. Three buffers for four blocks force
recycling; three requests force a queue behind the one in flight. Deadlock
checking is off where the code may stop: `proc` (a panic stops a CPU), `bcache`
(a panic of `bget()`, or the bound on changes), `log` (all asleep in
`begin_op()`), `fs` (panics, inodes that stay locked, the bound on calls), `sd` (a
card that was given up), `blocks` (the bounds), `vm` (`kmemcslock` left locked) and
`console` (panics, the bound on input). Thirteen pages let one process fork, exec
and grow, and run out at each allocation of each of these calls; the second
program has a segment that ends below the one before it, which the code takes
for the size. A ring of two is full in the middle of a line and wraps around with
four characters. Four writes take a file through its direct, its first and its
second indirect block while another file grows beside it and the program is read
through the indirect block that mkfs made; twelve blocks are enough for what they
take. Three outputs after a panic are its two lines with a write of a user between
them, or behind.
Four calls are enough for two processes to race for one name while a third and
fourth call have left a directory, a leaked entry or a locked inode behind, to
fill the inode cache and the file table, and to run out of inodes.

Fairness. A core in the kernel always goes on (weak fairness of its steps):
nothing preempts it. The timer of a core fires again and again and is taken
whenever the core is in user mode (strong fairness: a process may leave and enter
the kernel between two ticks). Which of the cores that spin for a lock gets it is
open, as test-and-set leaves it open; `RunnableRuns` and `WaitReturns` hold
nevertheless, and for the spinlock itself only `SomeoneAcquires` does. In
`SdDriver` the card answers every transfer and core 0 takes its interrupt: it comes
back to user mode because the endless processes of `main()` run there. `BootEnds` needs only
that `sdInit()` goes on: each of its waits counts down.

Memory model. Steps are sequentially consistent. The locks use acquire and
release operations; the plain store `lk->cpu = thiscpu` is read only by the CPU
that wrote it when the result matters. Reordering inside `mcsacquire()`
(`i->locked = 1` against `tail->next = i`, both plain stores) is not modelled; the
kernel as built does not use that lock.

## Findings

* `log.c:259`: the test in `log_write()` is the wrong way round, so no block number
  is ever recorded and no commit writes anything (`logcommit`). Changes live in the
  buffer cache only.
* `fs.c:408`: `bmap()` reads the block number after `brelse()`. An indirect block that
  was made since boot is pinned by the `log_write()` of its `bzero()`; one that mkfs made
  is not, and every image that `mksd.mk` builds has such blocks, because the programs
  are longer than their 12 direct blocks. A reader of a program may then be given any
  block (`Peek`); if one is written behind its direct blocks, a block of another file may
  be overwritten (`blockslarge`). What is true of such images is what `blocks`
  checks: writes elsewhere are not disturbed.

Found while modelling, described here without a run of their own:

* `log.c:166`, `log.c:200`: `begin_op()` sleeps on `&log` and `end_op()` does not call
  `wakeup(&log)`; the comment at `log.c:22` says it sleeps until the last
  outstanding `end_op()` commits. `Log` has the sleepers and no action that wakes them.
* `sysfile.c:250`, `file.c:71-75`, `exec.c:85`: references to inodes are lost (`leaked` of
  `FileSys`), and the inode cache fills up until `iget()` panics.
* `fs.c:406`: `bmap()` puts a new block into the indirect block without `log_write()`.
  For an indirect block of mkfs the word is lost when the buffer is recycled (`Recycle`).
* `fs.c:71`: `balloc()` may hand out a block beyond `sb.size`.
* `sysproc.c:31`: `cursz` is the result of a comparison, so a `brk()` that succeeds
  sets `sz` to 0. `ArgumentMapped` holds with that, as nothing lies below 0.
* `vm.c:158-176`, `proc.c:55`: the pages of a process and its kernel stack are never
  given back; only the tables are (`TablesReturned`).
* `kalloc.c:88`: an allocation that fails leaves `kmemcslock` locked.
* `console.c:35-45`: `console_write()` does not look at `panicked`, so a user's output may
  stand between the two lines of a panic. `PanicWhole` says what is left: no other
  output of the kernel does.
* `syscall.c:107`: the size of `argptr()` is an `int`. `sys_read()` checks a `size_t` length
  with it and hands the whole length to `fileread()`, so a length of 2^31 or more is not
  checked at all, or as a negative one. `ArgumentMapped` is about lengths that are an `int`.
* `proc.c:282-288`: after `exit()` the CPU stays on the page directory of the dead process,
  which `wait()` on another CPU may free. `RunsOnOwnTable` is about processes that run;
  the kernel itself does not use that directory.
* `proc.c:45`: the loop that initialises the run queues ends at `hashmp + PRIOENTRIES`, the
  wrong array. `ProcInit` starts with both arrays empty, which is what every run of
  the kernel needs to get to its first process.
* `sd.c:529`: `job.part` is not initialised when the partition table is read.
* `user/src/mkfs/main.c:177`: a root directory that fills its last block exactly gets a
  size one block larger than its contents.

Consequences of these that the models reach without a run of their own: buffers
pinned by `log_write()` are never unpinned, so `bget()` ends in its panic
(`BgetPanic`); a failing `write()` or `execve()` keeps the inode locked (`kept` of `FileSys`
and of `SleepLock`) and its operation open (`left` of `Log`).

## Proofs

The theorems hold for every value of the constants that the named assumptions
allow; TLC evaluates those assumptions in the runs. Each proof rests on one
inductive invariant, which TLC was given on the instances above before it was
proved (`Unique` of `VmProofs` on a part of the states only). Most lemmas are about one action or one kind of step.

`ProcProofs` has four parts, from the locks up. The spinlock, from `CpuAssumption`: `Inv` (types, exclusion, no
panic, and what the two fields say about the program counters) is inductive;
exclusion alone is not, as it needs that `locked = 1` exactly when some CPU owns
the lock. From it: `SpecInv`, `SpecMutualExclusion`, `SpecHoldingExact`,
`SpecImplementsMutex`.

The MCS lock: its queue exists only in pieces, `tail` of each node and the `next`
its successor has or has not written yet. `McsInv` ties them to `order`, the order of the exchanges: `Queue` (who is in it,
once, and that `lk->next` is its last), `Behind(i)` (the i-th CPU knows the one
before it, is linked from it exactly when it spins, and finds its word set until
it is first), `Ends` (what a CPU with no successor and the one at the front see).
From it: `SpecFrontOwns`.

The process table: `IInv` is inductive for any set of CPUs, any `NPROC`, `NLOOP`,
number of priorities and buckets, any hash of the channels and any bound on pids,
from `CpuAssumption`, `SizeAssumption` and `ChanAssumption`. No conjunct is
inductive alone: `RunQueueExact` needs that only the process of a CPU is made
RUNNABLE by `yield()` (`CpuProcess`), which needs that a process is on one CPU,
which needs that `scheduler()` picks a process no CPU has (`LockDiscipline` and
the states of `CpuProcess`), whose saved context says where the CPU goes on
(`ContextSaved`); `ForkChild` keeps the slot of a `fork()` its own while
`ptablelock` is free. There is one lemma per action, with one step per conjunct.
Theorems: `SpecIInv`, `SpecTypeOK`, `SpecLockDiscipline`, `SpecQueuesExact`,
`SpecKernelStackExclusive`. On top of it comes `FInv` for `exit()` and `wait()`:
`initproc` is in the table for good, a free slot has no parent, and what a CPU
inside `exit()` or `fork()` knows of the family it is about to change
(`KnowsAt`): that its parent is awake after `wakeup1()`, that it has no children
left, that the child of a `fork()` has no parent yet. Theorems: `SpecNoLostWait`,
`SpecParentAlive`, and the action property `SpecZombieUntilReaped`.

The sleeplock runs over the process table: every step is one of `Proc` or leaves the
process table alone, so `IInv` holds again. `SlInv` adds that a process that uses
the lock is on a CPU in user mode, in `sleep()` or `wakeup()`, or will resume in
`sleep()` (`Present`: so it cannot exit or be reaped inside), that `lk->locked` and
`lk->pid` name the process that has the lock or left with it (`OneHolder`), that
`lk->lk` is with the CPU of the process inside the operation (`Guarded`), that
`lk->locked` is still 1 between its test and `sleep()` (`SleepsLocked`), and that
pids differ (`PidsDiffer`), also when `cleanproc()` hangs half way and from that of a
process that is gone with the lock. Theorems:
`SpecHolderKnown`, `SpecNoLostWakeup`, and the refinement `SpecSlImplementsMutex`
(a step that takes or clears the lock is a step of `Mutex`, every other one of the
kernel a stutter).

`BCacheProofs` (from `BCacheAssumption`): recycling a buffer is safe because
`refcnt` is exact (`Counted`), and a read gets the last contents because whatever
the disk lacks is in a buffer that is pinned or locked, the only one of its block
(`Held`, `Fresh`, `Stored`, `OneBuffer`). Theorems: `SpecCacheExact`,
`SpecReadsLatest`.

`LogProofs` (from `LogAssumption`): `Counts` (with the operations left open) and
`Reserved` for `SpecCommitsAlone`;
`Installing`, how far `install_trans()` has come, for `SpecRecoveryComplete`, where
every block of the log is installed by its last entry or the log is untouched.
After the recovery the header stays empty (`UpEmpty`): this is the finding about
`log_write()`, and the proof depends on it.

`ConsoleProofs` (from `ConsoleAssumption`, which says that no reader is called
"intr" or "none"): `Ring` relates the slots between `r`, `w` and `e` to what was
typed, `Waiting` follows a reader from its test of the ring to its sleep, `Panics`
follows the first panic through what the CPUs print around it. Theorems: `SpecInputInOrder`, `SpecNoForgottenReader`,
`SpecPanicWhole`. The indices are unbounded in `Console`; the runs cover the
wrap-around of the slots.

`SdProofs` (from `AgentAssumption`, `RetriesAssumption` and `CardsAssumption`, the
types of a card): `DriverInv` follows the request at the head of the queue through
the controller, the interrupt register and the points of `sd_intr()` (`InStep`);
`SdrwSynced` needs in addition that no two requests are for one block
(`OnePerBlock`), which the sleeplock of a buffer gives. `CardInv` follows card and
driver through `sdInit()`: what both have agreed on whatever was lost (`Agreed`),
and where they are if nothing was (`Smooth`). Theorems: `SpecControllerInStep`,
`SpecSdrwSynced`, `SpecCardReady`, and `SpecFailsOnlyOnFault` for cards that need no
more than `Retries` answers to power up (the code's six; a slower card is given
up without any fault).

`VmProofs` (from `VmAssumption`, and `ProgramsAssumption`: the segments of an
executable are not empty and leave room for its stack below `MaxV`). A page is at
a *place*: an entry of the free list, a kernel stack, the hand of a process
between `kalloc()` and `map_region()`, or the directory, a table or an entry of an
address space. `Unique` says that no page is at two places; it is inductive by one
argument, made once (`Relabel`): after a step, every place that holds a page can
be given a place that held this page before, and no two the same one, so pages
move and none is copied. A lemma for each kind of step (nothing moves, a page is
taken from the list, put back, mapped, or a whole space moves) gives these places.
`IInv` adds what is needed to know where the pages come from: which processes have,
build or free a space (`Rooted`), that `fork()` and `wait()` each have a target of their
own (`Targets`), that a page in the hand is for an address inside the space
(`Working`), and how far the loops have mapped it (`Backed`). Theorems:
`SpecPageOwnedOnce` (with a bijection from uses to pages), `SpecRunsOnOwnTable`,
`SpecArgumentMapped`, and the action property `SpecTablesReturned`, where each
table stays, goes with its space, or is at the front of the free list.

`BlocksProofs` (from `BlocksAssumption`, and `LayoutAssumption`: mkfs puts the blocks
of a file behind those of the one before, which `Base` adds up, and they fit one
block of bitmap). A block is referred to from a spot of a file, or claimed by a
process: taken by `balloc()` and not yet in the file, or about to be read or
written. `IInv` says that no block is at two spots (`Once`), that one being cleared
is at none (`Fresh`), that one in use is only at the spot `bmap()` looked up
(`Mine`), and that no two processes claim one block (`Apart`). None of these is
inductive alone: a block leaves the bitmap for a process and only then gets its
spot, and recycling a buffer may take words away (`WordsKept`) but never bits
(`BitsKept`). `IInv` holds for every image and every write as long as no `bmap()` of a
writer has read a buffer that was recycled after its `brelse()` (`NoStaleWrite`):
`SpecNoShared` has `[]NoStaleWrite` as a premise, because without it a block may be
written that is another file's (`blockslarge`). The premise goes if the files with an
indirect block of mkfs, which are any number of any size, are written in their direct
blocks only (`SafeWrites`; the other files are written anywhere): an indirect block a
writer looks into was then cleared by `bzero()`, whose `log_write()` pins it, and
with that `CInv` is inductive, although readers of the programs still get words of
recycled buffers. Theorems: `SpecNoShared`, `SafeWritesNoShared`,
`SafeWritesContents`. Nothing is proved of what a reader of a program behind its direct
blocks gets: the code may give it any block.

`FileSysProofs` (from `FileSysAssumption` and `CallsAssumption`: a path is a sequence
of names, "." and ".."; names are finitely many and are neither of the two). One
invariant, `Inv`, carries the five theorems, because its parts need one another:

* `RefsOK` and `FilesOK`: the counts of the inode cache and of the file table are
  exact. Hence an entry that a call points to is not recycled under it.
* `CacheOK` and `OpenOK`: an inode has one entry, a valid entry agrees with the disk,
  an open file has a valid inode that reaches to its offset. Hence what a call has
  seen of an inode is still true when it locks it again.
* `TreeOK`: the directories and the inodes agree. Links are counted as a set of
  entries, so a step that adds an entry adds one element to one such set.
* `Known(p)`: what process `p` may rely on between two steps of its call. In
  `create()` this is that the directory is locked and does not have the name, and
  that the new inode is on disk as `ialloc()` left it, in no other entry of the
  cache, and with one reference, its creator's.
* `NewApart`: two calls never have the same new inode.
* `Reach`: a referenced inode has links or is about to get its first. This is why
  the freeing branch of `iput()` is never taken, and why a cached inode is not one
  that `ialloc()` finds free.
* `HoldOK`: a sleeplock is held where the code holds it and nowhere else, but for
  those that a failed call keeps, whose entries are referenced for ever.

The lemmas on counting (a pointer more, a pointer less, a pointer that moves) are
stated once and used by every action that moves a reference. Theorems:
`SpecRefExact`, `SpecCacheCoherent`, `SpecTreeSound`, `SpecIputNeverFrees`,
`SpecHolderRuns`.

Only model-checked: every liveness property (`RunnableRuns`, `WaitReturns`,
`SomeoneAcquires`, `EnqueuedAcquires`, `RequestServed`, `BootEnds`), because the
provers do not reason about fairness.

## Not modelled

An SD card that fails during a transfer, its clock divider, its voltage switch and
the partition table; registers and the contents of memory; `itrunc()` and
`bfree()`, which are not reached, and writes to directories; formatting; boot
assembly and constant page tables; the mailbox; user programs; the pointers of
the lists; the buddy allocator, which is commented out. The levels
of a page table below the directory are one level.

## Plan

1. `FileSys` over `Log`'s operations: which call leaves one open, and who then waits.
2. A transfer that fails in `sd_intr()`; `Log` over `BCache`, with the unpinning of
   recovery, which takes the count of a buffer below zero (`log.c:105`).
3. Lists as pointers, shown to implement the sequences used here.
