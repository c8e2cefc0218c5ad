# A TLA+ development for the xv6-64 kernel and its debugger driver

The repository holds a 64-bit xv6 kernel (C and a little assembly), its user
programs, the image builder `mkfs.c`, and `debugger.py`, a driver that boots the
kernel under QEMU, talks to GDB and sends crash reports to a language model.
This directory holds TLA+ modules that model the parts of that system in which
several actors, crashes or limits meet, the TLC configurations that check small
instances of them, and TLAPS proofs for every size of the constants.

## The system

| part | state | operations | what makes it hard |
|---|---|---|---|
| redo log (`log.c`) | `log.lh`, `outstanding`, `committing`, the on-disk header and log blocks | `begin_op`, `log_write`, `end_op`/`commit`, recovery at boot | group commit, crash between any two disk writes, the size test outside the lock |
| buffer cache (`bio.c`) | buffers, reference counts, dirty and valid flags, LRU order | `bget`, `bread`, `bwrite`, `brelse` | recycling against pinned buffers, with as many buffers as the log may pin (`NBUF` = `LOGSIZE`) and fewer than processes |
| IDE driver (`ide.c`) | `idequeue`, flags of the queued buffers | `iderw`, `idestart`, `ideintr` | an interrupt handler against sleeping processes |
| processes (`proc.c`, `trap.c`) | process table, per-CPU `proc`/`ncli`/`intena`, pids | `allocproc`, `fork`, `exit`, `wait`, `kill`, `scheduler`, `sched`, `yield`, `sleep`, `wakeup` | lost wakeups, the lock handed over by `swtch`, reuse of slots and stacks |
| locks (`spinlock.c`, `sleeplock.c`) | `locked`, `cpu`, interrupt nesting | `acquire`, `release`, `pushcli`, `popcli`, `acquiresleep`, `releasesleep` | interrupts, nesting, handover |
| pipes (`pipe.c`) | ring buffer, `nread`, `nwrite`, open ends | `piperead`, `pipewrite`, `pipeclose` | full and empty buffers, close while the other side sleeps |
| inode cache (`fs.c`) | in-core inodes, reference and link counts, `I_VALID` | `ialloc`, `iget`, `ilock`, `iput`, `itrunc`, `iupdate` | reuse of an entry against the last `iput` |
| block allocator and file contents (`fs.c`) | bitmap, `addrs` | `balloc`, `bfree`, `bmap`, `readi`, `writei` | limits, partial writes |
| directories and path calls (`fs.c`, `sysfile.c`) | entries, `nlink` | `dirlookup`, `dirlink`, `namex`, `create`, `sys_link`, `sys_unlink`, `sys_open` | lookups without a lock held, link counts |
| open files (`file.c`, `sysfile.c`) | file table, reference counts, descriptors | `filealloc`, `filedup`, `fileclose`, `fileread`, `filewrite`, `sys_dup`, `sys_pipe` | references against closes, splitting of writes |
| memory (`kalloc.c`, `vm.c`, `exec.c`, `growproc`) | free list, page tables, process size | `kalloc`, `kfree`, `allocuvm`, `deallocuvm`, `copyuvm`, `exec` | failure half way |
| console (`console.c`, `uart.c`, `kbd.c`) | `input` ring with `r`, `w`, `e` | `consoleintr`, `consoleread`, `consolewrite` | wrap-around, line editing, push-back of ^D |
| clock (`trap.c`, `sysproc.c`) | `ticks` | timer interrupt, `sys_sleep`, `sys_uptime` | counter wrap, negative arguments |
| user allocator (`umalloc.c`) | the circular free list | `malloc`, `free`, `morecore` | coalescing, wrap-around |
| shell (`sh.c`) | the line, the command tree, a tree of processes with their descriptors | `parsecmd`, `runcmd`, `main` | mutual recursion around one cursor; a descriptor left open keeps a pipeline from ending |
| debugger driver (`debugger.py`) | the QEMU and GDB sessions, prompt synchronisation | session set-up, commands, API retries, clean-up | timeouts, late answers, retries |
| machine set-up (`main.c`, `lapic.c`, `mp.c`, `ioapic.c`, assembly) | device registers | boot | hardware protocols |

## Modules

### `AtomicDisk` and `Log`: the redo log

`AtomicDisk` is what the log promises: system calls change the current contents
of the blocks, and the durable contents jump to the current ones at moments when
no call is in progress; a crash makes the durable contents current.

`Log` is `log.c` with the buffer cache below it: one action per critical section
or disk write.  `begin_op`, `modify` (the caller's change of a locked buffer and
the part of `log_write` before `acquire`), `log_write` (the part under the
lock), `end_op`, then `write_log`, `write_head`, `install_trans`, `clear_head`
(one disk write each) and `end_commit`; `recover_*` at boot; `evict` for the
recycling in `bget`; `crash`.  Block contents are members of a small set; the
header block is the variable `head`, all other blocks are `disk`.

### `LogProofs`

The inductive invariant `IInv` relates the phase of a commit to what is in the
log blocks, the header and the home blocks; it needs `LogFits`, which the code
does not guarantee in general (see Findings), so the theorems take `[]LogFits`
as a hypothesis.  Its last part shows what can break it: only a call that logs
all of the `MAXOPBLOCKS` blocks it reserved, or more (`InBudget`).

### `Proc`: processes, the scheduler and locks

`Proc` models `proc.c` on several CPUs, with the parts of `spinlock.c`,
`sleeplock.c`, `trap.c` and `trapasm.S` it depends on.  Per CPU: where the
scheduler is, the interrupt flag `eflags`, `ncli`, `intena`, the process it
runs.  Per slot: state, parent, channel, `killed`, and where the thread is
in the kernel.  `ptable.lock` belongs to a CPU and is handed through `swtch`
from a process to the scheduler and back, as in the code; a step is a stretch of
code between two points where another CPU or an interrupt can come in.
Critical sections that take and release a lock without a switch (`kill`,
`releasesleep`, `allocproc`) are one step.  `Panics` collects the conditions of
the panics of `acquire` and `sched`, and `InitExits` that of `exit`; a CPU that
meets one goes no further (`panic`).  A user program makes any of the
calls of `Calls` in any order (`getpid` stands for those that touch nothing
here), faults, or is interrupted.  init is no exception: it can be killed, fault
and call `exit`, as `init.c` does when its `fork` fails.

### `ByteStream` and `Pipe`

`ByteStream` is the promise of a pipe: a bounded queue of bytes, read in order,
that returns nothing only when it is empty and no writer is left.  `Pipe` is
`pipe.c`: a ring addressed by two counters that wrap at `UMax` (2^32 in C, a
multiple of `PIPESIZE`), two sleep channels, open ends shared by several
processes, calls of up to `MaxIO` bytes that sleep half way, and kills.  Each
action is a stretch of `pipewrite` or `piperead` under `p->lock`, up to its test
of `killed` and the call of `sleep`, or the return; going to `sleep` is a step of
its own, before which a `kill`, which does not take `p->lock`, may fall.  `Stream`
maps the ring to the queue.  The history variable `unwoken` holds the readers that
were asleep when a killed writer gave up half way and whom nobody has woken since.

### `Inode`: the inode cache and the calls on one directory

`dinode` is the inode on disk (type and link count), `icache` the in-memory
entries with their reference count, `I_VALID` and sleep lock, `dir` the entries of
one directory and `dirlock` its lock.  Steps are the sections under
`icache.lock`, the taking of a sleep lock, and each visit to the inode on disk.
`iput` is three steps, because it lets go of `icache.lock` to free the inode, and
`ialloc` reads one inode a step.  In `dirlink` the `iget` and `iput` of an inode
whose name turns out to be taken are one step, of which the panic of a full cache
is what remains.
The calls are `open` (with `create` for `O_CREATE`), `link`, `unlink` and
`close`, with their error paths.  File contents and file-table limits are
abstracted to a nondeterministic failure of `sys_open` after its `ilock`.  Calls run inside
transactions, which `Log` shows atomic; several may be in progress at once, so
transactions do not keep calls apart.

### `FileTable`: open files

`ftable` is `file.c`'s table, `ofile` the descriptors of each process.  A step is
what one holder of `ftable.lock` does.  `fileclose` takes two: it copies and
clears the entry under the lock, and then closes the pipe end or puts the inode
the copy names; `closing` is the list of closes a call still has to make, so that
other processes can reuse the entry in between.  `open`, `dup`, `close`, `pipe`
(with every failure of `pipealloc` and `fdalloc`), `fork` and `exit` are actions.
A scan from the start of a table is `Lowest`, a set of at most one entry, so that
an action that needs a free entry is not enabled without one.

### `FileData`: blocks and contents

The bitmap, direct and indirect addresses, `balloc`, `bmap`, `readi`, `writei`,
`itrunc`, and the batches into which `filewrite` cuts a write.  A step is one
round of `writei`'s loop, so writers of different files compete for blocks.
A unit of data names its file and offset; `wr[p].logged` collects the blocks one
transaction logs, to be compared with the `MAXOPBLOCKS` that `begin_op` reserves
(`WriteInBudget`).  Writes go to any offset up to the size.

### `Dirs`: the tree of directories

`namex` locks one directory at a time and keeps only a reference between two
hops, so a hop is a step; so is all that `mkdir`, `mknod`, `unlink` or `chdir`
does with the last directory locked; `skipelem` takes the next name off the
path.  `late` and `gone` record two things the
code allows (see Observations); the properties say what holds apart from them.
`Inode` takes apart the `iput` that is one step here.

### `BufCache`: the buffer cache and the disk queue

`bio.c` on `ide.c`.  `bget` (cached, recycled in order of use, or its panic),
`bread` from its `acquiresleep`, `bwrite`, `log_write`'s pinning, `brelse` in its
two sections, and `iderw`, which starts the disk on an idle queue (`active` is the
request the disk works on) and sleeps.  `ideintr` completes the head of
`idequeue`, possibly as a failed read, wakes who sleeps for it and starts the next
request.  A process that holds two buffers, as some paths do, is two of `BProcs`.
`newest` is a history variable.

### `Console` and `Clock`

`Console` is the input ring: `consoleintr` with backspace, kill-line and ^D, and
`consoleread` by several readers, indices modulo `UMaxC`.  One step of
`consoleread` is its loop up to a sleep or the return: `Stops` says where the loop
ends, `Takes` what it has taken from the ring by then, `Copies` how much of it the
caller gets (a ^D is not copied, and is put back behind bytes already read).
`Clock` is `ticks`
modulo `UMaxT`, the timer interrupt and `sys_sleep`, whose comparison converts
its argument to unsigned.

### `Memory` and `Umalloc`

`Memory` has an address space as the set of its user pages and of the tables on
each level that they need; `kalloc` and `kfree` move pages between such sets and
a count of free pages.  `sbrk` (both signs), `fork`, `exec` in its stages with
its error exit, `exit` and `wait` are actions.  `exec` makes a guard page below
the stack (`clearpteu`) and pushes its arguments with `copyout`, which finds only
pages the user may touch (`uva2ka`) and faults in the kernel for an argument
longer than the image (`exec_push_fault`).  `copyuvm` takes the size as a `uint`;
the model does not cut it, since so many bytes are mapped only above `PHYSTOP`.
`Umalloc` is the circular free
list of `umalloc.c`, with `morecore` as a step of its own `malloc`.

### `Shell`

The parser is translated function by function onto lines of tokens, as recursive
operators, and compared with a grammar written as a set of trees.  `runcmd` is a
set of actions over processes with descriptors: forks, pipes, closes and waits in
the order of the code, with `pipe`, `open` and `exec` failing at will and `fork`
when the processes run out.  In `main` a `cd` line is the shell's own, and a
`fork` that fails is the end of the shell.

### `Debugger`

`debugger.py` is a script of steps, each of which sends a line to GDB or QEMU and
waits for one of some outputs (`pexpect`), with what its time-out does: raise, end
the session, or go on.  GDB and QEMU are external: they answer in order, at any
time, or die.  The analysis request with its retries and the `finally` clause
follow.

In every module the definitions named `X_something` or `XSomething` that stand
before a definition `X`, most with a comment that begins with "Mutant", are not
part of the model.  Each changes `X` the way a plausible mistake in the code
would, and the property it is paired with in `PROJECT.json` fails on it.

## Runs

| run | instance | shows |
|---|---|---|
| `log_crash` | 2 processes, 2 contents, 3 home blocks, 3 log slots, 2 writes a call | crash atomicity (refinement of `AtomicDisk`) and write-ahead, with crashes at every disk write |
| `live` | 2 processes, 2 home blocks, 3 log slots, 1 write a call; 1 CPU, 3 slots | sleepers in `begin_op` wake; killed processes exit and zombies are collected, unless init exits |
| `log_overflow` | 2 processes, 4 home blocks, 3 log slots, 2 writes a call | expected violation: the log outgrows its region |
| `proc` | 2 CPUs, 4 slots, all calls | no lost wakeup, kill or exit; sleep locks exclude; no stack freed in use; no masked `hlt`; no panic of `acquire` or `sched` |
| `proc_kill_zero` | 1 CPU, 2 slots | expected violation: `kill(0)` marks a free slot |
| `pipe` | 3 processes, 2 bytes, ring of 2, writes of up to 3, counters modulo 4 | first-in first-out stream (refinement of `ByteStream`); nobody sleeps on what is there, but for `unwoken` readers |
| `inode_links` | 2 processes, 3 names, 2 inodes, all calls but for the race of `inode_reuse` | allocation, link counts and cached copies; no deadlock of directory and file locks |
| `inode_reuse` | 2 processes, with `create` | expected violation: an inode is allocated while it is being freed |
| `files` | inode cache with 2 entries for 3 inodes; 3 files of 2 processes; 2 files of up to 3 blocks on a disk of 4; a tree of 3 inodes | exact reference counts, every object closed once, every block in one place, contents read back, a tree with exact link counts, working directories kept |
| `write_budget` | 1 writer, `NDIRECT` 12, `MAXOPBLOCKS` 10, `LOGSIZE` 30 | expected violation: a transaction of `filewrite` logs more than its reservation |
| `devices` | 3 processes, 3 blocks in 2 buffers, 1 pinned, 1 failed read; ring of 3, indices modulo 6; ticks modulo 8 | a holder sees the newest contents, requests stay queued and the disk at work on the first, `bget` panics only when every buffer is in use or pinned; the console neither loses nor locks up; `sleep` lasts what it should |
| `user` | 24 pages, 3 table levels, 2 processes; a heap of 11 units; lines of up to 4 tokens parsed and 4 longer ones run in 6 processes; both debugger sessions | no page lost, sizes mapped, heap partitioned, parser equals grammar, prompt and session end |

`live`, `files`, `devices` and `user` each run several modules that share no variable:
the variable `part` says which of them a behaviour belongs to, and their
next-state relation lists the actions one by one, so that TLC counts the steps
of each.

A property that has two halves (`SleepersHaveReason`, `SleeperHasRequest`,
`LinksCounted`, `DirTree`,
`ReadsWhatWasWritten`, `ReaderSleepsForLine`, `CommittedKept`,
`SleepsLongEnough`, `SizeMapped`, `HeapPartitioned`, `PromptReturns`, `SessionEnds`) has a
mutant for each half.  Type invariants are part of the inductive invariants of
the proofs and are not listed in the runs.

### Bounds

The bounds are the smallest at which the interesting cases occur.

- Log: two processes for group commit; for its limit (`log_overflow`), one home
  block more than the region has slots.
- Processes: two CPUs for every race on `ptable.lock`, three slots for a parent,
  a child and a third party, and a fourth for init to inherit an exited
  grandchild.  The constraint `FamilyWhenFull` keeps the last case small enough:
  init uses neither the sleep lock nor `kill`, and where all four slots are in use
  only exits and waits are explored, without kills, the sleep lock, further forks
  or preemption.  The proofs have no such bound.
- Pipe: writes longer than the ring, so that they sleep half way and can be
  killed there, and counters that wrap after two rounds.  The constraint `Roles`
  gives one process the long writes, lets one only read and one do either, a
  byte at a time, and has the first two close the ends they do not use before the
  third does.  The proofs have no such bound.
- Inodes: an entry that is recycled for a second inode, and a free name to link
  to.  In `files` there are more inodes than entries, so that the panic of `iget`
  is reached.  `inode_links` explores no further where `ialloc` is about to take
  an inode that an `iput` has freed on disk and not yet let go of
  (`NoEarlyReuse`): that race breaks its properties (`inode_reuse`), and the run
  shows that nothing else in these calls does.  Nor does it where inodes run out
  (`NotExhausted`), a panic.
- `FileTable`: three entries and two descriptors, so that `pipe` can fail at each
  of its stages.  `FileData`: one direct and two indirect blocks a file, blocks
  of two units (`Sizes` 1 and 5 make a write that straddles both kinds and is cut
  into batches), and a disk smaller than two full files.  `write_budget` has the
  limits of `param.h` and `fs.h` themselves, but for the size of a block, which
  `maxbytes` is a multiple of.  `Dirs`: one name, and
  `Paths` with nested and `..` paths; three inodes allow a directory in a
  directory.
- `BufCache`: fewer buffers than blocks and than processes, so that `bget`'s panic
  is reached, `MaxPinned` dirty ones, `MaxErrors` failed reads.  `Console`: indices
  that wrap after two rings, reads up to `MaxRead`.  `Clock`: `Naps` with
  zero, a negative and ordinary arguments,
  `Lag` ticks by which a woken process may be late.
- `Memory`: three table levels with two entries each, `Deltas` that grow, shrink
  and empty, `Tops` for segment ends, `Pushes` for arguments that fit the stack,
  that run into the guard page, and that are longer than the image.  `Umalloc`:
  `Requests` that fit exactly, split, and need `morecore`; `HeapEnd` where
  `sbrk` fails.  `Shell`: `MaxLine`
  tokens for the parser, `RunLines` and `NShProcs` for execution, where the
  longest pipeline runs out of processes.  `Debugger`: `MaxRetries` is the
  code's own 5.

Deadlock is checked in the log, process and `inode_links` runs.  It is not in
`pipe`, where all processes may close their ends or wait for each other
legitimately, nor where a behaviour may end: in a panic (`inode_reuse`, `files`,
`write_budget`, `devices`, `user`), at a prompt, or at the end of a session.

### Fairness

Of the log, `live` assumes weak fairness of a process inside a call and of
recovery: a process that can run is run.  Of processes it assumes strong fairness
of each CPU's scheduler loop and of each thread that is on a CPU, because a CPU that
spins on a lock is enabled only now and then, and strong fairness of the clock
interrupt, because a masked interrupt stays pending and is taken when interrupts
are next enabled.  `user` assumes weak fairness of the processes of a command
line taken together, since every step brings the line nearer its end, and of
`debugger.py` itself: its waits have time-outs.  Nothing is assumed of user
programs in `live`, nor of GDB, QEMU or the network.

## What is proved

All theorems hold for any number of processes and any sizes that satisfy the named
assumption of the module they are about.  Where a property is also checked by a
run, the theorem names the definition the run checks.

The log (`LogAssumption`):

- `Safety`: types, exclusive commit, pinned uncommitted buffers, durability when
  idle, and a waker for every sleeper;
- `Refinement`: `Log` implements `AtomicDisk`, crashes and interrupted
  recoveries included;
- `WriteAheadHolds`: a home block changes only while the header on disk lists it;
- `Reservation`: of every behaviour in which no call has logged all of the
  `MAXOPBLOCKS` blocks it reserved (`[]InBudget`), on a disk whose log region is as
  `mkfs` makes it (`RegionMade`), the log fits its region and no panic of `log.c`
  is met.  It is a statement about where to look, not that the kernel is there:
  `filewrite` logs more than its reservation (`write_budget`).

None of these is inductive by itself.  `IInv` adds, for each phase of a
commit and of recovery, which log blocks hold the new contents, whether the
header on disk lists them and which home blocks are already installed; the
mapping of the durable contents reads the logged blocks through the header when
it is non-empty.  `Safety`, `Refinement` and `WriteAheadHolds` have `[]LogFits`
as a hypothesis, and the code does not guarantee it.  The invariant of
`Reservation`, `SpaceInv`, adds up what the calls in progress may still write and
compares the sum with their reservations.

The buffer cache (`BufCacheAssumption`):

- `CacheCoherent`: one buffer per block, a holder sees what was last written, and
  no write is lost;
- `DiskAnswersAll`: whoever sleeps in `iderw` has a request in the queue, and the
  disk is at work on the first of the queue as long as there is one;
- `PanicMeansFull`: `bget` panics only when each of the `NBUF` buffers is pinned or
  in some process's hands, whatever the numbers of buffers and processes.

`BcInv` adds that `refcnt` counts the processes that have the buffer (so that a
buffer in use is not recycled), that the sleep-lock has one owner, that a valid
buffer is current, and that `idequeue` holds, once each, buffers whose owner
waits for them.  For `PanicMeansFull` it has that every buffer is in the list that
`bget` scans, so that what it finds no use for is in use.

Processes and locks (`ProcAssumption`; `ProcProofs`), for any number of CPUs and
slots:

- `LocksNeverPanic`: `acquire` and `sched` meet none of their panics, and no
  process runs after its exit; that init does not exit is not claimed;
- `StacksStayInUse`, `HaltsUnmasked`;
- `ExitsReachWaiters`, `WakeupsReachSleepers`, `KillsReachSleepers`: no exit is
  lost on a process about to sleep in `wait`, no wakeup on one about to sleep for a
  sleep lock, no kill on one about to sleep in `wait`;
- `SleepLockExcludes`: a sleep lock has one holder.

None is inductive.  `ProcInv` says who has `ptable.lock`: a CPU has it just while
it is in the scheduler's loop, or runs a thread between `yield`, `sleep` or `exit`
and `sched`, or between `swtch` and the release after it; `ncli` is 1 exactly while
it has that lock or the sleep lock's `lk`.  So a process whose state already says
RUNNABLE, SLEEPING or ZOMBIE while it is still on its CPU is met by nobody else,
and a process that has tested its condition and not yet slept cannot miss the
change of it.  The rest of `ProcInv` says where a thread can be in each state and
what its channel then is, that a child being made belongs to its maker alone, that
init is never a zombie (its `exit` goes no further than the panic), and that a CPU
that comes to the end of its scan with `intena` 0 has skipped too few slots to halt.

Rings (`RingProofs`): the pipe, the console and the clock compare counters that
wrap.

- `PipeSleepers` (`PipeAssumption`): whoever sleeps in a pipe has reason to, but
  for the readers in `unwoken`;
- `PipeIsStream`: `Pipe` implements `ByteStream`;
- `ConsoleNeverStuck` (`ConsoleAssumption`): a reader sleeps only while nothing
  completed is waiting, and a full ring has something to read;
- `LinesReadOnce`: an action property: editing never reaches into a completed
  line, and every character leaves the ring once and in order;
- `SleepsFully` (`ClockAssumption`): `sleep` does not return early, and nobody is
  asleep once the ticks have passed.

The common argument is that a difference of two counters modulo their width
determines one from the other, as long as it is smaller than the width, and that
the place in the ring follows the counter because the width is a multiple of the
ring.  For the pipe the invariant adds that the difference is at most `PIPESIZE`
and that an end somebody has is open; the queue of `ByteStream` is the bytes from
`nread` to `nwrite`.  For the console it adds that the completed characters are
among the typed ones, that these fit the ring, and that a full ring is a completed
one.  For the clock it adds that `ticks` is the start of each nap plus what has
passed, and `ClockAssumption` requires that a woken process runs before the counter
has gone round once.

The inode cache (`InodeAssumption`; `FsProofs`): `InodeRefs`, the `ref` of every
entry is the number of calls and open files that point to it, `inode_reuse`'s race
and the panics included.  `RefInv` adds at which places a call has an entry: from
`iget` to the end of `iput` and nowhere else, and that a call that opens a file has
none open yet.

Directories (`DirsAssumption`; `FsProofs`):

- `WorkingDir`: a working directory stays a directory;
- `WalksLand`: a hop of a path walk lands on an allocated inode, except by the `..`
  of a removed directory;
- `TreeLinks`: until a removed directory is written to, `nlink` of every inode is
  the number of its names and of its children's `..`, and `..` names the directory
  that holds the name (`LinksExact` and `DotDotsMatch`, two of the parts of
  `DirTree`).

`DirInv` has the types, and that a walk is at an inode as long as its call lasts;
every call ends in an `iput` that spares what is referenced, and `create` takes
only free inodes.  `TreeInv` adds that no inode has two names, that what a name
refers to is allocated and not the root, and that what has lost its name has no
entries.

Open files (`FileTableAssumption`): `FileCounts`, the reference count of every
entry is the number of descriptors and half-done calls that hold it.  `FtInv`
adds the shape of calls: a process has a list of closes or a first pipe file only
in the calls that make one, and a free slot has no descriptors.  Each action is
shown to change the count of one or two files by exactly what it changes in
descriptors, `half` and `closing`.  `ObjectsOnce` (`FileObjectProofs`): an inode or
an end of a pipe is given up exactly when the last open file for it is closed.
`ObjInv` adds that an entry that is handed out has no object yet.

Memory (`MemoryAssumption`; `MemoryProofs`):

- `PagesBalance`: every page is free or in exactly one place;
- `SizesMapped`: a process has mapped what its size says, unless it called
  `sbrk(-sz)`, and what `exec` pushes stays in the page of the stack;
- `ForkFindsPages`: `copyuvm` panics over a missing page only after a `sbrk(-sz)`.

`MemInv` adds that a free slot has no pages and that only a running process has an
image under construction; `SizeInv` says of that image, as of the process, that
its pages are those its size promises, and where its guard page and stack are.

The following stays with TLC.

- Liveness (`live`, `user`): liveness under fairness and `ENABLED`
  are out of the prover's reach.
- What recursive definitions compute for every input: the shell's parser, the walk
  along `umalloc.c`'s list (`HeapPartitioned`), and the third part of `DirTree`,
  which follows paths from the root.
- `NamedIsAllocated`, `ValidIsCurrent` and `LinksCounted`: they do not hold of
  `Inode` as it stands (`inode_reuse`), only where that race is left out.
- Everything about `FileData`, and `Debugger`: no proof has been written.

## Findings

- `log_overflow`: `log_write` tests the limit outside `log.lock`, and `begin_op`
  reserves one block more than the region has; calls that use their whole
  reservation can outgrow it (`log.c:130`, `log.c:216`).
- `write_budget`: `filewrite` sizes its transactions from `LOGSIZE`, 13 blocks of
  data at a time, while `begin_op` reserves `MAXOPBLOCKS` = 10 for each, the
  "max # of blocks any FS op writes" of `param.h:10` (`file.c:133`, `log.c:130`).
  The counterexample stops at the first block too many: ten of data and the bitmap.
- `proc_kill_zero`: `kill` compares pids of free slots (`proc.c:436`).
- `inode_reuse`: `iput` frees an inode without its lock while its entry is still
  valid (`fs.c:319`-`323`).

### Observations

What the code does and the models therefore allow for; each is an explicit
exception in a property or a history variable, without a run of its own.

- `pipe.c:86`: a writer that is killed in a full pipe returns without waking the
  readers, although its bytes are in the pipe.  `SleepersHaveReason` excepts the
  readers asleep at that moment (`unwoken`); without the exception TLC finds a
  reader asleep at a full pipe.
- `pipe.c:107`-`111`, and likewise in `consoleread` and `sys_sleep`: `killed` is
  tested under a lock that `kill` does not take, so a kill between the test and the
  sleep wakes nobody, and the process sleeps until its next wakeup.  `Pipe` has this
  interleaving.  `wait`, which tests and sleeps under `ptable.lock`, is where
  `KillMissesNoSleeper` and `KilledExits` claim more.
- `proc.c:181`: `kill(1)`, a fault of init, or `init.c:27` ends in
  `panic("init exiting")` (`InitExits` in `Proc`).
- `exec.c:75`: an argument longer than the new image makes `uva2ka` follow a null
  pointer (`exec_push_fault` in `Memory`).
- `proc.c:120`: `sbrk(-sz)` unmaps everything, but `deallocuvm`'s 0 is taken for
  an error and the old size stays; a later `fork` panics in `copyuvm`
  (`emptied` in `Memory`).
- `kalloc.c` panics when memory runs out, so the tests of its result in `vm.c`,
  `proc.c` and `pipe.c` never see a 0.
- `sysfile.c:247`: `create` may put an entry into a directory that was removed
  after the path walk (`late` in `Dirs`), and a walk may follow the `..` of a
  removed directory to an inode that is already free (`gone`).
- `ide.c:116`-`121`: a failed read leaves its buffer valid (`bad` in `BufCache`).
- `debugger.py:411`, `438`: time-outs are swallowed, after which an answer of GDB
  may be taken for the next command's (`slipped` in `Debugger`).
- `bio.c:92`: nothing keeps the buffers in use and those the log pins below `NBUF`.
  `NBUF` equals `LOGSIZE` (30), there are 64 processes, and some paths hold two
  buffers.  `bget`'s panic is reached in `devices`; `BgetFindsBuffer` says that it
  takes as many users and pinned blocks to reach it, no leaked reference.

## Not modelled

- Boot code (`bootasm.S`, `bootmain.c`, `entry*.S`, `main.c`), `mp.c`, `lapic.c`,
  `ioapic.c`, `uart.c`, key maps, console output and port commands of
  the disk: sequential code against hardware the source does not describe.
- Page-table bits, segment descriptors and the contents of trap frames: no
  property tells them apart; `Memory` keeps which pages and tables exist.
- `sys_link` between directories of a tree (in one directory it is in `Inode`),
  the offset that processes share through a file, `filestat`, `stati`, argument
  fetching.
- The user programs other than the shell, and the tests: sequential calls of what
  is modelled.  `mkfs.c` beyond its layout, which writes an image once.
- The text of command lines, prompts, messages and reports.  In `debugger.py` the
  answer to "Breakpoint pending" at GDB's start: GDB is given no breakpoint by then.
- Memory is sequentially consistent in all models, which x86 with the locked
  `xchg` of `acquire` gives to code that shares data under locks.
- The parts of `files`, `devices` and `user` are not composed with each other:
  `Log` has its own buffers, `FileData` and `Dirs` rely on the locks and
  transactions that `Inode`, `BufCache` and `Log` are about.
