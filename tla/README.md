# xv6 in TLA+

TLA+ models of this xv6 system: the kernel (`src/kernel`) wherever several
processes, CPUs, interrupts, devices or power failures meet, the program that
makes its disk image (`src/mkfs`), and the shell, the allocator and the filters
of user space (`src/user`). They are checked with TLC on small instances; the
write-ahead log, the buffer cache, the disk driver, the pipe, console input, the
scheduler and the process table are also proved with TLAPS for instances of any
size.

## The system

| part | code | module | what makes it hard |
|---|---|---|---|
| write-ahead log | log.c | Log, AtomicDisk | a power failure between any two block writes, or inside one; calls that share a transaction; space for calls that have not logged yet |
| buffer cache, sleep-locks | bio.c, sleeplock.c | BufferCache, BlockStore | buffers handed out before they are locked, recycled while others look for their block |
| disk driver | virtio_disk.c | VirtioDisk | completions out of order, ring indices that wrap, waiting for descriptors |
| scheduler, spin-locks, timer | proc.c, swtch.S, spinlock.c, trap.c | Sched | a lock taken by one thread and released by another; wakeups between test and sleep; interrupts wherever they are enabled |
| process table | proc.c, sysproc.c | ProcTable | parent and child exiting at once; slots reused; fields read without their lock |
| memory, exec | kalloc.c, vm.c, exec.c | Memory | giving back everything when an allocation fails half-way |
| user copies, arguments | vm.c, syscall.c | UserCopy | page boundaries, address wrap |
| pipes | pipe.c | Pipe, ByteQueue | full and empty, counters that wrap, closing with sleepers, killed sleepers |
| inodes, directories, files, system calls | fs.c, file.c, sysfile.c | FileSystem | three counts (`ref`, `nlink`, `f->ref`), names that go away while they are used, locks of two inodes at once |
| file contents | fs.c, file.c | FileData | shared offsets, block maps, writes cut short, the log budget of one call |
| console input | console.c | Console, LineInput | a line edited by the interrupt handler and read by processes |
| UART | uart.c, console.c | Uart | two users with the lock and two without it |
| image | mkfs.c | Mkfs | what the kernel reads must be what mkfs wrote |
| strings, names | string.c, ulib.c, fs.c | Strings | names without NUL, overlap, prefixes |
| shell | sh.c | Shell | who holds which end of which pipe |
| malloc | umalloc.c | Umalloc | coalescing in a circular list |
| grep, wc, cat | grep.c, wc.c, cat.c | Filters | input that arrives in pieces |

How the parts depend on each other. File system calls (FileSystem, FileData) run
between `begin_op()` and `end_op()` and change blocks through the buffer cache,
so Log sees the cache as *lock, change, release, pin, forget*; that is the
interface BlockStore, which BufferCache is shown to implement. The cache calls the disk
driver with its buffer locked, which is why VirtioDisk has one request per
buffer. The cache, the pipe, the log, the console, the drivers and `wait()` all
sleep with `sleep(chan, lk)`: releasing `lk` and going to sleep is one action in
their modules, and Sched is where this is justified. FileData checks that one
chunk of `filewrite()` logs fewer than the MAXOPBLOCKS blocks that Log reserves
for it (`ChunkFitsLog`). Mkfs extends FileData and reads its image with the kernel's
`readi()`. Console's output and the echo are Uart's writers.

Composition. Parts that share no variable cannot disturb each other: a property
of one of them holds in their product if and only if it holds of the part alone.
MCKernel (Memory and BufferCache), MCSched (Sched and Pipe), MCConsole (Console
and Uart) and MCLibrary therefore choose one part in the initial state and run
that one; this saves the product of their state spaces and loses no behaviour of
either part.

## Modules

A definition `X_Y` is a faulty variant of `X` that shows that a property can
fail; no specification uses it. Properties that belong together are checked as
one conjunction (`LogSafe`, `BuffersSound`, `TableSound`, ...); the conjuncts are
defined, and described, one by one.

**Log, AtomicDisk.** The disk (`disk` for home locations, `dlog` and `dhead` for
the log), the cache as the log sees it (`buf`, `refcnt`, `holder`), `struct log`,
and where every process is. One action per step that touches the disk:
`WriteLog` copies one block, `WriteHead` is the commit point, `InstallTrans`
installs and unpins one block, `EraseHead` ends the transaction. `Crash` loses
everything in memory and may cut the block write in progress (`TornWrite`). The
header is a single sector, which the disk writes whole. Recovery is `ReadHead`,
`RecoverBlock`, `RecoverDone`, and can crash as well. A call holds up to two
buffers (`bmap()` and `itrunc()` do) and modifies at most `OPBLOCKS` distinct
blocks. It may release a changed buffer without `log_write()`, as `writei()` does
when `either_copyin()` fails (fs.c:500-503); the history variable `loose` has the
blocks with such a change. `AtomicDisk` is the promise: a commit, which happens
only when no operation runs, makes everything logged so far durable at once; a
crash returns to the last commit; and a change that was not logged can be
forgotten (`Forget`), no other can. `Recovered`, `Current` and `Logged` are the
refinement mapping.

**BufferCache, BlockStore.** The list `lru`, the fields of every buffer, and for
each process two uses of a buffer (`Uses`), each with its place between `bget()`
and the end of `brelse()`: `install_trans()`, `write_log()`, `bmap()` and
`itrunc()` hold two buffers at a time. `Under` says which blocks are taken while
which others are held; callers take them in one order only, since two processes
that take two blocks in opposite orders would wait for each other. The two
critical sections of `brelse()` and the two locks of `bget()` are separate
actions. Callers write a changed buffer, pin it, or just release it; they unpin
after writing. When no buffer is unused `bget()` panics and the process stops;
`BufferLeft` says when that cannot be. `BlockStore` has an owner and contents for
each block, and no buffers; a change that was neither written nor pinned may be
forgotten once nobody uses the block.

**VirtioDisk.** Descriptors, both rings with 16-bit indices (`IDXMOD`), and the
device (external), which fetches requests in order and completes them in any
order, beside the driver and between any two of its writes. `DriverSound`:
descriptors have one owner, the rings agree with the requests under way, every
request is served once, no interrupt and no wakeup is lost.

**Sched.** Every CPU has the depth `noff`, `intena` and its interrupt bit; `on`
is the thread it executes. A timer interrupt can come whenever the bit is set,
and runs `devintr()`, `clockintr()` (on one CPU only) with the loop of
`wakeup()`, and `yield()`. The processes call `sys_sleep()` and `kill()`, and
exit when killed. `acquire()` is one step that waits for the lock: disabling
interrupts first and spinning afterwards differs only in when a pending
interrupt is taken.

**ProcTable.** `fork()` in five steps, `exit()` in five, `wait()` in four,
`kill()`, and `sys_getprocinfo()` in two, because it takes no lock. A scan that
locks one slot after the other is one step that needs the slots unlocked: only
the slot it looks for is changed, and the others' holders never wait for the
scanner. `kill(1)` is left out (init exits and the kernel panics).

**Memory.** Pages have no identity: the free list is a number, a page table the
sets of its tables and of the user pages it maps. Every turn of an allocating
loop is an action, so that two processes run out of memory anywhere in `fork()`,
`exec()` and `sbrk()`. `MemorySound` counts the pages (none lost, none freed
twice) and relates `p->sz` to what is mapped; `WholeImages` says that a child
starts with all its parent's pages and that `exec()` replaces the image or
leaves it. `growproc()`'s `uint` arithmetic is kept modulo `UINTMOD`.

**FileSystem.** The inodes on disk and in `itable`, directories as functions
from names to inode numbers, `ftable`, descriptors. A step is what a process
does between two points where another can be seen; `iput()` is always the steps
of the code (`IputTest`, `IputFree`, `IputRelease`, `IputDrop`). Three panics can
happen and stop the model as they stop the kernel: `iget()` finds no slot (xv6
has 50 slots for 200 inodes), `ialloc()` no inode, and `ilock()` an inode that is
free. `KnownPanics`, a part of `CallsGetOn`, says when: the first only if every
slot is really in use, each by another inode, the last only through `..` of a
directory that has been removed; every other panic of these files is shown not
to happen. `lost` and
`orphans` are history: names that went with a freed directory, and inodes that
the last `iput()` did not free; they let `CountsExact` and `DiskIsTree` say
exactly what holds in spite of the behaviours described under Findings.

**FileData.** One file, two processes, a shared and a private offset. Blocks are
allocated, zeroed, filled, freed and reused byte by byte; user memory may be bad
in the middle of a copy. `content` is what the file should hold.

**Console, LineInput.** `r`, `w`, `e` modulo `UINTMOD`; `consoleintr()` is one
step under `cons.lock`. `LineInput` is the promise: a line being typed, which
can be edited, and finished input that no longer changes.

**Uart.** The transmit ring, the UART's FIFO and interrupt (external), writers,
the interrupt handler, and `uartputc_sync()` from `printf()` and the echo.

**Mkfs, Strings, UserCopy, Umalloc, Shell, Filters, MCLibrary.** Sequential
programs are state machines of their own steps (a block of `iappend()`, a call of
`malloc()`, a `read()` of a filter, a system call of the shell's processes).
Pure functions (path elements, names, strings, user copies, `printint()`, the
shell's parser) are operators; a behaviour of MCLibrary chooses arguments, calls,
and the answer is compared with a reference definition that does not follow the
code (`Components`, `Before`, `Reach`, `Atoi` after `printint()`, the grammar
`Written` for the parser). In Filters a read or a write may fail, and the output
is then that of a part of the input. In Shell one `fork1()` may fail; the process
that called it exits, and `ForegroundDone` leaves out only the children that it
had already started (`Left`), for which nobody waits.

## Runs

| run | instance | shows |
|---|---|---|
| log_atomic | 2 processes, 2 blocks, 2 values, log of 6 | the log implements an atomic disk (`CrashAtomicity`); pins, torn blocks, durability, sleepers (`LogSafe`) |
| log_space | 2 processes, 3 blocks, room for 2 calls of 2 blocks | the reservation of begin_op() is enough (`LogFits`); sleepers are woken, recovery ends (`LogProgress`) |
| kernel | Memory: 2 processes, 18 pages; cache: 2 processes with 2 uses each, 3 blocks, 2 buffers | no page is lost, images are whole; the cache implements BlockStore, with exact reference counts |
| sched | Sched: 2 processes, 2 CPUs; pipe: 2 writers, 1 reader, ring of 2, counters mod 4 | hand-over of locks and interrupt state, no lost wakeup, no early return from sleep(); the ring is a queue, freed exactly when unused, waits are exact |
| sched_live | 2 processes, 1 CPU | killed processes exit, runnable ones run |
| proc | 4 slots, 4 pids | unique pids, no orphan, no lost wakeup, kills by pid (`TableSound`); no stack freed under its thread; init reaps what it inherits |
| disk | 3 processes, 8 descriptors, indices mod 16 | the driver and the device agree; every request returns, also when the third process has to wait for descriptors |
| console | 2 readers, line buffer of 2, indices mod 4; 2 writers, ring of 2, FIFO of 3 | readers are woken; input is lines; output is in order and complete |
| fs | 2 processes, 2 names, 4 inodes, 3 slots, 3 calls from 4 start states | counts are exact, the cache agrees with the disk, the directories are a tree, no call is stuck or meets a panic but the known ones |
| library | see MCLibrary.cfg | file contents, image, shell, malloc, filters, functions |
| fs_orphan | as fs, one file | *violation*: an inode is left allocated |
| proc_kill0 | 2 slots | *violation*: kill(0) kills a process that does not exist yet |

Bounds. Two processes are enough for two calls in one transaction, for a race for
a buffer, a lock or memory, and for a process that finds a slot another one has
left; disk has three so that one waits for descriptors (8 hold two requests of
three, as in the driver). In log_space a call reserves two blocks and changes
one, and `log_write()` finds the log full once three blocks are in it: a
`begin_op()` that admits one call too many fills it, and a process that comes
while blocks are logged has to sleep although it is one of two. Calls have to use
fewer blocks than they reserve (see Findings). In `kernel` a process can hold
both buffers of the cache, so that the other one finds none; `exec()` runs, and
fails, with an argument's page in hand (`MAXARG`).
Rings, buffers, blocks and pids are so few that they wrap, are recycled or
reused many times over. In `proc` four slots are needed: a grandchild, and two
forks at once. In `fs` a call is bounded by `MAXCALLS` in all; the start states
are reached by a few calls of one process (a directory; a file in it; a
directory in it; a file with two names that parent and child share open), and the
calls (`MCCalls`) include each operation on a name in the root, in a
subdirectory, relative to a current directory, and through `..`. With three slots
and four inodes the three panics happen.
In `console`, `MAXOTHER` bounds characters from `printf()` and the keyboard,
which otherwise could keep the UART busy for ever. In `library`, blocks have 3
bytes and one direct address, so that small files use the indirect block and
reach MAXFILE; the heap has room for 11 units.
`WriteSizes` includes a write of several chunks, and `MAXWRITES` bounds writes
and truncations. Deadlock is checked except in `fs` and `library`, where calls
run out; there `CallsGetOn` and `PipelinesEnd` say that nobody is stuck before
that.

Fairness. A process or CPU that can take a step eventually does. A spin-lock or
sleep-lock that is free again and again is eventually got (strong fairness): the
amoswap loop has no queue, so this is an assumption on the hardware. In Sched a
timer interrupt stays pending until taken, and leaves the interrupted thread
time to execute something; nothing makes a process call the kernel. In ProcTable
init calls wait() again and again, as user/init.c does, and system calls that
have begun are carried on; no process has to exit. In Log a running call makes
finitely many accesses to buffers: it comes to the `brelse()` of the last buffer
it holds (`BrelseLast`) and to `end_op()`, and both are strongly fair because
every access disables them for a while. `EventuallyQuiet` restricts `LogProgress`
to behaviours in which from some time on there is no crash and nobody reads
blocks outside of a transaction, which could keep a buffer from the commit for
ever; new calls may come all the time. `LogProgress` says that all sleepers are
woken again and again, not that each gets in: `begin_op()` has no queue, and a
sleeper can lose the race every time. In VirtioDisk the device completes what it has fetched
and the interrupt is taken; no process has to make a request. In Uart the line
transmits and the interrupt is taken; no writer has to write.

## Proofs

| module | theorems | property of run |
|---|---|---|
| LogProofs | `LogIsSafe`, `LogNeverOverflows` | `LogSafe`, `LogFits` |
| LogRefinementProofs | `LogIsAtomic` | `CrashAtomicity` |
| BufferCacheProofs | `BuffersAreSound`, `CacheStoresBlocks` | `BuffersSound`, `StoresBlocks` |
| PipeProofs | `PipeFreedWhenUnused`, `PipeWaitsExact`, `PipeIsQueue` | `FreedWhenUnused`, `WaitsExact`, `IsQueue` |
| SchedProofs | `SchedulerIsSound`, `InterruptsComeBackOn`, `SleepNeverEndsEarly`, `NoWakeupIsLost` | `SchedulerSound`, `InterruptsBackOn`, `NeverEarly`, `NoLostWakeup` |
| ProcTableProofs | `FamiliesAreSound`, `StacksAreFree`, `TableIsSound` | `StackIsFree`, `TableSound` |
| VirtioDiskProofs | `DriverIsSound` | `DriverSound` |
| ConsoleProofs | `ReadersAlwaysWake`, `InputImplementsLines` | `ReadersWake`, `InputIsLines` |

Each theorem holds for every value of the constants that the named assumption of
its module admits. The run `sched` checks the three properties of the pipe
through its instance of Pipe, as `P!FreedWhenUnused` and so on. No property is
inductive as it stands; for each module one inductive invariant is proved with a
lemma for each action, and the theorems follow from it. Most leaves name Zenon:
what `tlapm` needs to prepare a leaf for the SMT solver grows with everything
that precedes it, and it gives up after five seconds.

**The log is safe and atomic.** For every set of processes and blocks and all log
sizes, from `LogAssumption` (the special values differ; MAXOPBLOCKS at most
LOGSIZE). The invariant `Inv` adds to `LogSafe`: who is where (`ControlInv`:
`outstanding` counts the calls inside, stated with a numbering of them so that no
finiteness is needed; at most one process commits and then no call is inside),
the two headers (`HeadInv`: distinct entries, and in which phases memory and disk
agree), locks and reference counts (`LockInv`: one reference for the lock, one
for the pin until its block is installed), and contents (`DataInv`: a buffer
differs from its home location only if logged or `loose`; log blocks agree
with the cache as far as `write_log()` got and with the homes as far as
`install_trans()` got; a torn home block is always covered by the committed
header). Nothing is assumed about callers but that they hold the buffers they
change: a change without `log_write()` is among the steps, so `DurableWhenQuiet`
speaks of all blocks but the `loose` ones. For the refinement there is a lemma for
each group of actions, which shows that only `WriteHead` changes what recovery
would restore, and that `Recycle` takes back only what was not logged.

**The log never overflows.** `LogNeverOverflows` assumes what xv6 has: every call
modifies fewer than MAXOPBLOCKS blocks (`OPBLOCKS`), and the log area of NLOG
blocks, header included, is not smaller than LOGSIZE (and can take one call). The
call that logs most is a chunk of `filewrite()`, with up to four data blocks, the
indirect block, the inode's block and the bitmap, which is one block on this disk:
7 of 10. `ChunkFitsLog` checks that a chunk logs fewer than MAXOPBLOCKS blocks.
`StillToLog` has an element for each block that a running call may still add, so
that the sum over processes is the cardinality of a set. `Reservation`, that this
number and the length of the header stay within LOGSIZE, is preserved because
`begin_op()` asks for MAXOPBLOCKS per call and `log_write()` takes an element out
for the block it adds. It does not rule out the panic of `log_write()`, which
stops one block earlier, for the header. `Spare` does: two calls that run leave
two blocks unused; a call that has outlived another has what that one left; and a
call that was alone since the last commit has logged everything in the log
itself.

**The cache stores blocks.** From `CacheConstants` (finitely many processes, at
least one buffer), for any order in which blocks are taken (`Under`). `CInv` says
that no two buffers have the same block, that a use between `bget()` and
`brelse()` refers to the buffer of the block it wants, that `refcnt` is the number
of such uses and of the pin, and that somebody holds the lock others sleep for. A
use counts, not a process, so `BufferLeft` allows for the two buffers of each
process. As references are exact, `bget()` recycles only a buffer of a block that
nobody uses and that is not pinned, the step `Forget` of BlockStore; every other
step of the cache maps to a step of its own or leaves the store alone.

**The pipe is a queue.** From `PipeConstants` (the ring size divides the range of
the `uint` counters and is smaller; each end has a process). `PInv` says who can
be where while the lock is held, what is true of the pipe while somebody sleeps,
and that at most PIPESIZE bytes are in the ring. The refinement needs that
`nread % PIPESIZE` and `nwrite % PIPESIZE` walk round the ring also when the
counters wrap; the lemmas on `%` at the head of `PipeProofs` establish it.

**The scheduler.** From `SchedAssumption` (at least one process and CPU, `n` below
the wrap of `ticks`). `Core` says which CPU is in charge of which process (from
the `swtch()` of `scheduler()` to its `release()`), who holds `p->lock` and
`tickslock` at each point of the code, that `noff` is their number, and when
interrupts are off: the hand-over of `p->lock` through `swtch()` is an equivalence
between the holder and the places of the two threads. `Times` says what
`sys_sleep()` relies on: `intena` is on where it will be restored, also on the CPU
that resumes the process; the ticks counted since `ticks0` are those that passed;
a process goes to sleep before its time has come and with `tickslock` held; and
`wakeup()` has still to reach every process whose time came with this tick.

**The process table.** From `ProcAssumption` (at least one slot and one pid).
`PInv` says where `wait_lock` is (in `TypeOK`), that `nextpid` is above every pid,
that the place of a thread agrees with the state of its slot (`Places`), that init
stays (`InitStays`), that the child of an unfinished `fork()` is USED and belongs
to that `fork()` alone (`Forks`), and that everybody but init has a parent which
lives and has not got past `reparent()` (`Parents`). These need each other:
`fork()` sets `np->parent` under `wait_lock` while its own process lives, and
`exit()` holds `wait_lock` from `reparent()` until it is a ZOMBIE, so no child can
come to a process that has given its children away. `Wakeups` says that the
parent of a zombie, or of a process about to be one, is not asleep. `Ppids` says
what `sys_getprocinfo()` can have read. `TableIsSound` assumes that nobody calls
`kill(0)`, the exception under Findings; the other two theorems do not.

**The disk driver.** From `VirtioAssumption` (at least three descriptors; NUM
divides the range of the indices). `DInv` says who owns each descriptor (`Owned`),
what the three descriptors of a request contain once it is submitted
(`Described`), and where its head is: in the available ring, with the device, or
in the used ring, there once (`Places`) and in one of them until the request is
done (`Somewhere`). `Filling` says that the entries of a ring are those between
its two indices, and that there is room. The driver has no test for this: a request
that comes to a ring has three descriptors of its own, none of them in the ring,
so at most NUM - 3 others are there (`RoomLeft`). `ServedOnce` counts the places of a request; as heads are
distinct, the three sets have one element between them.

**Console input.** From `ConsoleAssumption` (INPUT_BUF divides the range of the
indices and is smaller; the special characters differ). `KInv` says that `r`, `w`,
`e` are in this order and at most INPUT_BUF apart (`Ordered`), who has `cons.lock`
(`Reading`), that a reader sleeps only with `r = w` (`Sleeping`), and that no
newline is between `w` and `e` (`Edited`), so that ctrl-U takes the whole line.
For the refinement, `Part` is the sequence of characters from one index to
another; lemmas say how it changes when an index moves or a slot is written, also
when the indices wrap.

Only model-checked: all liveness (`LogProgress`, `KilledExits`, `RunnableRuns`,
`OrphansReaped`, `DiskProgress`, `QueuedIsSent`), which the prover cannot reach;
what recursive definitions compute (`ParseInverts`, `AnswersExact`,
`FiltersExact`), which takes induction over data; the shell, whose module has
recursive operators; the output half of the console (`OutputSound`), where the
order of the characters of several writers is history; the properties of Memory,
FileSystem, FileData and Umalloc, which count pages, references, blocks or units
over sets and lists that change as a whole, and for which no inductive invariant
has been written; and the image that Mkfs writes, a single sequential run.

## Findings

Shown by runs:

- **fs.c:356** (fs_orphan) `iput()` marks an inode free, unlocks, and then drops
  its reference without looking again. If `create()` takes the inode number in
  between, and the new file is closed and unlinked before the drop, nobody frees
  it: it stays allocated without name or reference.
- **proc.c:588** (proc_kill0) `kill(0)` marks an unused slot; the next process of
  that slot starts killed.

Met while modelling; the models contain them, and the properties say what holds
nevertheless:

- **log.c:219** LOGSIZE is "max data blocks in on-disk log" (param.h:10), but the
  log area of LOGSIZE blocks includes the header: three calls that log the 10
  blocks each they are admitted for (MAXOPBLOCKS, param.h:9, is the "max # of
  blocks any FS op writes") reach the panic "too big a transaction" at 29.
  `LogFits` is false with `OPBLOCKS = MAXOPBLOCKS`; it is checked and proved for
  calls that use one block less than they may, as all of this kernel's do.
- **fs.c:500** When `either_copyin()` fails after it has copied a part, `writei()`
  releases the block without `log_write()`. Others read the new bytes from the
  cache until the buffer is recycled, and the old ones afterwards, unless a later
  call logs the block (`loose` in Log, `Forget` in AtomicDisk and BlockStore).
- **fs.c:262** `iget()` panics when 50 different inodes are in use at a time; the
  disk has 200 (mkfs.c:18), and nothing limits what processes hold to the size of
  the table (`KnownPanics`).
- **pipe.c:84** A writer killed between two bytes returns without waking the
  reader, which stays asleep beside the bytes while another writer exists
  (`WakeupUnlessKilled`).
- **sysproc.c:128** `sys_getprocinfo()` follows `p->parent` without `wait_lock`
  and can return the pid of a slot its parent has left (`PpidStaleIfReparented`).
- **console.c:92, proc.c:423** A `kill()` between the test of `p->killed` and
  `sleep()` is missed until the event comes (`KilledSleepsOnlyIfMissed`).
- **sysfile.c:241** `create()` does not look whether its directory has been
  removed: a file created in a removed directory that is still somebody's
  current directory has a link count and no name once the directory is freed
  (`lost`). And `..` of a removed directory names an inode that may be free by
  then, on which `ilock()` panics (`KnownPanics`).
- **fs.c:337** An inode that is open and has no name when the power fails stays
  allocated: nothing looks for such inodes at boot.
- **mkfs.c:166** Rounding adds a block even when the root directory fills its
  last block exactly; the kernel then allocates it on the first read.
- **syscall.c:76** The comment on `argstr()` says that the length it returns is
  "including nul"; it is that of `fetchstr()`, "not including nul" (line 23), and
  the code is as the latter says (`AnswersExact`).
- **syscall.c:57** The declarator of `argint()` is missing in this tree; it is
  read as `argint(int n, int *ip)`, as it is called.

## Not modelled

Boot (`start.c`, `main.c`, `entry.S`) and the interrupt controller (`plic.c`) are
straight-line register writes. Exceptions, the saving of registers and the
trampoline are about the machine, not about state that a model tells apart. The
dispatch of system calls is a table. `printf()`'s and the programs' formatting is
layout. `memset()`, `strcpy()` and `strchr()` are single loops. The disk never
reports an error. The ELF header's fields are a choice of images. The shell's built-in `cd`
and its prompt, the small user programs and the test programs are straight-line
clients of the calls modelled here. `sys_setpriority()` sets a field nothing
reads, `sys_fstat()` only reads. Sizes of 2^31 and more in `malloc()` are outside
its bounds.
