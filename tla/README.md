# Verification of the xv6 memory-management repository

The repository is the teaching kernel xv6 for x86 multiprocessors
(`src/xv6-public`), extended with `mmap` and `munmap`: a list of virtual memory
areas per process, guard pages that let an area grow, and a `fork` that copies
the areas. This directory holds TLA+ modules translated from that code,
configurations for the model checker TLC, and theorems whose proofs TLAPS
checks. `PROJECT.json` maps every definition to the lines it models.

## How the parts fit together

The kernel has one page allocator (`kalloc.c`). Processes (`proc.c`) take pages
from it for their kernel stacks, for the memory below `p->sz` (`vm.c`: `sbrk`,
`fork`, `exec`) and for the mmap area above it (`sysfile.c`, `trap.c`). The
scheduler and `sleep`/`wakeup` carry everything that waits: the buffer cache
and its disk driver (`bio.c`, `ide.c`), the redo log on top (`log.c`), inodes,
directories and names (`fs.c`, `sysfile.c`), pipes and the console (`pipe.c`,
`console.c`) behind the file table (`file.c`). User programs reach all that by
system calls; the shell and the allocator of the C library are modelled with
the kernel parts that they depend on.

A step of every model is what one thread does between two points where another
one can interfere: one section under a spin lock, one buffer or inode locked,
or a single unprotected access. Each layer is modelled over what the layer
below promises, and the promise is what the lower layer's run checks. For
example `Fs` takes calls to be atomic on disk, which is what `Log` shows to
refine `AtomicDisk`; `Log` takes the cache to return what was written last,
which is `Coherent` of `Disk`; `Disk`, `Log`, `Fs` and `Pipe` take `sleep` not
to miss a `wakeup`, which is `NoLostWakeup` of `Proc`.

| Module | Code | State and actions |
|---|---|---|
| `Vma` | `proc.h`, `sysfile.c`, `exec.c`, `trap.c` | The list of areas as pure operators: the two searches of `sys_mmap`, `create_vma`, guard pages, the decision of the fault handler, the reset in `exec`. |
| `Mmap` | `sysfile.c`, `trap.c`, `proc.c`, `exec.c`, `vm.c`, `kalloc.c` | `sys_mmap`, `sys_munmap` and the page fault, page by page, with `fork`, `exec`, `exit`, `wait`, over one set of free pages. |
| `Proc` | `proc.c`, `sysproc.c`, `trap.c`, `spinlock.c` | The process table, CPUs with their current thread, `%cr3`, interrupt flag, `ncli` and `intena`, the locks `ptable.lock` and `tickslock`; one action per lock section of each call, of `scheduler()` and of the clock interrupt. |
| `Disk` | `bio.c`, `sleeplock.c`, `ide.c` | Buffers, their LRU order and sleep locks, `idequeue`, the controller's command, the platter. |
| `Log`, `AtomicDisk` | `log.c` | The header in memory and on disk, log blocks, home blocks, cached and pinned blocks; each disk write of `commit()` and of recovery is a step, `Crash` may come between any two. `AtomicDisk` is the promise. |
| `Inodes`, `Fs` | `fs.c`, `sysfile.c`, `file.c`, `mkfs.c` | `Inodes`: bitmap, inodes, index blocks, directory contents and the image of `mkfs` as operators. `Fs`: the inode cache with reference counts and locks, path walks, and the system calls on names. |
| `Tasks`, `Pipe`, `Files`, `Console`, `Shell` | `pipe.c`, `file.c`, `sysfile.c`, `console.c`, `sh.c`, `cat.c`, `init.c` | The pipe's ring, the file table and descriptors, the line editor and the cursor; `Shell` composes them into `cat \| cat` as the shell sets it up. |
| `Vm`, `Umalloc`, `Heap` | `vm.c`, `proc.c`, `sysproc.c`, `exec.c`, `syscall.c`, `umalloc.c` | `Vm`: page directories, page tables and pages below `p->sz` through `sbrk`, `fork`, `exec`, `exit`, `wait`. A step of a loop over pages takes one user page and, where it is missing, its page table; `setupkvm()` takes a directory and the tables of the kernel's half, counted as one page, in one step, at the start of `fork` together with the kernel stack. `Umalloc`: the free list. `Heap` composes them. |
| `MC*` | | Instances for TLC: sets of calls, programs, symmetries. |
| `LogInv`, `LogProofs` | | The inductive invariant of the log and the proofs. |
| `ProcInv`, `ProcSteps`, `ProcProofs` | | The inductive invariant of the process table and the proofs. |
| `DiskInv`, `DiskProofs` | | The inductive invariant of the buffer cache and the proofs. |
| `MmapInv`, `MmapTypes`, `MmapPages`, `MmapListOps`, `MmapLists` | | The inductive invariant of the VMA lists; proofs about types, physical pages and lists of `Mmap`. |

## What the runs check

Every pass run finishes the whole state space of its instance.

| Run | Distinct states | Shows |
|---|---|---|
| `MmapLists` | 137,334 | Between system calls a list is sorted and disjoint (`ListSorted`), describes exactly the mapped pages, with `pa` the first frame behind the head (`ListIsMemory`), a usable guard page is the next page (`GuardIsNext`); a fault on an unmapped page is dealt with (`FaultResolves`); as long as nothing is shared, each physical page has one use on every path and `kfree` is never misused (`PrivatePages`). |
| `MmapTwice` | violated | A second `mmap` without `MAP_FIXED` panics (see Findings). |
| `MmapUnmap` | violated | `munmap` unmaps nothing (see Findings). |
| `MmapHead` | violated | The area at `MIN_ADDR` has no `pa` (see Findings). |
| `ProcPair` | 519,971 | Two CPUs, two processes, all calls: no stack is used twice (`OneCpu`), the interrupt flag follows the locks and `sched()` does not panic (`Interrupts`), no stack or page directory is freed in use (`MemoryInUse`), no wakeup is lost (`NoLostWakeup`), `kill()` leaves nobody asleep in `wait()` (`KilledWoken`), and `IInv`, from which all but the last are proved. |
| `ProcFair` | 75,697 | A runnable process runs, a killed process exits. |
| `LogCrash` | 117,008 | The inductive invariant `IInv`; `log_write()` does not panic; nobody sleeps while there is room; and, as refinement of `AtomicDisk`, crash atomicity. |
| `DiskCache` | 161,532 | A block is cached once and its user sees what was last written (`Coherent`), `bget()` panics only with every buffer in use or pinned (`PanicMeansFull`), every sleeper has somebody to wake it. |
| `ShellPipe` | 187,543 | Descriptors are counted, nothing is lost or reordered from keyboard to screen, the cursor stays on the screen, every line arrives, and `^D` or a kill ends the pipeline. |
| `FsNames` | 104,477 | References, blocks and links are counted, the cache is written through, names lead to live inodes, and the kernel panics only for want of room or on the `..` of a removed directory (`NoContradiction`). |
| `FsCircle` | violated | `create` and `unlink` of one name wait for each other (see Findings). |
| `Heap` | 111,177 | No page is lost or owned twice when memory runs out anywhere, a program has exactly the pages below its size, the kernel accepts only pointers into them, and `malloc` divides its memory without overlap. |

Type invariants are checked where proofs build on them: `TypeOK` of `Mmap`, and
as part of `IInv` those of `Log` and `Proc`. The invariants `IInv` of `DiskInv`
and `ListInv` of `MmapInv` hold on the instances of `DiskCache` and `MmapLists`
too; `MCDisk` and `MCMmap` extend these modules, so that adding the name to the
configuration checks it.

For every property of a pass run `PROJECT.json` lists a mutant: a mapped
definition changed as a plausible mistake would (a dropped guard, a missing
wakeup, an unpinned buffer), defined next to it under its own name, with which
TLC finds the property violated.

### Bounds

Widths and sizes are scaled down so that limits are met: memory, the log, the
buffers, the pipe, the line buffer, blocks, inodes and the inode cache all run
out in some behaviour.

- Mmap: pages of 2 bytes, an mmap area of 4 pages and 5 physical pages. That is
  enough for an area before, behind and next to another one, for a guard page
  that just fits, for faults on both sides of the mmap area, for `kalloc()` to
  fail in `mmap`, `mappages`, growth and `fork`, and for a `fork` that copies a
  private area of one page; larger ones are left to the proofs. `MaxImages` bounds how many programs are started. TLC
  takes the lowest free page; the proofs leave the choice open.
- Proc: 2 slots, `MaxPid` pids; the tick counter wraps at `TickMod`. `ProcPair`
  hands out one pid to a child; slots that are used again are left to
  `ProcFair`. An orphan takes three slots: parents that exit before their
  children are covered by the proofs only.
- Log: 3 processes and 3 blocks, so that two calls share a group while a third
  waits; the log has room for two reservations. Calls write one block of the
  two they reserve.
- Disk: 3 users of one buffer each, 2 buffers, 3 blocks, one of which may be
  pinned. A process that holds two buffers (`bmap` around `balloc`, `itrunc`
  around `bfree`, `write_log`, `install_trans`) counts as two users. The cache
  does run out here, as it can in the kernel: 64 processes and a log that pins
  up to 29 blocks share `NBUF` = 30 buffers, and nobody waits for one.
- Shell: a pipe of two bytes with counters below 4, a line buffer of two with
  counters that start just before they wrap, 3 keys, one kill, a screen of 2
  cells, a file table of 3 entries that other programs use too. The pipe is full,
  empty and goes round its ring, and the counters of the line buffer overflow.
  Those of the pipe start at 0 and overflow only with four keys (`MaxKeys` = 4:
  653,435 states, no error, about four times as long).
- Fs: blocks of two cells and one direct block, so that a directory with `.`
  and `..` needs its index block for the first name; 13 blocks, 6 inodes, an
  inode cache of 4. Four calls are made one after the other (`Script`): a
  directory is made, another one in it, a process enters it, and then one of
  four calls, among them its removal. Then two processes make two calls from the
  seven of `FewCalls`, or read, write and close, in every interleaving. `balloc`,
  `ialloc`, `iget` and `dirlink` panic in some of these behaviours, and so does
  `ilock` at the `..` of a removed directory. The image has an odd number of
  root entries: with an even one `mkfs` rounds the size of the root directory up
  to a block that it does not allocate. `FsCircle` starts from nothing but the
  file `cat`.
- Heap: 8 user pages in 2 page tables, 15 physical pages, which two processes
  exhaust; 2 system calls and 4 calls of `malloc` or `free`. Addresses wrap
  at 64; an int takes two of them.

Symmetry is used in `LogCrash`, `DiskCache` and `FsNames`, over processes,
blocks and buffers that no definition tells apart; none of these runs checks a
liveness property.

### Fairness

- `Mmap`: weak fairness of the steps of a handler in the kernel: none of them
  waits for another process. Nothing is assumed of programs.
- `Proc`: a CPU goes on executing (weak fairness of the handler and of the code
  that runs with interrupts disabled). The clock interrupt stays pending in the
  local APIC while interrupts are off, so it is taken sooner or later (strong
  fairness of `TimerIrq`). Kernel code that the clock interrupts again and
  again still advances, as the period is longer than the handler (strong
  fairness of `Work` and `Scheduler`). Liveness is checked on one CPU: with
  several, a spin lock gives no guarantee who gets it.
- `Shell`: some process that can go on does. This is weaker than fairness of each
  process, which `RunnableRuns` of `Proc` gives, and enough for both properties.
  The user need not type and nobody need be killed.

## What is proved

TLAPS proves these for every value of the constants that satisfies the named
assumptions, from nothing but the definitions TLC checks.

**Crash atomicity of the log** (`LogProofs`, from `LogAssumption`: finitely many
processes, positive sizes, a call writes at most `MAXOPBLOCKS` blocks). The
number of processes and blocks and the sizes of the log are arbitrary.

- `InvAlways`: `Spec => []IInv`.
- `TypesAlways`: `Spec => []TypeOK`.
- `CrashAtomicity`: `Spec => AtomicSpec`. What recovery would make of the disk
  changes only at the write of the header, by all the calls of the group; what
  a reader sees is what was last written; a crash takes the reader back to what
  is durable.
- `NoPanicAlways`: `Spec => []NoPanic`, under `Slack`: a call writes fewer
  blocks than it reserves, and by enough to make up for the difference of
  `LOGSIZE` and the on-disk log. With the values of `param.h` that means at
  most 8 of 10 blocks. `Slack` is sufficient, not necessary: the instance of
  `LogCrash` is just outside it, and TLC finds no panic there either.
- `SleepersAlways`: `Spec => []SleepersMustWait`.

`AtomicSpec` and `NoPanic` are far from inductive. `LogInv` adds, phase by phase
of `commit()` and recovery, which buffers are pinned (`DirtyInv`), which log
and home blocks have been written (`LogdInv`), that a clean buffer is as
recovery would make it (`CleanInv`), and who has which buffer (`LockInv`). The
reservation needs the strongest part. `begin_op()` counts all blocks in the
header and one whole reservation per active call, although calls share
blocks and have used part of their reservations. `CountInv` therefore says: for
any set S of active calls, the blocks in the header that no call of S has
written, plus `MAXOPBLOCKS` for each call of S, fit in the log. The empty set
gives the bound of the header, all calls give what `begin_op()` tests, and one
call gives the room `log_write()` needs. `LogProofs` first proves the steps of
the other conjuncts given only that the header fits (`RoomInv`), then those of
`CountInv` with cardinalities, combines them and maps each step: `BeginOp`,
`EndOp`, `Modify`, `WriteHead` and `Crash` to a step of `AtomicDisk`, all others
to a stutter.

**Processes, CPUs and locks** (`ProcSteps`, `ProcProofs`, from `ProcAssumption`),
for any number of slots and CPUs.

- `InvAlways`: `Spec => []IInv`.
- `OneCpuAlways`, `InterruptsAlways`, `MemoryAlways`, `WakeupsAlways`,
  `ParentsAlways`: four safety properties of `ProcPair`, and `ParentLives`: a
  process always has a living parent to collect it.

None of the five is inductive, and they need each other: that a stack is not
freed in use rests on `ptable.lock` being held until `swtch()` has left it, that
on the label of the thread the CPU executes, and that on the interrupt flag
being off meanwhile. `ProcInv` says, for each CPU, which lock it holds, its flag
and saved flag by the label of its thread (`LocksOf`, `FlagsOf`, `ThreadOf`); for
each slot, what it may say by the label (`SlotOf`), that a process inside the
kernel is executed by somebody (`Executed`), and what a half-built child looks
like to its `fork()` (`ForkOf`); and that nobody decided to sleep on something
that has happened since.

**Buffer cache** (`DiskProofs`, from `DiskAssumption`: finitely many processes
and buffers), for any number of processes, buffers and blocks, with disk errors.

- `InvAlways`: `Spec => []IInv`.
- `CoherentAlways`: `Spec => []Coherent`.
- `SleepersAlways`: `Spec => []SleepersHaveWakers`.
- `FullAlways`: `Spec => []PanicMeansFull`. No reference is leaked and no
  eviction refused while a buffer is left; and no caller of `iderw()` or
  `brelse()` has lost its lock.

`DiskInv` counts users (`RefInv`), relates locks, sleepers and the places of the
owners (`LockInv`), says that `idequeue` has exactly the buffers somebody sleeps
for and that the controller works on its head (`QueueInv`), and where the last
value of a block is: in its buffer if that is valid, on the platter if the
buffer is not dirty (`DataInv`). `Coherent` alone says nothing of a block that is
not cached, so it does not survive the next read.

**Pages of the mmap area** (`MmapTypes`, `MmapPages`, from `LayoutAssumption` and
`MmapAssumption`), for any layout, number of pages and processes, and any choice
of `kalloc()`.

- `TypeCorrect`: `Spec => []TypeOK`, strengthened by `Control`, which says what
  the local variables of a handler hold at each of its points.
- `PagesAccounted`: `Spec => []PagePartition` if no program asks for
  `MAP_SHARED`. The strengthening adds that page table entries are real pages,
  since a bogus frame recorded in a node would otherwise reach a page table.
- `KfreeIsSafe`: `Spec => []KfreeSafe` under the same assumption.

**Lists of the mmap area** (`MmapListOps` for what happens to one list,
`MmapLists` for the steps; same assumptions and `NoEmpty`: no program asks
`mmap()` for zero bytes), `MAP_SHARED` included.

- `ListInvariant`: `Spec => []ListInv`.
- `SortedAlways`, `MemoryAlways`, `GuardAlways`: `Spec => []ListSorted`,
  `[]ListIsMemory`, `[]GuardIsNext`.

The argument has to explain why `space_after` can be trusted although it counts
bytes instead of pages, growth does not touch it, and a search for a fixed
address may stop at a node far from that address. `Sane` says that `space_after`
is never less than the distance to the next node: linking takes `length` bytes
off it where the new area takes at least as many, and growth only makes it too
large. Too large means that an area can be placed over another one, but then its
mapping loop is `Doomed`: it is on its way to a page that is mapped already, or
to the end of user memory, and `mappages()` panics before the call returns.
Otherwise the loop is at a list that is `Sane` with the pages of the new area
mapped up to `va` (`Partly`). The head that `exec()` makes is the exception: its
`space_after` is one byte less than `create_vma()` would compute, so a request
for exactly the rest of the area fails there and is placed further on.
`RoomAtHead` shows that this is harmless: as long as the head is empty, every
node behind it has used up its space. A process that was killed in the loop may
leave the list ahead of the page table; it does not return to user space.
With zero bytes a node without pages would enter the list, and `Sane`, which
allows only the head to be empty, would be lost. Whether the three properties
hold then is not proved.

**Only model-checked.** Liveness (`FaultResolves`, `RunnableRuns`,
`KilledExits`, `Arrives`, `PipelineEnds`) is out of this prover's reach. So is
induction over data, which the folds of `Inodes`, `Fs` and `Umalloc` need and
with them the properties of `Fs` and `Heap`. The safety properties of `Shell`
(`FilesCounted`, `NothingLost`, `NoLostWakeup`, `CursorOnScreen`) are checked on
the instance only: what has passed through the pipeline is a sum over two rings,
a line and the programs' buffers, which would need the same induction.

## Findings

- `MmapTwice`: the search without `MAP_FIXED` tests `space_after` of a node and
  places the new area at the node's `end + 1`. The node's `end` does not move,
  so the second call finds the head again and `mappages` panics with `remap`.
  The comment at `sysfile.c:697` says that this is covered.
- `MmapHead`: an area at `MIN_ADDR` is copied into the head of the list before
  its first page is allocated; the loop then sets `pa` in the node that was
  copied, which is not in the list. `fork()` would map a `MAP_SHARED` area from
  the 0 in the head. The comment at `sysfile.c:632` says "set pa of vma to first
  page's pa". `ListIsMemory` is about the nodes behind the head.
- `FsCircle`: `create()` ends with `iunlockput(dp)` while it holds the new
  inode, and `iput()` takes the lock of `dp` again. A process in `unlink()` of
  the same name that got `dp` in between waits for the inode. The test at
  `usertests.c:855` makes these calls "to look for deadlocks".
- `MmapUnmap`: `sys_munmap` clears an entry only if `walkpgdir()` returned
  null, and it walks a copy of the list, so nothing is unmapped or unlinked.
  The comment at `sysfile.c:817` says "remove mappings from page table".

## What the models show besides

Behaviour that the properties state as exceptions, or that explains their
preconditions.

Mappings
- `fork()` does not copy the list. A child has the list last used in its slot
  until it calls `exec()`; the list properties are for processes with a list of
  their own (`own`).
- For `MAP_SHARED`, `fork()` maps every page of the area to the first frame, and
  no count is kept: after the child is collected the parent's page is on the
  free list. Hence the assumption of the page theorems.
- The guard that a new area invalidates is that of the wrong node. An area stops growing when it touches the next one.
- `create_vma()` does not test the result of `kalloc()` (halt `wild`).
- A write to a mapped read-only page faults for ever: the handler finds nothing
  to do (`FaultResolves` is about unmapped pages).

Processes
- `kill()` with the pid of an unused slot marks the slot; the next process
  there starts killed.

Disk and log
- `ideintr()` marks a buffer valid also if the read failed. `Coherent` excludes
  such buffers (`junk`).
- The on-disk log has `LOGSIZE - 1` data blocks (`mkfs.c:25`), one less than the
  header counts. Calls of the full `MAXOPBLOCKS` size would make `log_write()`
  panic; `filewrite()` splits its writes to stay below (`file.c:136`).

Files, pipes, console
- A killed writer leaves `pipewrite()` without waking the reader, who has to
  wait until the writer exits. A full line buffer is sent off without a newline.

Names
- `link(x, ".")` waits for itself in `dirlink()` (`fs.c:561`), which puts the
  inode of an existing name with the directory locked; `link(x, "d/..")` takes
  locks upwards there.
- `iput()` reads `ref`, releases `icache.lock` and drops the reference later
  (`fs.c:337`): two processes can each see the other's reference, and
  an inode without links and references stays allocated with its blocks. The
  comments at `fs.c:118` and `fs.c:327` say that `iput()` frees it. `BlocksOwned`
  counts such an inode as the owner of its blocks; no property here demands that
  it is freed.
- When blocks, inodes, the inode cache or a directory are full, `balloc()`,
  `ialloc()`, `iget()` or `dirlink()` panics, as `usertests.c:1646` says of the
  first. `NoContradiction` is about the other panics.
- `create()` and `link()` may enter a name in a directory removed since they
  looked it up; the name is lost with it and leaves the count too large
  (`LinksCounted` allows just that).
- The `..` of a removed directory is not counted. When the parent is freed too,
  a path through it panics with `ilock: no type` (the exception of
  `NoContradiction` and `NamesLead`).

Memory below `p->sz`
- `sbrk(-sz)` frees all pages, then reports an error because the new size 0 is
  taken for one, and leaves `p->sz`. `sbrk(-n)` with `n > sz` wraps around and
  does nothing. A failed `allocuvm()` keeps the page tables it made.

## Not modelled

- File-backed mappings: `sys_mmap` reads the file's first page into every page
  of the area and `sys_munmap` writes the area back before its loop. It would
  join `Mmap` with `Fs`, whose
  state spaces do not multiply within TLC's reach; no property here depends on
  the contents of a page.
- `memide.c`, not linked by default; boot code, interrupt controllers and
  multiprocessor tables: hardware set-up executed once.
- The GDT, segment registers, the kernel half of the page table, trap vectors
  and `swtch.S` other than as the change of thread; `getcallerpcs`, `procdump`,
  `cprintf`: they change no modelled state.
- The UART, the keyboard map and VGA memory other than the cursor: device I/O.
- The parser of `sh.c`, the other user programs and the C library: text
  processing without shared state.
- Reads that change nothing: `fstat`, `getpid`, `uptime`.
- `malloc()` of sizes near 2^32, whose rounding overflows; a program with a
  heap is taken not to shrink its memory under it.
- Which process collects a zombie is in `Proc`; in `Vm` any zombie may be
  collected at any time.
