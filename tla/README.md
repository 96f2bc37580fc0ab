# Orthox-64: a TLA+ verification project

Orthox-64 is a Unix-like kernel in C for x86_64, aarch64 and riscv64, with a
journalled file system, several CPUs and Linux-compatible system calls. This
directory models the parts of it whose correctness depends on interleavings,
interrupts, crashes and limits, checks them with TLC on small instances, and
proves the most important properties with TLAPS for every instance.

    tlc -workers 2 -config MCSched_safety.cfg MCSched     # one run
    tlapm Xv6LogProofs.tla                                # one module of proofs

`PROJECT.json` lists the runs, the lines of source each definition stands for,
the mutations each property detects, the hazards and the theorems.

## 1. Inventory

| part | state | operations | what is hard | what makes it correct | here |
|---|---|---|---|---|---|
| journal, `xv6log.c` | `lg`, staging buffer, log area, header, pinned buffers | begin_op, end_op, write, flush, commit, recovery | power failure anywhere, commit without a lock, absorption, failing runs | all or nothing after a crash; room for every declared write; no operation open during a commit | `Xv6Log`, `AtomicDisk`, proofs |
| buffer cache, `xv6bio.c` | buffers, LRU list, sleep locks, pins | bread, bwrite, brelse, pin, unpin | all buffers in use; recycling | one buffer per block; a buffer is recycled only when disk agrees | in `Xv6Log`: contents, pins, recycling |
| inodes and directories, `xv6fs.c`, `fs.c` | inode table, inode locks, names, link counts | create, open, close, link, unlink, rename, mkdir, rmdir, truncate, list, stat, iput | lock order, last iput, journal space held while waiting | links count names; no name leads to a free inode; no deadlock | `Inode` |
| scheduler, `sched.c`, `task.c` | run queues, `current_task`, `on_cpu`, saved contexts, deadlines | schedule, context switch, wake, mark blocked, tick, reap | the lock is dropped before the old context is saved | a task is run by one CPU at a time and is never lost | `Sched`, proofs |
| processes, `sys_task.c`, `task.c` | parent numbers, zombies, the wait4 queue | fork, exit, wait4, kill, interrupt key | pointers used after the unlock; death from outside | one reaper per zombie; no zombie without a parent | `Process` |
| wait queues, completions, `wait.c` | lists of waiters | wait_event, wait_event_timeout, wake_up, complete | lost wake-ups, stale pointers | no sleeper is forgotten | `WaitQueue`, used by `VirtioBlk`; in `Process` and `Xv6Log` step by step |
| pipes, open files, `fs.c` | ring, wait arrays, reference counts | read, write, ppoll, fork, close | wake-ups after the unlock, full wait arrays, unlocked counts | stream intact, end of file arrives, counts exact | `Pipe`, proofs |
| FIFOs, `fs.c` | registry of names | open, close | rendezvous, counts ahead of references | as for pipes | not modelled |
| exec cache, `fs.c` | entries, `in_use`, stale flags | get, free, invalidate | reliance on the big kernel lock | no entry freed while read, no stale image | not modelled |
| block driver, `x86_64/virtio_blk.c` | request slots, completions, used ring | submit, interrupt, time-out, stop | late answers, a slot used again | an answer reaches its own request; every request returns | `VirtioBlk` |
| bottom halves, `bottom_half.c` | ring of 64 entries | queue, run | full ring, idle CPUs without the big lock | nothing lost | in `VirtioBlk` |
| physical pages, `pmm_core.c` | bitmap, 16-bit counts, starting point | alloc, free, incref | wrap-around, runs across the starting point | free means unused; a request fails only when nothing fits | `Pmm`, proofs |
| address spaces, `vm_cow.c`, `sys_mmap.c`, `vmm.c` | page tables, TLBs, heap and mmap limits | fork, fault, mmap, munmap, mprotect, mremap, brk, exec, exit | faults of two sharers at once, stale translations, running out of pages half way | sharers never see each other's writes; counts exact | `Memory` |
| signals | pending sets, masks, handlers | kill, sigaction, delivery | delivery while blocked | none lost | effect on task states only |
| big kernel lock | owner, depth | enter, leave, yield | interrupts, nesting | as a lock | in `VirtioBlk`; as a constant of `Pipe` |
| consoles, sockets, USB, timers | rings, waiters | read, interrupt | lost wake-ups | no sleeper is forgotten | interrupt key only |
| boot, traps, drivers, VFS tables, `user/`, `ports/` | hardware registers, tables fixed at boot | | | | not modelled |

How the parts meet: a task enters a component through a system call; x86_64
takes the big kernel lock on the way (`syscall.c`), aarch64 and riscv64 do not.
Kernel mode is not preempted on any of the three: a task leaves its CPU only in
`kernel_yield`, and an interrupt only switches tasks on its return to user mode.
Components put tasks to sleep and wake them with `task_mark_*` and `task_wake`
(the scheduler), usually through a wait queue; the file system is the journal's
client and the journal the buffer cache's.

## 2. The file system

### The journal: `Xv6Log`, `AtomicDisk`

A task brackets its block writes with `xv6log_begin_op` and `xv6log_end_op`.
Blocks it logs stay pinned in the buffer cache and are only listed in `lg.lh`;
a later `begin_op` that does not fit, or `sync(2)`, commits the whole group:
log area, header (the commit point), home blocks, empty header. Mounting
replays a header that lists blocks.

`Xv6Log` has one action per step of these functions that another task, the
device or a power failure can observe. `outstanding`, `reserved`, `committing`
and `lh` are `struct xv6log`; `stage` is the staging buffer from which whole
runs of consecutive blocks are written; `cache` and `pinned` are what the
journal sees of `xv6bio.c`; `disk`, `logarea` and `head` are what survives a
crash. While a command is being executed the device may leave anything in the
blocks it covers; the header is 508 bytes, one sector, and is written
atomically. A failing multi-block command falls back to single blocks, as in
the code. A caller is assumed to dirty at least one block fewer than it
declares (`Slack`): `xv6log_write` asserts room even for a block that is
already listed.

`AtomicDisk` is what the journal promises: writes of overlapping operations
become durable all at once, at a moment when none is open, and a crash takes
the disk back to the last such moment. `CrashAtomic` states that `Xv6Log`
implements it, under the mapping `Recovered` (what the next mount makes of the
disk) and `Seen` (what a task reads).

| run | instance | shows |
|---|---|---|
| `log_crash` | 2 tasks, 2 blocks, 2 values, log of 4, failing runs | `CacheAgrees`, `CrashAtomic`: crashes at every step, in recovery too |
| `log_admission` | 2 tasks, 4 blocks, declarations 0, 2 and 5 against a log of 4, no crashes | `TypeOK`, `LogHasRoom`, `CommitIsAlone`, `ReservationExact`, `BeginReturns` |

Two blocks make a run; four log slots let two operations that both write be
open at once, and four blocks can fill them; declarations below 1 and above the
log exercise the clamp. Fairness (`LiveSpec`):
a task inside the journal goes on, the device finishes, an operation ends;
nothing is assumed of new operations, so `BeginReturns` is stated for the time
when none overtakes the waiter (the code lets small operations overtake a large
one). Power failures are left out of `log_admission`, whose safety properties
are proved with them below.

### Proofs about the journal

Five modules, each building on the one before: `Xv6LogProofs` (1 below),
`Xv6LogContentProofs` (2), `Xv6LogCommitProofs` and `Xv6LogCrashProofs` (3: the
steps that write whole runs, then all others), `Xv6LogAtomicProofs` (4). All
of it holds for any finite set of tasks, any block numbers, values and
declarations, and any log size.

1. `AdmissionInvariant`. `LogHasRoom` alone is not inductive: that the log has
   room for the next write depends on what all open operations may still log.
   `AdmissionInv` adds `Budget` (blocks listed plus blocks promised and unused
   fit in the log), `Declared` (an open operation has logged fewer blocks than
   it declared) and `Control` (where tasks may be while `committing` is set
   or the system is down). Counting is by cardinality of the set of promised
   (task, slot) pairs. From it: `RoomForEveryWrite`, `CommitsAlone`,
   `ReservationsExact`.
2. `ContentInvariant` adds where data is: a listed block is pinned and cached
   until installed (`PinInv`), the staging buffer is whole wherever it is
   read (`StageInv`), the run being written consists of consecutive
   blocks inside the list (`RunInv`). From it: `TypeCorrect`.
3. `CrashInvariant` says for every position in a commit or a recovery which
   positions of the log area and which home blocks already hold the
   transaction (`StepInv`), what the header on disk may list (`HeadInv`), and
   that an unlisted buffer agrees with the disk (`AgreeInv`). From it:
   `CacheAgreesAlways`.
4. `JournalIsAtomic` then takes every step to a step of `AtomicDisk` or to a
   stutter: the header write is the commit, everything else in a commit or a
   recovery changes neither `Recovered` nor `Seen`.

The theorems of 3 and 4 assume `EvictUnwritten = FALSE`: no buffer is recycled
between being unpinned and being written. Section 6 shows that the assumption
is needed. `BeginReturns` is a liveness property and stays with TLC.

### Inodes and directories: `Inode`

The calls of `fs.c` that reach the file system, down to inode locks: `touch`,
`open`, `close`, `write`, `stat`, `list`, `create`, `truncate`, `link`,
`unlink`, `mkdir`, `rmdir` and `rename`, run in parallel by processes without
the big kernel lock. A call is a sequence of small steps: `pc` says where it is,
and `todo` lists the locks, references and journal operations it takes and gives
back next, one step each; every early return of the code has its own `todo`.
`inode` is the table in memory, `dinode` what `xv6fs_iupdate` has written; `par`
is a directory's `..`. A path is a sequence of names, a file is empty or not. An
operation declares `SMALL` or what `xv6fs_itrunc_need` computes or the whole log,
and waits as long as that does not fit next to what is declared already. A full
disk makes the writing of a name fail (`Fails`).

| run | instance | shows |
|---|---|---|
| `inode` | 2 processes, 3 calls out of 20, 5 inodes, 3 names, log of 3, full disk | `TypeOK`, `RefExact`, `NamesLive`, `LinksExact`, `PutNeverWaits`, `NoDeadlock` |
| `inode_image` (violated) | the same, all directories from the image | `NamesLive`: directories of the image do not count their subdirectories |

Two processes close every cycle of two locks, or of a lock and the journal;
the tree has a directory whose number is below its parent's, so that locking by
number and locking from parent to child differ, and one free inode number,
which is soon used again. The third call is what one of the two does after the
race. `begin_op` does not keep how many blocks the log holds already, which is
sound for safety since the first to come when no operation is open may write them
out; for the same reason `NoDeadlock` takes whoever begins an operation while
another one of the group has one open to be waiting for it.

## 3. Scheduling and devices

### The scheduler: `Sched`

Every critical section of `g_task_lock` is one step. A switch is three:
`ScheduleSwitch` publishes the next task and drops the lock, `ContextSwitch` saves
and loads registers, `FinishSwitch` (on the new stack) clears `on_cpu` of the
old task; all other CPUs run in between. `saved` tells whether a task's context
is the one to continue with, `stack` whose kernel stack a CPU executes on.
Tasks fork, yield, block with and without deadline, exit, are killed, and reap.
`task_wake` may reach a task that is not asleep (a waker that took it off a
queue earlier): the number of such stale wake-ups is bounded by `MaxStale`.

| run | instance | shows |
|---|---|---|
| `sched_safety` | 2 CPUs, 3 tasks, kills, 1 stale wake-up | `RunqExact`, `NoTaskLost`, `OneStack`, `FreshContext`, `ReapedIsUnused` |
| `sched_queue` | 1 CPU, 3 tasks | `ReadyRuns`, `DeadlineWakes` |
| `sched_reap` | 2 CPUs, 2 tasks | `ReapReturns` for tasks that exit by themselves |

Two CPUs are the smallest instance of every race above; the third task is the
one that is switched to while the other two race. Fairness: a CPU in kernel
code goes on, timer interrupts keep coming, the resched flag is acted on when a
CPU returns to user mode again and again (strong fairness of `Preempt`, since
kernel mode comes and goes in between), and CPU 0 polls deadlines (strong, for
the same reason). No task is obliged to yield.

### Proofs about the scheduler

`SchedProofs` proves the five properties of `sched_safety` for any set of CPUs and
tasks and any number of stale wake-ups. None is inductive alone; together with
`TypeOK` and `NoTaskLost` the invariant `IInv` consists of

- `Queues`: a queue holds a task at most once and only tasks whose `cpu_affinity`
  is its CPU, and being READY is being on that queue;
- `Owned`: whatever task a CPU uses, as `current_task`, as the task it is
  switching from or as the stack it is on, is its own idle task or one whose
  affinity is this CPU, and has `on_cpu` set. This is where the rule against
  moving a task at wake-up comes in: a task keeps its affinity from fork to reap,
  so that two CPUs cannot use the same one;
- `Phases`: which stack a CPU is on before, between and after the steps of a switch;
- `Contexts`: a task without a saved context is being executed by some CPU;
- `Callers`: `task_reap` has an argument, pid 1 and the idle tasks are not freed.

`OneStack` and `RunqExact` follow from `Owned` and `Queues`, `FreshContext` from
`Phases`, which needs `Contexts` for the task just popped: it was on no stack, since
the only CPU that may use it is the one that popped it. `ReapedIsUnused` follows from
`Owned`, because `task_reap` frees only what has left its CPU (`on_cpu` clear); the
order in `FinishSwitch`, which clears the flag only on the new stack, is what
makes `Owned` hold. One lemma for each group of actions and conjunct
(`SwitchKeeps`, `FinishKeeps`, `ForkKeeps`, `ReapKeeps`, `WakesQueues`, ...) keeps
the case analysis in one place.

Left out: load rebalancing beyond the placement of new tasks, tie-breaking
among equally loaded CPUs (left open), floating-point state.

### Wait queues, bottom halves and the block driver: `WaitQueue`, `VirtioBlk`

`WaitQueue` has the list operations of `wait.c`; `VirtioBlk` uses them for the
queue of tasks that want a request slot and for the completion of each slot.
Tasks enter `vblk_request` with the big kernel lock, give it up in
`kernel_yield` and take it again before they go on; interrupts take it too; the
idle loop runs bottom halves without it. Each critical section of a spin lock is
a step, so `vblk_reclaim_used` is one step for the used ring and two for
each answer it has collected: completing, and waking one waiter, which is off
the list before it is woken. A deadline passes at any time, a buffer is
transferred in up to `MaxChunks` pieces, the ring of bottom halves may be full.
The device may finish with an error, late, after it was told to stop, or never.

| run | instance | shows |
|---|---|---|
| `virtio` | 2 tasks, 1 slot, 1 bottom half, 1 request each of up to 2 pieces | `TypeOK`, `OneQueue`, `SuccessServedWhileReady`, `RequestReturns` |

With one slot for two tasks the second waits for the slot the first gave up on,
and a late answer finds the slot in other hands. `served` is a history of whether
the device did what the task's present request asks. Fairness: running tasks go
on, an interrupt ends, time passes (weak); the timer interrupt and a task that
was woken get the big kernel lock if it is free again and again (strong). The
device is owed nothing, and no task need call; a system where all is done may
stop, so deadlock is not checked. `wake_up_one` takes the last to arrive: with
requests without end a task could wait for ever, and `RequestReturns` rests on
the bound of requests.

## 4. Processes and memory

### Processes: `Process`

One action per critical section of `g_task_lock` or of the wait queue's lock in
`sys_exit`, `sys_wait4`, `task_reap_orphans_of`, `task_reap`,
`wait_event_timeout`, `wake_up_all`, `task_signal_pid` and the interrupt key's
handler, without the big kernel lock, as on aarch64 and riscv64. Of scheduling
it keeps only whether a process has a CPU (`exec`). A process number is used
once; `Killed` are the processes that `kill(2)` or the interrupt key may hit,
`MaxStrikes` bounds how often that happens.

| run | instance | shows |
|---|---|---|
| `process` | 3 processes, one may be killed, one kill or interrupt | `OneReaperUntilKill`, `ParentAliveUntilKill`, `ZombieHasParentUntilKill`, `FreedNotRunning`, `WaitNotices` |

The three properties named `...UntilKill` say that the arguments in the comments
hold as long as processes die by `exit`; section 6 says what becomes of each
once a process is killed from outside. Three processes are pid 1, a parent and
its child. Four without kills (`Proc = {p1, p2, p3, p4}`, `Killed = {}`,
`MaxStrikes = 0`, `SPECIFICATION Spec`, `SYMMETRY Alike`) are two children of one
parent or a chain of four, and satisfy `OwnZombie`, `ParentAlive` and
`ZombieHasParent` too; TLC takes longer for them. Fairness: code in the kernel goes on,
a ready process gets a CPU (`ReadyRuns` of `Sched`), deadlines are polled
(`DeadlineWakes`). User mode promises nothing. Deadlock is not checked: the
handler of the interrupt key can bring the system to a standstill.

### Pages and address spaces: `Pmm`, `Memory`

`Pmm` is the page allocator. Each of its operations runs under `g_pmm_lock`, so
they are functions on a record: the bitmap as a set, the counts, `g_used`, and
`g_next_page`, from where a search goes round. Page 0 is never handed out and
stands for a null pointer.

`Memory` is what processes do with pages: fork shares leaf by leaf
(`vm_cow_share_leaf`), a store to a shared page faults and copies or takes over
(`vm_cow_write_fault`), `mmap`, `munmap`, `mprotect`, `mremap` and `brk` change
the page table page by page and flush, `execve` builds a new space and leaves
the old one to be destroyed later, `exit` and reaping give back the rest. Each
of these is a sequence of steps with those of other processes in between, and
every allocation may find nothing left, half way through included. `view` is a
history of what a process must find at each address, `lost` and `orphans` of
pages that no code path can free any more. A page holds one value, the tables
of one space are one page, and a kernel stack includes the task structure.

| run | instance | shows |
|---|---|---|
| `memory` | 2 processes, 13 pages, 6 addresses, 4 calls or stores | `Private`, `SharedNeverWritten`, `RefExact`, `BitmapExact`, `ClaimFindsRun` |

Four operations are a fork, stores by both sides and a call that moves or gives
back a shared page; 13 pages suffice for two processes and run out in the
course of a second exec or a larger mapping. The behaviour ends with the
operations, so deadlock is not checked.

`MemoryProofs` proves `BitmapIsExact` and `ClaimIsComplete` for any number of
processes, any memory size and any layout. `BitmapExact` is not inductive: it
would let a reserved page have a count, and the last free of such a page clears
its mark. The invariant `PmmInv` adds that reserved pages have no count, and the
types of the record; one lemma for each operation
of the allocator (`AllocInv`, `FreeInv`, `IncrefInv`) shows that it keeps
`PmmInv`, and every step of `Memory` composes these. `IncrefInv` needs that only
pages with references are shared, which `vm_cow_share_leaf` tests itself. `ClaimComplete` is
the argument about searching in two stretches: a run that begins before the
starting point ends at most n - 1 pages beyond it.

## 5. Pipes: `Pipe`

One anonymous pipe: ring, two wait arrays, the open file of each end, and tasks
that read, write, poll, fork and close. A critical section of `pipe->lock` is
one step; waking the tasks taken from an array comes after the unlock, one by
one. Loading and storing an open file's reference count are separate steps;
`BigKernelLock` says whether another system call can come in between. Bytes are
numbered in the order written (`MaxSent` bounds them), so that order, loss and
duplication are visible. `Timeouts` says whether `ppoll` is called without a
timeout (`FALSE`), with one (`TRUE`), or both. A read or write asks for up to
one byte more than the ring holds.

| run | instance | shows |
|---|---|---|
| `pipe_stream` | 3 tasks, ring of 2, 3 bytes, big kernel lock | `TypeOK`, `StreamIntact`, `WakePending`, `RefExact` |
| `pipe_eof` | 2 tasks, `ppoll` with and without timeout | `EndReaches` |

Three bytes through a ring of two wrap both positions. The wait arrays hold
four tasks in the code; the runs give every task a place. Fairness: a task in
the kernel goes on, deadlines are polled; nobody is obliged to read, write or close. All tasks
may have closed everything or be waiting for each other, so deadlock is not
checked.

`PipeProofs` proves the four properties of `pipe_stream`, for any finite set of
tasks, any ring and any sizes of reads and writes.

- `StreamStaysIntact`. `Ring` adds to `StreamIntact` the ranges of the positions and
  `write_pos = (read_pos + count) % PIPE_BUF_SIZE`. A write puts byte `Ahead(i)`
  of its loop at `buffer[i]`; lemmas on positions going round (`Advance`, `Place`,
  `Distance`) say that this leaves the bytes not yet read alone and that the
  new ones come next. It needs no lock but `pipe->lock`.
- `WakesArePending`, as long as `FS_WAITQ_MAX` places are enough for all tasks (with
  fewer it is false, section 6), with and without the big kernel lock. `Waits`
  strengthens it: a sleeper is in the wait array of its end with nothing to do, or on
  somebody's list. Added are the types, that a task outside `pipe_wake_list` has an
  empty list, and that a child under construction is not running.
- `CountsAreExact`, under the big kernel lock (false without, section 6). `Loads`:
  at most one task is between the load and the store of a count, what it has loaded is
  the count, and the count is the number of descriptors. `Closed`: `ref_count`
  is the number of open ends, one task at a time is releasing an end, and only one
  that nobody holds.
- `TypesHold`, under the big kernel lock, from the three invariants above.

## 6. Disagreements between code and comments

One is a run with an expected violation, described under `findings` in
`PROJECT.json`: `inode_image`. The image builder gives every directory a link
count of 1, whatever subdirectories it has; `rmdir` and `rename` of the kernel
lower the parent's count for each subdirectory that goes, and a parent whose
count has come to 0 is freed with names still leading to it. That put comes
after `end_op`: in the trace another process has an operation open, so that the
free is written; with none open, `KASSERT(lg.outstanding >= 1)` in
`xv6log_write` (`xv6log.c:470`) stops the kernel at the free, which is the guard
`Outstanding` of `Frees`. Directories made by `mkdir` count right, which is what
`inode` checks.

The model has others. Each is seen by changing the named configuration as given
and checking the one property; TLC finds the violation within a few minutes.

| configuration | change | property | the code | what it contradicts |
|---|---|---|---|---|
| `MCXv6Log_crash` | | `FlushDurable` | `xv6log_flush` returns without writing when it meets an open operation or a commit | `include/xv6fs.h:310`, `xv6log.c:315`: what was logged is always written |
| `MCXv6Log_crash` | `EvictUnwritten = TRUE` | `CacheAgrees` | `install_trans` unpins a run's buffers before it writes the run; one that is recycled and read back in between keeps the old contents. It takes a cache so busy that a buffer just released is recycled at once | `xv6log.c:155`: the cache and the disk agree |
| `MCInode_ok` | | `NeverStuck` | listing a directory locks the child with the parent locked; `rename` locks by number, so the two can wait for each other | |
| `MCInode_ok` | | `InTransaction` | several calls put their inode after `end_op`; if that is the last reference to a file without names, it is freed outside any operation | `xv6log.c:470`: `KASSERT(lg.outstanding >= 1)` |
| `MCInode_ok` | | `NoNamesLost` | `xv6fs_rmdir_path` does not look whether the directory holds names, and they go with it | `riscv64/fs.c:971`: what it refuses is in effect a directory that is not empty |
| `MCInode_ok` | `Calls <- MCCross` | `Acyclic` | `rename` compares paths and walks them before it takes `g_rename_lock`; two that cross make a directory its own ancestor | `xv6fs.c:1673`: the caller has ruled out a move below itself, by a prefix test on the paths |
| `MCInode_ok` | `Calls <- MCEmptied`, `MaxCalls = 4` | `NamesLive` | a directory can be truncated, which loses its `..`; `rename` then moves its name but stops before it adjusts the parents' counts, and `rmdir` lowers the new parent's to 0 | `xv6fs.c:399`: `KASSERT(ip->type != 0)` |
| `MCVirtioBlk_ok` | `SPECIFICATION Spec` | `SuccessServed` | an answer that an idle CPU took from the ring just before the time-out completes the slot's next request, which the stopped device never saw | `virtio_blk.c:228`: from then on every read and write is -1 |
| `MCMemory_ok` | `g_pages = 9` | `NoPageLost` | a `brk` that runs out of pages half way leaves those it has mapped beyond the heap's end, where a later `brk` maps others over them | `sys_mmap.c:513`: they only cannot be seen |
| `MCSched_reap` | `Killable <- MCKillable2` | `ZombieLeavesCpu` | the tick does not preempt a killed task | `task.c:1066`: a zombie always gets off soon |
| `MCSched_reap` | `Killable <- MCKillable2`, `SPECIFICATION Spec` | `ZombieIsFinal` | `task_mark_*` overwrites ZOMBIE when a killed task next blocks (`task.c:478`), and the task lives on | `linux_syscall.c:341`: made a zombie at once |
| `MCProcess_life` | `Killed = {}`, `MaxStrikes = 0` | `ExitCompletes` | `wake_up_all` pops until the queue is empty, while a woken parent queues itself again | `task.c:1066`: a zombie always gets off soon |
| `MCProcess_life` | `Killed = {p2, p3}` | `IntrReturns` | the handler of the interrupt key spins in `task_reap` on the process it interrupted | `task.c:1066`, the same |
| `MCProcess_life` | `Killed = {p2, p3}` | `OwnZombie` | the handler and a killed parent inside wait4 reap the same child | `task.c:1036`: only the parent can reap the task returned |
| `MCProcess_life` | `Killed = {p2}` | `ZombieHasParent` | the interrupt key hands the children of a killed process over after it may have been reaped, `task_signal_pid` never | `task.c:818`: the orphan rule keeps parentless zombies from piling up |
| `MCProcess_life` | `Killed = {p2}` | `ParentAlive` | a killed parent is reaped between the exiting child's look-up and its use of the pointer | `task.c:908`: while the child is there the parent is not reaped |
| `MCPipe_stream` | `BigKernelLock = FALSE` | `PollWakePending` | a wake-up that comes while the poller is still running uses up its registration; if another reader then takes the data before the second look, the poller sleeps unregistered | `linux_syscall.c:647`: an event after the registration always wakes |
| `MCPipe_stream` | `BigKernelLock = FALSE`, `MaxSent = 0` | `RefExact` | `fs_file_get` and `fs_file_put` change the count without a lock, also where system calls do not take the big kernel lock | `task_fork.c:35`: the big kernel lock serializes it |
| `MCPipe_eof` | `Task = {t1, t2, t3}`, `FS_WAITQ_MAX = 1`, `MaxSent = 0` | `EndReaches` | `fs_read` and `fs_write` ignore a full wait array and sleep without a deadline | `include/fs.h:93`: on overflow the caller sleeps with a deadline |

## 7. Model-checked only

The properties of `Process`, `VirtioBlk` and `Inode`, and of
`Memory` what is about contents and reference counts (`Private`,
`SharedNeverWritten`, `RefExact`): nothing stands in the way of proving them but the
size of their invariants. All liveness properties: temporal reasoning
with fairness is outside the prover's reach.

`TypeOK` of `Sched`, `Process` and `Memory` is stated for the reader and is not
among the runs' invariants; it holds in the same configurations, and that of
`Sched` is part of the invariant proved.

## 8. What would come next

1. `Fifo`: the registry raises its counts before the pipe's own reference count,
   and an opener waits in between; over the open files of `Pipe`.
2. `ExecCache`: an image read into the cache while the file is being written;
   the writer invalidates the path before the entry exists.
3. `Xv6Bio` (LRU, sleep locks of buffers) between `Inode` and `Xv6Log`, so that
   the blocks the log holds and the buffers readers hold count against each
   other.
4. Console input, sockets and signals with masks and handlers.
5. Pure algorithms as functions: block map, directory search, `itrunc`'s
   estimate against what truncation really logs.
6. Proofs: `RefExact` and `Private` of `Memory`, `RefExact` and `LinksExact` of
   `Inode`, the properties of `Process` up to a kill, `OneQueue` of `VirtioBlk`.

## 9. Not modelled

Register-level drivers, boot and trap entry, the framebuffer, sound and USB
hardware protocols, lwIP, user programs and ports: straight-line hardware
set-up, third-party code, or input and output with no protocol of the kernel's
own. Data conversions (stat formats, path syntax, printf) are left out where no
property depends on them. Failures of single-block disk commands are not
modelled: the code logs them and goes on, so nothing the journal does depends
on them, and no property could hold.

Left out of parts that are modelled:

- `Inode`: symbolic links, `.` and `..` in paths, `mknod` of a FIFO
  (`xv6fs.c` 1293-1343), truncation to a length other than 0, descriptors shared
  by fork (in `Pipe`), `O_TRUNC` and `O_APPEND`; the contents of files.
- `VirtioBlk`: the other block drivers, which poll; set-up of the queue.
- `Memory`: x86_64's own copy of fork, which does not look whether an
  allocation failed (`x86_64/vmm.c` 210-276); growth of the stack by faults on
  aarch64; a page table that cannot be extended, which stops the kernel
  (`riscv64/vm.c` 255-258); contents of file mappings; threads that share an
  address space. Page tables are counted as on riscv64 (`riscv64/vm.c`):
  aarch64 claims and releases them without a reference
  (`aarch64/vm.c` 198, 857, 1037), so there `BitmapExact` and the tables' term
  of `RefExact` say nothing of tables. `Pmm`: marking pages at boot other than
  by the memory map, and that claim without references.
- `Sched`: load rebalancing and floating-point state.
- FIFOs and the exec cache: their hazards are listed, a module each would be
  next.

`PROJECT.json` gives the reason for every part.
