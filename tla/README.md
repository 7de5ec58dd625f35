# A verification of the lab8 kernel

The repository holds eight stages of ucore, a teaching kernel for the i386, each one
containing the one before. This project models the last stage, `src/lab8`, in TLA+,
checks it with TLC and proves its main safety properties with TLAPS. Paths below are
relative to `src/lab8`.

## 1. The system

### Components, their state and their operations

| component | source | state | operations |
|---|---|---|---|
| life of a process | `kern/process/proc.c` | `proc_struct`: state, wait_state, flags, parent and sibling links, kstack, mm, files; `proc_list`, `nr_process`, `current` | do_fork, do_exit, do_wait, do_kill, do_yield, do_sleep, do_execve, kernel_thread, init_main, cpu_idle |
| scheduler core | `kern/schedule/sched.c` | run queue, list of timers | wakeup_proc, schedule, add_timer, del_timer, run_timer_list |
| stride class | `kern/schedule/default_sched.c` | skew heap of processes by stride | enqueue, dequeue, pick_next, proc_tick |
| traps | `kern/trap/trap.c` | `current->tf` | trap, trap_dispatch, page-fault entry |
| wait queues, semaphores, monitors | `kern/sync/` | value and queue of a semaphore; count, next_count | up, down, cond_wait, cond_signal |
| stdin | `kern/fs/devs/dev_stdin.c` | ring of characters, wait queue | dev_stdin_write (interrupt), dev_stdin_read (blocks) |
| files of a process | `kern/fs/file.c`, `sysfile.c`, `fs.c` | descriptor table, open_count | open, close, read, write, seek, dup, dup_fs |
| virtual file system | `kern/fs/vfs/` | inodes with ref_count and open_count, devices | vfs_open, vfs_close, lookup, mount |
| simple file system | `kern/fs/sfs/` | free map, inode cache, block map of a file | load, create, read, write, truncate, sync |
| physical memory | `kern/mm/pmm.c`, `default_pmm.c` | list of free blocks | alloc_pages, free_pages, page_insert, page_remove |
| virtual memory and swap | `kern/mm/vmm.c`, `swap*.c` | vma list, page tables, FIFO list | mm_map, do_pgfault, swap_out, swap_in, dup_mmap |
| kmalloc | `kern/mm/kmalloc.c` | list of free units, list of big blocks | kmalloc, kfree |
| drivers, console, debugger, boot, tools, user programs | | | I/O, or one pass of initialisation |

### How they interact

There is one CPU. Every gate of the IDT is an interrupt gate, so a system call runs
with interrupts off and gives up the CPU only by calling `schedule()`. A trap from user
mode ends in `trap()`, which exits a process that has PF_EXITING and calls `schedule()`
if need_resched is set; a trap from kernel mode returns at once, so a kernel thread is
interrupted but never preempted. Components share state (the process table, the run
pool, the list of timers, wait queues) and call each other directly; the only
callbacks are the scheduling class, the operations of inodes and the interrupt handlers:
the timer interrupt enters `run_timer_list`, the keyboard interrupt `dev_stdin_write`.
Both wake processes.

A call on a file runs through the descriptor table of the process, `vfs_open` or the operations
of an inode, and sfs, which reads and writes blocks by polling the disk: it never sleeps, so calls
on files do not interleave, except that a read of stdin sleeps. What they share between
calls are inodes, by counted references, and the free map. Processes share the
page frames; `do_fork`, `do_execve`, `do_exit` and `do_wait` take and return them.

### What is hard

* Interleavings: a wakeup, a kill or an exit between the moment a process marks itself
  SLEEPING and the one it is off the CPU, or between its wakeup and its next step.
* Life times: timers and wait-queue entries are local variables of the sleeping call,
  and a `proc_struct` is freed by another process than the one it describes.
* Hand-over: `up` gives its unit to a waiter, `cond_signal` gives it the monitor.
* Relative times in the list of timers; strides that wrap around; pids that wrap around.
* Partial failure: a disk that fills up in the middle of a write or of a truncation, a program
  that cannot be loaded after the old one is gone and while its arguments are held, an open that fails
  behind the lookup.
* Stale state: the position of a descriptor after another one has truncated the file; the inode on
  disk when the last descriptor goes; the bound `next_safe` of get_pid.
* Long sequences: blocks and frames given back in any order and used again.
* Liveness: orphans, sleepers, killed processes and hungry philosophers.

`PROJECT.json` lists these hazards with their lines; those no property covers yet say so.

### What makes each component correct

* Process life: a wakeup is neither lost nor duplicated; nothing refers to what has been
  freed; every process has a live parent; only its parent reaps a zombie, and every
  orphan is reaped in the end; no assertion fails, and nothing but a kill of init makes init exit.
* Timers: a sleep lasts as long as asked for, whatever is added and deleted meanwhile.
* Semaphores and monitors: one owner, no stored signal, nobody waits for ever.
* Stride: processes get the CPU in proportion to their priority; the order of strides
  stays total when they wrap.
* Files and vfs: the counts of an inode are exactly its users; an inode is in memory as long as it
  has one and no longer; no assertion about a count fails but the limit on references.
* sfs: the free map marks exactly the blocks no file holds, no block is in two places, lengths
  survive closing and reloading; the assertions about blocks hold, or it is known when not.
* Memory: a frame is free or in one place of one process; free frames are merged; pids differ.

## 2. Modules

| module | models | composed with |
|---|---|---|
| `Process` | process life, scheduler core, return of traps, blocking reads of stdin | refines `SleepTimers` |
| `SleepTimers` | abstract: what do_sleep promises | |
| `TimerList` | the list of relative times | refines `SleepTimers` |
| `Semaphore` | up and down among kernel threads | extended by the next two |
| `Monitor` | condition variables and the philosophers that use them | refines `Dining` |
| `Philosophers` | the philosophers with semaphores | refines `Dining` |
| `Dining` | abstract: what both promise | |
| `Stride` | the stride class on its skew heap, under schedule and wakeup_proc | refines `StridePool` |
| `StridePool` | abstract: the order of strides that wrap around | |
| `Sfs` | block map and free map of regular files, on disk and in memory | refines `FileLengths` |
| `FileLengths` | abstract: what becomes of the length of a file | |
| `Files` | descriptor tables, reference and open counts, which inodes are in memory | |
| `DefaultPmm` | first fit with splitting and merging, as operators | extended by the next |
| `Fork` | pids, kernel stacks and the frames of processes | |
| `MC...` | constants and symmetry for TLC | |
| `...Proofs` | theorems | extend the module they are about |

### Process

A slot of `Proc` is a possible `proc_struct`; its state is "UNINIT" while it is not
allocated. `state`, `wait_state`, `exiting`, `parent` and `nr_process` are the fields of the
same names (PF_EXITING for `exiting`); `rq` is the run pool as a set, since the module
lets `schedule()` pick any member. `left[p]` is the time until the timer of `p`
expires; `kbdq` and `kbdWoken` are the wait queue of stdin and the wakeup flags in its entries.
`pc[p]` is the point at which `p` goes on. What a process does between two
points is one action: code between two calls of `schedule()` runs with interrupts off,
except in kernel threads, whose points are therefore split wherever interrupts are on (a tick
may come between the end of the critical section of do_sleep and `schedule()`).

`Schedule` is `schedule()`; `Tick` and `KeyPress` are the interrupt handlers;
`Fork`, `ExitCall`, `Wait`, `Kill`, `Sleep`, `Yield`, `ReadCall` and `Syscall` are the calls a user
process can make in any order; `WaitReap`, `WaitSleep`, `WaitNoChild`, `WaitWoken`, `SleepWoken`,
`ReadChar`, `ReadSleep`, `ReadWoken` and `TrapReturn` are the rest of their paths. The three `Init...`
actions are init_main, and its loop is do_wait again.

Abstractions: need_resched and time_slice are those of the current process, since both are reset
when it is picked; the argument of do_wait is `AnyChild` outside do_wait; of several
zombie children any may be reaped first; which character a read returns is left out; a call
that fails for want of memory is a `Syscall` that changes nothing. Programs name in kill()
members of `Killable`, which may be any process and init too: do_kill checks nothing about pid 1. Init, killed,
leaves do_wait for do_exit, which panics (`InitExit`). When init_main returns, the kernel stops by design;
`Halted` is that and the monitor a panic starts. Address spaces, files and
pids are not in this module, and neither are semaphores, on which only kernel threads sleep.

### TimerList

The sequence `timers` is `timer_list`, each `expires` counting from its predecessor.
Its `Left` sums a prefix of the list: the refinement mapping to `SleepTimers`. Process uses the
absolute times directly and implements the same abstract module, which is what
justifies that abstraction.

### Semaphore, Monitor, Philosophers

A kernel thread is not preempted, so control passes only in `down` (blocked), `do_sleep`
and exit: `running` is the thread on the CPU and `Dispatch` the scheduler. The length
of a sleep is abstracted: a thread that has called do_sleep may be dispatched at any
later time. The steps of `Monitor` end at every call of `up` and `down`. WT_KSEM waits are not
interruptible, so a kill does not reach them. In `Philosophers` the mutex is in fact never
contended, for want of preemption; what the module tests is the hand-over through `s[i]`.
In the monitor it is contended, because cond_signal blocks inside.

### Stride

`stride` and `priority` are the fields of proc_struct, words of `2 * Half` values; `run_pool` is
the root of the skew heap and `heap` the pointers left, right and parent of every process. `HeapMerge`, `HeapInsert` and
`HeapRemove` are the functions of skew_heap.h, the recursion of skew_heap_merge a recursive function on the
two roots: it reads the links of an entry before it writes any. skew_heap_insert clears the links of an entry before they are read
again, so `HeapRemove` clears them at once. Only the root is ever removed; that its parent is NULL is part of HeapExact.
`Reschedule`, `Sleep` and `Exit` are the three ways into `schedule()`, whose pick_next and dequeue
are `PickNext`; `Wake` and `Fork` insert a process. The processes outside `Forked` are in the
pool from the start, inserted one after the other as by a parent that then waits for them.
`StridePool` knows neither heap nor priority: somebody whom nobody comes before advances by at
most BIG_STRIDE. `Process` lets `schedule()` pick any process of the pool, so what it
shows does not depend on `Stride`, except through its fairness.

### Sfs

`din`, `dirty`, `freemap`, `superDirty` are the fields `din`, `dirty`, `freemap` and `super_dirty`; `entry[b]` holds the
pointers in block `b` when it is an indirect block, which sfs writes through; `diskDin` and `diskFree`
are what a reload would read. A call starts in one action (`Read`, `Write`, `Seek`, `OpenTruncating`)
and then makes one step for each turn of its loop (`IoBlock`, `IoNewBlock`,
`TruncateGrow`, `TruncateShrink`), until it ends (`IoEnd`, `TruncateEnd`), finds the disk full
(`IoNoRoom`, `TruncateNoRoom`) or meets a panic (`IoPanic`, `TruncatePanic`); no other
call starts meanwhile. `Close` by the last descriptor includes
sfs_reclaim: what counts afterwards is the inode on disk. `Cleanup` and `Mount` are shutdown and boot.

Abstractions: contents of blocks; directories, which only the image tool writes (sfs has no
operation that creates, links or removes a file); disk errors, since the driver's are not returned by a healthy disk. What the disk holds
of a dirty inode is replaced by `Outdated`, so that nothing can rely on it. A read at the end
of a file, a length of 0 and a failed argument check are stuttering steps. A crash without shutdown
is not modelled: the kernel has no recovery, and sfs_do_mount asserts that the super block agrees with the
free map.

### Files

`table`, `pwd`, `ref` and `opens` are the descriptor table, `filesp->pwd`, `ref_count` and
`open_count`; `cached` the hash list of sfs; `leaked` a history variable that counts references
nobody can give back. `Open`, `OpenExists` (the error path of O_EXCL), `Close`, `Dup` and `Fork` (dup_files) are one action
each. Exec and exit take a step for every reference they give back, and `call` says how far they are:

* `Exit` gives the directory back, `ExitClose` one descriptor after the other, `ExitEnd` the files_struct (files_destroy).
* `Exec` starts do_execve, `ExecClose` closes one descriptor (files_closeall), `ExecOpen` opens the program, `Load`
  closes it again. `ExecFails` goes from there to the exit. `LoadPanic` is the read of a directory as a program.

No other process acts between these steps, as interrupts are off; the invariants hold at each of them. Every operation of an inode
runs `inode_check`, both halves of it: `Broken` is the comparison of the two counts, `Full` the limit `MAX_INODE_COUNT`.
`Failure`, `GiveFailure`, `OpenFailure` and `CallFailure` say which assertion stops a call, with the references that the call
itself has taken at that point (the root while a lookup runs, the inode before it is opened, the directory in getcwd).
`Close` and the steps of exec and exit evaluate the assertions of `inode_open_dec`, `inode_ref_dec`, vop_close and vop_reclaim.
`OpenPanic` and `CallPanic` are also calls of an operation that the inode's table lacks. CLONE_FS is used by no caller, so tables
are not shared; chdir is no system call.

### DefaultPmm and Fork

`DefaultPmm` defines default_alloc_pages and default_free_pages as operators on the list of free frames
with the `property` of each, as the code keeps it (all frames are linked, the first of a block has the
size). `Fork` runs them: `Fork` takes a stack, a copy of the parent's address space and a files_struct,
`PageFault` adds a page, `Exit` and `Wait` return what there is. An address space is a set of frames: page
directory, page tables and pages in one, returned in any order. `GetPid` is get_pid with its static
`last_pid` and `next_safe`.

kmalloc of a page takes a frame and kfree returns it. `FileCall` is a call that takes the buffer of a path, a write or a read and
gives it back before it ends. A read of stdin sleeps with its buffer: `ReadSleeps` and `ReadReturns`, with `buffer` between
them, while the other processes go on. `Exec` has the whole of do_execve: copy_kargv takes a frame for each argument,
the path takes one more while the program is opened, the old frames go, load_icode takes new ones and reads the file
through a buffer, and put_kargv returns the arguments last in first out: on success (`Executed`), when load_icode fails (`ExecFails`) and when the open
fails (`ExecOpenFails`). `ExecRefused` is an argument that cannot be copied. The arguments take part in first fit, so
an exec runs out of memory where the code does. A page fault of the copy to or from a buffer is taken as a `PageFault` before the call,
except in a sleeping read, where it may come while the buffer is held. What is left out of `Frame` are the frames that the slob cuts
into smaller blocks: it never returns one.
`OutOfMemory` is alloc_page without a free frame: swap_out(NULL), where the kernel stops. For that reason
no allocation of a single page returns NULL, and of the error paths of do_fork only the one for the stack can be taken.

## 3. Runs

| run | instance | shows |
|---|---|---|
| process_kernel | two user processes, a kernel thread, all of which and init may be killed; sleeps up to 2 ticks, slices of 2, buffer of 2 | TypeOK, RunQueueExact, NoLostWakeup, StackLinksLive, NoPanic, NoDanglingProc, ParentAlive, NrProcessExact, ReapedByParent; implements SleepTimers |
| process_liveness | two user processes, no kernel thread; sleeps, slices and buffer of 1 | OrphanReaped, WaitReturns, SleepReturns, KilledSleeperDies |
| process_kill | the same | KilledDies is violated, see Findings |
| timer_list | 5 sleepers, sleeps up to 4 ticks | AssertHolds; implements SleepTimers |
| monitor | 4 philosophers, 2 meals | OneOwner, NoStoredSignal, SignalledEats, AllQuit; implements Dining |
| philosophers | 4 philosophers, 2 meals | ForksAnnounced, AllQuit; implements Dining |
| stride_pool | three processes that do not sleep, words of 12 values, priorities 0, 2 and 6 for a BIG_STRIDE of 5 | Served; implements StridePool |
| stride_sleepers | two lasting processes, a sleeper, a slot that is forked and exits; words of 8 values | HeapExact, HeapOrdered |
| stride_order | two processes and a sleeper, words of 8 values | PicksFirst is violated, see Findings |
| sfs | two files, two descriptors, 4 blocks; 1 direct and 2 indirect pointers, blocks of 2 bytes, calls of 2, seeks to 3 and 7 | FreeMapExact, NoSharedBlock, BlocksFit, PanicCause; implements FileLengths |
| files | two processes, two files, the root, stdin; 3 descriptors each, less than 6 references to an inode | RefExact, InMemory, AssertsHold |
| fork | two process structures, 8 frames, stacks of 2, up to 2 frames of memory, up to 2 arguments, pids 1 to 4 | FramesExact, AllocatesIfItCan, PidsDistinct |

Bounds. Two user processes and init give the exit of a parent whose child is a zombie or still runs, for an
init that sleeps in do_wait; ProcessProofs covers longer chains of parents. A kernel thread is in process_kernel for the code with interrupts on; the liveness runs have none, so they say nothing of a tick
between the critical section of do_sleep and `schedule()`, which only kernel threads can meet. Init is among the processes that may be killed in all three. Sleeps of
two ticks distinguish a timer that is deleted early from one that expires. Five timers give
runs of timers that expire together at the head, in the middle and at the end of the list.
Four philosophers are the least number with two that are not neighbours and may eat together;
two meals let a stored signal or a count left over show in the next round.
Strides wrap around many times in words of 8 and 12 values, and a step of BIG_STRIDE and one of about a third
or half of it give unequal distances; a circle of comparisons needs three processes. lab6_set_priority accepts priorities above
BIG_STRIDE, whose step is 0; stride_pool has one of them. Such a process keeps the CPU as long as it likes, so
Served is claimed for behaviours in which no priority stays above BIG_STRIDE (`Moderate`); ImplementsStridePool holds with them.
In sfs a write is of one block at most, since sysfile_write cuts longer ones (IOBUF_SIZE); behind a seek to 3 it covers the
end of one block and the start of the next, and can find the disk full in its middle. 3 pointers of 2 bytes are fewer than the greatest length of 8, as in the code (12 + 1024 blocks,
128 MB), and a seek to 7 asks for more than they reach, passing from the direct pointer to the indirect ones. 4 blocks are too few for two files with
an indirect block each, and just enough for one that uses all its pointers. In files the descriptor 2 is the one an exec closes, and 0 and 1 stay;
one lost reference (`MaxLeak`) shows that the others do not disturb it. `MAX_INODE_COUNT` is 6 (65536 in the code), so that two
processes reach the limit with their descriptors and directories. In fork the four pids wrap around with three processes
alive, and eight frames are too few for two processes of the greatest size, so that stacks are refused,
memory runs out, with arguments held and without, and blocks are split and merged on both sides. Two arguments are enough for the order in
which put_kargv returns them (EXEC_MAX_ARG_NUM is 32 in the code).
Every other number in the code (5 philosophers, 4 meals, 4096 processes) is larger and
is covered by the proofs where there is one.

Symmetry is used only in runs without liveness, among user processes and among sleepers.

Fairness. In `Process`: the CPU keeps executing kernel code, kernel threads and init
(weak fairness of `CpuStep`); the timer interrupt stays pending while interrupts are off
and so arrives again and again (strong fairness of `Tick`); the stride scheduler reaches every
process that keeps coming back to the pool (strong fairness of `Schedule(n)`; Served of `Stride` shows
it for processes that neither sleep nor fork and whose priorities are at most BIG_STRIDE; it fails for some that sleep and change their
priority in turn, and next to one that keeps a greater priority, neither of which a program of the repository does). No user
program is assumed to make any call. Stride gives a new process the stride 0, ahead of all others,
so the liveness properties are claimed only for behaviours in which forking ends, and for those in which the kernel does not
panic, as it does once init is killed (`Undisturbed`). In
`Stride`: the timer ends every time slice (weak fairness of `Reschedule`). In
`Monitor` and `Philosophers`: the thread on the CPU goes on, and the scheduler gets to every
thread whose sleep has ended.

### Findings

`process_kill`: do_kill sets PF_EXITING and wakes a process that is sleeping interruptibly.
A process that was preempted in user mode when it was killed returns from `schedule()`
at the end of `trap()`, behind the test of the flag, and goes on in user mode. If it makes
a call before the next tick that blocks without a timer, a read of stdin or a wait for a child that does
not exit, it sleeps with the flag set; a second kill returns -E_KILLED without waking it.
The comment of do_kill and the user programs spin.c and waitkill.c, which wait for the death
of what they have killed, rely on it to exit. The weaker KilledSleeperDies holds.

`stride_order`: the comment of stride_pick_next promises the process with the minimum of strides.
Among processes that always compete this is so (ImplementsStridePool). A process that wakes
keeps the stride it went to sleep with, though, and one that is forked starts at 0, while the others may be
anywhere: three strides can then each come before the next in a circle, the root of the heap
depends on the order of the insertions, and a process is picked although one that comes before
it is in the pool. HeapOrdered is what remains.

Beside these two, `NoPanic` of Process, `PanicCause` of Sfs and `AssertsHold` and the panics of Files state what the model
shows of assertions and panics that ordinary calls can reach:

* kill(1) is not refused (proc.c:933): init wakes up in do_wait, calls do_exit and panics (proc.c:507). NoPanic says that
  nothing else makes it do so and that no other panic of process life is reached.
* A file is open twice, one descriptor truncates it, the other writes at its old position: the
  assertion `index <= din->blocks` (sfs_inode.c:356) fails.
* An extension that runs out of disk keeps the blocks it has added but not the length, and a write at a
  position behind the end that finds no block still raises the length (sfs_inode.c:614): blocks and length no longer agree,
  and the next truncation to the same length fails at line 910. `torn` names such files;
  for all others `BlocksFit` holds.
* SFS_MAX_FILE_SIZE is larger than what 12 direct and 1024 indirect pointers reach: growing a
  file that has them all panics at line 286.
* Raising `blocks` for an indirect block does not mark the inode dirty (line 365). The count on
  disk can be too low; since every such call also moves `size`, or fails and leaves pointers that
  are found again, no block is lost or shared (FreeMapExact, NoSharedBlock).
* O_CREAT with O_EXCL on a file that exists loses a reference (vfsfile.c:47). When 65535 are lost, or held in any other way, the
  next operation on the inode fails the second assertion of inode_check (inode.c:114); AssertsHold says that this is the one assertion about
  counts that can fail, and that this is its only cause. Creating a file, or calling an operation the inode
  lacks (read of a directory, fsync of a device), fails the assertion of `__vop_op`.

## 4. Proofs

| theorem | module | says, for every value of the constants |
|---|---|---|
| TypeCorrect, AssertsHold, RunQueueCorrect, NoWakeupLost, StackLinksCorrect, NoUseAfterFree, ParentsAlive, NrProcessCorrect, ZombieReapedByParent | ProcessProofs | the safety properties of the process runs (AssertsHold: the one panic reached is that of init after a kill of init) |
| SleepExact | ProcessProofs | Process implements SleepTimers |
| MonitorImplementsDining | MonitorProofs | the monitor program implements Dining |
| TypeCorrect, OneOwnerHolds, NoSignalStored, SignalKept | MonitorProofs | the monitor has one owner, no signal is stored, a signalled philosopher eats |
| TypeCorrect, ForksBalance, PhilosophersImplementDining | PhilosophersProofs | the semaphore program keeps its types, balances `s[i]`, implements Dining |
| Exclusion, NeighboursNeverEat | PhilosophersProofs | neighbours never eat together in Dining, and so in the program |
| Invariance, NoTimerLeftBehind | TimerListProofs | a process has one timer at most, and no expired one is left in the list |
| TimersOfAbsoluteTime | TimerListProofs | TimerList implements SleepTimers |
| CountsExact, CacheExact, CountAssertsHold | FilesProofs | the counts of inodes are their users, inodes are in memory while used, no assertion about counts fails but the limit, and that only when it is reached |
| FreeMapIsExact, NoBlockShared | SfsProofs | the free map is exact, no block has two places |
| LengthsKept | SfsProofs | Sfs implements FileLengths |
| Counting, FilesFit, PanicsHaveCause | SfsProofs | blocks and lengths agree but where a call ran out of disk; no assertion about blocks fails without one of the causes named |
| PidsUnique | ForkProofs | no two processes have the same pid |
| NoFrameLost, RoomIsFound | ForkProofs | between two calls a frame is free or in one place of one process, the buffer of a sleeping read included; first fit finds every gap that is large enough |
| WindowHolds, SomeoneIsFirst | StrideProofs | strides that compete stay within BIG_STRIDE of each other, and one of them is the least |
| HeapKeepsAll, HeapInOrder | StrideProofs | the pointers lead from the root to every RUNNABLE process but the current one, once; no process comes before the one above it unless each comes before the other |
| PicksLeast | StrideProofs | Stride implements StridePool where nobody sleeps and nobody is forked |

Assumptions: initproc, idleproc, NoProc and AnyChild differ from the slots and from each other as
stated in `ProcAssumption`; Proc is finite; the bounds are natural numbers, those of the time slice and of the
stdin buffer positive; there is at least one philosopher, and the absent thread is none; `Half` is positive, and NULL is no process. The sets of processes,
descriptors and disk blocks are finite, block 0 is none, the sizes of sfs are positive (`SfsAssumption`, `FilesAssumption`).
`MAX_INODE_COUNT` is positive. There is at least one frame, stacks and address spaces have at least one, an exec may have an argument, and there are more pids than processes, as get_pid
asserts, and room for init (`FrameAssumption`, `ForkAssumption`).

ProcessProofs proves one invariant `Inv` of the running kernel, whose parts are the safety properties and what
makes them inductive: the relation between the point a process is at and its state,
wait_state, timer and queue entry (a process at `waitSched` is SLEEPING on "CHILD" or
has been woken, and so on), that the current process is RUNNABLE unless it is about to call
`schedule()`, and that following the parents of a process one gets to init.
Its alternative `Stopped` is the kernel that has panicked because init was killed: one step leads from `Inv` to it, and none leads out. NoLostWakeup alone is not inductive, since a
waker acts on the wait_state and the queue, not on the state. Each action is a lemma; the
action property and the refinement follow from `Inv` and the shape of each step.

MonitorProofs needs for Dining only what the point of a philosopher says about its entry in the array. OneOwner,
NoStoredSignal and SignalledEats hold only together (`OwnerInv`), with the queue that each point belongs to and with
`count` and `next_count` as the numbers of threads they stand for: the owner that reads a count greater than 0 finds the
thread in the queue because no other thread can own the monitor, so the unit of `up` is never stored.
PhilosophersProofs also needs the semaphores: a unit of `s[i]` is there exactly when
`i` may eat and has not asked, and `i` is in its queue exactly when it has asked and may not eat;
otherwise a philosopher could start to eat unannounced.

StrideProofs needs no history: pick_next advances a process that nobody comes before by at most
BIG_STRIDE, so that its old stride is the base of the next window. In a window Less compares the
distances from the base, natural numbers, which have a least one.

StrideProofs, heap. The proofs carry along, as a witness, the function D that gives for each process those below it:
`Node` says locally that the children point back, and that D of a process is itself and D of its children, which are disjoint. Merging two disjoint trees gives one of all their processes and changes no
link outside them (`MergeJoins`), by induction on the number of processes below the two roots; so insertion adds one process and
removal of the root takes one away. The order holds whatever the strides are only because a process in the pool keeps its stride.
PicksLeast joins the two parts: in a window Less is transitive, so no process comes before the root (`RootIsFirst`).
With sleepers or newcomers there is no window, and the run stride_order shows that the root need not be the least.

FilesProofs proves that `ref` is at every step the number of places that hold the inode (descriptors, working directories, the
root, and what O_EXCL has leaked), `opens` the number of open descriptors, and `cached` the set of inodes whose count is
not 0, together with what makes this inductive: a process without a files_struct holds no inode, and a process in the middle of an
exit has given its directory back, so that nothing is left when the last descriptor is closed (`CallExact`). Each step changes
the set of places by inserting or removing the ones it names; a lemma on cardinality carries the counts along. A pair of counts that
inode_check sees belongs to an inode and at most one reference more than it has (`Seen`): the first half of the check holds, and the second fails only
where the inode has no room for one more (`NoRoom`).

SfsProofs proves that the block map in memory is sound (pointers in range, none twice, free map its complement, none missing below `blocks`),
that what is on disk for an inode that is not dirty agrees with the one in memory in everything but `blocks`,
and that the free map on disk agrees unless `super_dirty` is set. The first part is not inductive without the
others: `Close` and `Mount` replace what is in memory by what is on disk. The loops of sfs_truncfile and of
sfs_io_nolock reduce to two lemmas, appending a block and dropping the last one.

Blocks and lengths (`CountsOK`) are a second invariant on top of the first. A file whose count is below its pointers
is found only in the inode on disk, or in memory after a reload until the next call; its length is at most one block behind
(`Near`). In the loops of sfs_io_nolock and sfs_truncfile the count lies between the block reached and the
one asked for. What the panics state follows from it step by step: each assertion compares two of these numbers.

TimerListProofs rests on what the relative times sum up to (`Due`). Putting a timer in and taking one out change no
other sum, and a tick takes one from each, because the head of the list is never 0 between calls. The refinement mapping of SleepTimers
is this sum, so each step of the list is a step of absolute times; the invariant only says that a process has at most one timer and
that none in the list has expired.

ForkProofs, pids. get_pid looks at the list of processes only when it has come to `next_safe`, so the invariant says
that no pid lies between `last_pid` and `next_safe`. A pass over the list either finds such a gap or stops at a greater pid, counting round MAX_PID;
as there are more pids than processes, there is an unused one, and the distance to it falls with each pass: the search ends.

ForkProofs, frames. The free list is sorted and the property of the first frame of each maximal run of adjacent free
frames is its length (`Blocks`). Taking the first frames of a run, and putting a run in with a merge on either
side, keep this; the neighbour before is found going backwards because inside a run all properties are 0. RoomIsFound follows, as any
n adjacent free frames lie in one run. NoFrameLost adds who owns what (`OwnInv`) and which of stack, address space,
files_struct and buffer a process in each stage of its life has (`HoldInv`), without which exit and wait would give back frame 0. An exec is followed
through its intermediate areas: the arguments are taken from the free frames, a buffer that is taken and given back leaves the set of free frames as it was (`TakenFacts`),
load_icode takes frames from what the old address space has left (`LoadedFacts`), and put_kargv returns what the arguments took (`PutFacts`).

Recursive definitions that the proofs need (`Due`, `Pass`, `Search`, `AllocEach`, `FreeEach`, and those of `HeapMerge` and `Filled`) are recursive functions, whose existence and
values are proved from the least-number principle (`NatLeast`); the library's induction theorems are not used.

Only model-checked: liveness, because the prover reasons neither about fairness nor about ENABLED. PicksFirst of the run
stride_order is not a theorem but a finding: the code violates it.
