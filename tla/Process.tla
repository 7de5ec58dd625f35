------------------------------ MODULE Process ------------------------------
(***************************************************************************)
(* The life of a process in the lab8 kernel: do_fork, do_exit, do_wait,    *)
(* do_kill, do_sleep, do_yield (kern/process/proc.c), the scheduler core   *)
(* (kern/schedule/sched.c), the return path of trap() (kern/trap/trap.c)   *)
(* and the blocking keyboard read (kern/fs/devs/dev_stdin.c).              *)
(*                                                                         *)
(* There is one CPU.  Every gate of the IDT is an interrupt gate, so a     *)
(* system call runs with interrupts off and is not preempted; the CPU      *)
(* changes hands only in schedule().  pc[p] says where p is between two    *)
(* such points.  Interrupts are taken in user mode, in the idle loop and   *)
(* anywhere in a kernel thread, which runs with interrupts on.             *)
(***************************************************************************)
EXTENDS Naturals, FiniteSets

CONSTANTS
  Proc,          \* slots for proc_struct, besides initproc and idleproc
  KThread,       \* the slots that kernel threads of init_main occupy
  initproc,      \* the second process, running init_main
  idleproc,      \* the first process, running cpu_idle
  NoProc,        \* the NULL pointer
  AnyChild,      \* pid 0 of do_wait
  Killable,      \* the processes that programs name in kill()
  MaxSleep,      \* bound on the argument of sleep()
  MAX_TIME_SLICE,
  STDIN_BUFSIZE

ASSUME ProcAssumption ==
  /\ KThread \subseteq Proc
  /\ initproc \notin Proc /\ idleproc \notin Proc /\ initproc # idleproc
  /\ NoProc \notin Proc \cup {initproc, idleproc}
  /\ AnyChild \notin Proc \cup {initproc, idleproc}
  /\ Killable \subseteq Proc \cup {initproc}
  /\ IsFiniteSet(Proc)

ASSUME BoundAssumption ==
  /\ MaxSleep \in Nat
  /\ MAX_TIME_SLICE \in Nat \ {0}
  /\ STDIN_BUFSIZE \in Nat \ {0}

VARIABLES
  state,         \* proc->state; UNINIT is a slot that is not allocated
  wait_state,    \* proc->wait_state; "0" is not waiting
  exiting,       \* proc->flags & PF_EXITING
  parent,        \* proc->parent
  pc,            \* where the process is in its kernel path
  waitpid,       \* the pid argument of the do_wait call it is in, if any
  rq,            \* the run pool of the scheduler
  current,       \* the process on the CPU
  need_resched,  \* current->need_resched
  time_slice,    \* current->time_slice
  left,          \* ticks until the timer of proc expires, 0: no timer queued
  kbdq,          \* processes with a wait_t in the wait queue of stdin
  kbdWoken,      \* processes whose wait_t has wakeup_flags = WT_KBD
  chars,         \* unread characters in stdin_buffer
  nr_process,
  panicked       \* an assert of the code failed, or panic() was called

vars == << state, wait_state, exiting, parent, pc, waitpid, rq, current,
           need_resched, time_slice, left, kbdq, kbdWoken, chars,
           nr_process, panicked >>

cpu == << rq, current, need_resched, time_slice >>
stdin == << kbdq, kbdWoken, chars >>

Slot == Proc \cup {initproc, idleproc}

ProcState == {"UNINIT", "SLEEPING", "RUNNABLE", "ZOMBIE"}

\* Every wait state of this module carries the bit WT_INTERRUPTED.
Interrupted == {"CHILD", "TIMER", "KBD"}

(***************************************************************************)
(* Program points.  A point that ends in Sched is followed by a call of    *)
(* schedule(); Resume gives the point at which that call returns.          *)
(***************************************************************************)
Resume ==
  [ idle       |-> "idle",        \* cpu_idle
    preempted  |-> "user",        \* the end of trap()
    waitSched  |-> "waitWoken",   \* do_wait
    sleepSched |-> "sleepWoken",  \* do_sleep
    readSched  |-> "readWoken",   \* dev_stdin_read
    loopSched  |-> "wait",        \* the loop of init_main
    exitSched  |-> "exitReturned" ]  \* do_exit, where it must not return

Point == DOMAIN Resume \cup { Resume[s] : s \in DOMAIN Resume }
           \cup {"none", "kernel", "ret", "read", "main", "spawn", "halt", "initExit"}

(***************************************************************************)
(* Interrupts are on in user mode, in the idle loop and in kernel threads. *)
(***************************************************************************)
IntrOn == \/ pc[current] = "user"
          \/ /\ current \in KThread \cup {initproc, idleproc}
             /\ pc[current] # "halt"

At(p, point) == ~panicked /\ current = p /\ pc[p] = point

Goto(p, point) == pc' = [pc EXCEPT ![p] = point]

\* A call made by p returns: to the end of trap() or to the kernel thread.
AfterCall(p) == IF p \in KThread THEN "kernel" ELSE "ret"

Live(p) == state[p] # "UNINIT"

Children(p) == { c \in Proc : Live(c) /\ parent[c] = p }

AwaitedOfAny(p) ==
  { c \in Proc : Live(c) /\ (waitpid[p] = c \/ (waitpid[p] = AnyChild /\ parent[c] = p)) }

\* The children that a do_wait call of p is about (find_proc, or all).
Awaited(p) == { c \in Children(p) : waitpid[p] \in {AnyChild, c} }

NotRunning(S) == { c \in S : state[c] # "RUNNABLE" }

Zombies(S) == { c \in S : state[c] = "ZOMBIE" }

EnqueuedWithCurrent(W, st) == { p \in W \ {idleproc} : st[p] # "RUNNABLE" }

\* Those of W that wakeup_proc puts into the run pool; schedule() adds current.
Enqueued(W, st) == { p \in W \ {current, idleproc} : st[p] # "RUNNABLE" }

(***************************************************************************)
(* wakeup_proc of each process of W, on the values st and ws that state    *)
(* and wait_state have by then.  A process that is RUNNABLE already only   *)
(* causes a warning.                                                       *)
(***************************************************************************)
Wakeup(W, st, ws) ==
  /\ state' = [p \in Slot |-> IF p \in W THEN "RUNNABLE" ELSE st[p]]
  /\ wait_state' = [p \in Slot |-> IF p \in W /\ st[p] # "RUNNABLE"
                                    THEN "0" ELSE ws[p]]
  /\ rq' = rq \cup Enqueued(W, st)
  /\ panicked' = (panicked \/ \E p \in W : st[p] = "ZOMBIE")

\* The state when proc_init has returned and cpu_idle starts.
Init ==
  /\ state = [p \in Slot |-> IF p \in Proc THEN "UNINIT" ELSE "RUNNABLE"]
  /\ wait_state = [p \in Slot |-> "0"]
  /\ exiting = [p \in Slot |-> FALSE]
  /\ parent = [p \in Slot |-> IF p = initproc THEN idleproc ELSE NoProc]
  /\ pc = [p \in Slot |-> IF p = idleproc THEN "idle"
                          ELSE IF p = initproc THEN "main" ELSE "none"]
  /\ waitpid = [p \in Slot |-> AnyChild]
  /\ rq = {initproc}
  /\ current = idleproc
  /\ need_resched = TRUE
  /\ time_slice = MAX_TIME_SLICE
  /\ left = [p \in Slot |-> 0]
  /\ kbdq = {}
  /\ kbdWoken = {}
  /\ chars = 0
  /\ nr_process = 2
  /\ panicked = FALSE

-----------------------------------------------------------------------------
(***************************************************************************)
(* The scheduler.                                                          *)
(***************************************************************************)

PoolUnlessAsleep == IF state[current] # "SLEEPING" /\ current # idleproc
                    THEN rq \cup {current} ELSE rq

\* The pool when pick_next is called: a RUNNABLE current is in it again.
Pool == IF state[current] = "RUNNABLE" /\ current # idleproc
        THEN rq \cup {current} ELSE rq

(***************************************************************************)
(* schedule() switching to n.  Which process of the pool the scheduling    *)
(* class picks is left open.  A process to which schedule() returns inside *)
(* do_exit goes on to the panic there.                                     *)
(***************************************************************************)
Schedule(n) ==
  /\ ~panicked
  /\ pc[current] \in DOMAIN Resume
  /\ pc[current] = "idle" => need_resched
  /\ n \in IF Pool = {} THEN {idleproc} ELSE Pool
  /\ rq' = Pool \ {n}
  /\ current' = n
  /\ need_resched' = FALSE
  /\ time_slice' = MAX_TIME_SLICE
  /\ Goto(current, Resume[pc[current]])
  /\ panicked' = (pc'[n] = "exitReturned")
  /\ UNCHANGED << state, wait_state, exiting, parent, waitpid, left, stdin,
                  nr_process >>

(***************************************************************************)
(* The timer interrupt: run_timer_list wakes the processes whose timer     *)
(* expires and charges the tick to current.  An interrupt in user mode     *)
(* ends in the tests of trap(), one in the kernel returns at once.         *)
(***************************************************************************)
FirstExpiring == { p \in Slot : left[p] = 1 /\ p = CHOOSE q \in Slot : left[q] = 1 }

Expiring == { p \in Slot : left[p] = 1 }

Tick ==
  /\ ~panicked
  /\ IntrOn
  /\ left' = [p \in Slot |-> IF left[p] = 0 THEN 0 ELSE left[p] - 1]
  /\ Wakeup(Expiring, state, wait_state)
  /\ IF current = idleproc
     THEN need_resched' = TRUE /\ UNCHANGED time_slice
     ELSE /\ time_slice' = IF time_slice = 0 THEN 0 ELSE time_slice - 1
          /\ need_resched' = (need_resched \/ time_slice <= 1)
  /\ IF pc[current] = "user" THEN Goto(current, "ret") ELSE UNCHANGED pc
  /\ UNCHANGED << exiting, parent, waitpid, current, stdin, nr_process >>

StoredUnbounded == chars + 1

\* A full buffer takes the character in the place of an earlier one.
Stored == IF chars < STDIN_BUFSIZE THEN chars + 1 ELSE chars

\* The keyboard interrupt: dev_stdin_write wakes every process that waits.
KeyPress ==
  /\ ~panicked
  /\ IntrOn
  /\ chars' = Stored
  /\ Wakeup(kbdq, state, wait_state)
  /\ kbdWoken' = kbdWoken \cup kbdq
  /\ kbdq' = {}
  /\ IF pc[current] = "user" THEN Goto(current, "ret") ELSE UNCHANGED pc
  /\ UNCHANGED << exiting, parent, waitpid, current, need_resched, time_slice,
                  left, nr_process >>

-----------------------------------------------------------------------------
(***************************************************************************)
(* do_exit.  Its last step, schedule(), is Schedule at exitSched.          *)
(***************************************************************************)
WokenParent(p) == { q \in {parent[p]} : wait_state[q] = "CHILD" }

WokenInit(p) == { q \in {initproc} : /\ wait_state[q] = "CHILD"
                                     /\ Zombies(Children(p)) # {} }

WokenIfAnyChild(p) ==
  { q \in WokenParent(p) : waitpid[q] = AnyChild } \cup WokenInit(p)

\* The processes that the exit of p wakes from do_wait.
WokenByExit(p) == WokenParent(p) \cup WokenInit(p)

ReparentZombies(p) == [q \in Slot |-> IF q \in Zombies(Children(p)) THEN initproc
                                      ELSE parent[q]]

\* The children of p become children of init.
Reparent(p) == [q \in Slot |-> IF q \in Children(p) THEN initproc ELSE parent[q]]

Exit(p) ==
  /\ Wakeup(WokenByExit(p), [state EXCEPT ![p] = "ZOMBIE"], wait_state)
  /\ parent' = Reparent(p)
  /\ waitpid' = [waitpid EXCEPT ![p] = AnyChild]
  /\ Goto(p, "exitSched")
  /\ UNCHANGED << exiting, current, need_resched, time_slice, left, stdin,
                  nr_process >>

Panic ==
  /\ panicked' = TRUE
  /\ UNCHANGED << state, wait_state, exiting, parent, pc, waitpid, cpu, left,
                  stdin, nr_process >>

\* panic("initproc exit."); idleproc never gets here.
InitExit ==
  /\ panicked' = TRUE
  /\ Goto(initproc, "initExit")
  /\ UNCHANGED << state, wait_state, exiting, parent, waitpid, cpu, left,
                  stdin, nr_process >>

DoExit(p) == IF p = initproc THEN InitExit ELSE Exit(p)

\* The end of trap() before it returns to user mode.
TrapReturn(p) ==
  /\ At(p, "ret")
  /\ \/ exiting[p] /\ DoExit(p)
     \/ /\ ~exiting[p]
        /\ Goto(p, IF need_resched THEN "preempted" ELSE "user")
        /\ UNCHANGED << state, wait_state, exiting, parent, waitpid, cpu,
                        left, stdin, nr_process, panicked >>

(***************************************************************************)
(* System calls.                                                           *)
(***************************************************************************)

\* A call or exception that changes nothing here, failing calls included.
Syscall(p) ==
  /\ At(p, "user")
  /\ Goto(p, "ret")
  /\ UNCHANGED << state, wait_state, exiting, parent, waitpid, cpu, left,
                  stdin, nr_process, panicked >>

Yield(p) ==
  /\ At(p, "user")
  /\ need_resched' = TRUE
  /\ Goto(p, "ret")
  /\ UNCHANGED << state, wait_state, exiting, parent, waitpid, rq, current,
                  time_slice, left, stdin, nr_process, panicked >>

\* do_fork of c by p, which goes on at next; c starts at forkret.
DoFork(p, c, next) ==
  /\ state[c] = "UNINIT"
  /\ Wakeup({c}, state, wait_state)
  /\ exiting' = [exiting EXCEPT ![c] = FALSE]
  /\ parent' = [parent EXCEPT ![c] = p]
  /\ pc' = [pc EXCEPT ![p] = next,
                      ![c] = IF c \in KThread THEN "kernel" ELSE "user"]
  /\ nr_process' = nr_process + 1
  /\ UNCHANGED << waitpid, current, need_resched, time_slice, left, stdin >>

Fork(p, c) ==
  /\ At(p, "user")
  /\ c \in Proc \ KThread
  /\ IF wait_state[p] = "0" THEN DoFork(p, c, "ret")
                            ELSE state[c] = "UNINIT" /\ Panic

\* exit(), a failed exec, or the return of the body of a kernel thread.
ExitCall(p) ==
  /\ At(p, "user") \/ At(p, "kernel")
  /\ DoExit(p)

\* do_kill, which sets PF_EXITING and interrupts a wait.
Kill(p, q) ==
  /\ At(p, "user")
  /\ Live(q)
  /\ exiting' = [exiting EXCEPT ![q] = TRUE]
  /\ Wakeup(IF exiting[q] \/ wait_state[q] \notin Interrupted
            THEN {} ELSE {q}, state, wait_state)
  /\ Goto(p, "ret")
  /\ UNCHANGED << parent, waitpid, current, need_resched, time_slice, left,
                  stdin, nr_process >>

-----------------------------------------------------------------------------
(***************************************************************************)
(* do_wait.  A scan that finds nothing to reap goes to sleep; after        *)
(* schedule() the call is abandoned if the process is to exit, or else it  *)
(* scans again.                                                            *)
(***************************************************************************)
Wait(p, pid) ==
  /\ At(p, "user")
  /\ waitpid' = [waitpid EXCEPT ![p] = pid]
  /\ Goto(p, "wait")
  /\ UNCHANGED << state, wait_state, exiting, parent, cpu, left, stdin,
                  nr_process, panicked >>

RemoveLinksUncounted == nr_process

RemoveLinks == nr_process - 1

\* The child c is removed and its proc_struct and stack are freed.
WaitReap(p, c) ==
  /\ At(p, "wait")
  /\ c \in Zombies(Awaited(p))
  /\ state' = [state EXCEPT ![c] = "UNINIT"]
  /\ parent' = [parent EXCEPT ![c] = NoProc]
  /\ exiting' = [exiting EXCEPT ![c] = FALSE]
  /\ waitpid' = [waitpid EXCEPT ![p] = AnyChild]
  /\ pc' = [pc EXCEPT ![c] = "none",
                      ![p] = IF p = initproc THEN "loopSched" ELSE "ret"]
  /\ nr_process' = RemoveLinks
  /\ UNCHANGED << wait_state, cpu, left, stdin, panicked >>

WaitSleep(p) ==
  /\ At(p, "wait")
  /\ Awaited(p) # {} /\ Zombies(Awaited(p)) = {}
  /\ state' = [state EXCEPT ![p] = "SLEEPING"]
  /\ wait_state' = [wait_state EXCEPT ![p] = "CHILD"]
  /\ Goto(p, "waitSched")
  /\ UNCHANGED << exiting, parent, waitpid, cpu, left, stdin, nr_process,
                  panicked >>

\* -E_BAD_PROC.  For init_main every other process is gone then.
WaitNoChild(p) ==
  /\ At(p, "wait")
  /\ Awaited(p) = {}
  /\ Goto(p, IF p = initproc THEN "halt" ELSE "ret")
  /\ waitpid' = [waitpid EXCEPT ![p] = AnyChild]
  /\ panicked' = (p = initproc /\ nr_process # 2)
  /\ UNCHANGED << state, wait_state, exiting, parent, cpu, left, stdin,
                  nr_process >>

WaitWokenRescans(p) ==
  /\ At(p, "waitWoken")
  /\ Goto(p, "wait")
  /\ UNCHANGED << state, wait_state, exiting, parent, waitpid, cpu, left,
                  stdin, nr_process, panicked >>

WaitWoken(p) ==
  /\ At(p, "waitWoken")
  /\ \/ exiting[p] /\ DoExit(p)
     \/ /\ ~exiting[p]
        /\ Goto(p, "wait")
        /\ UNCHANGED << state, wait_state, exiting, parent, waitpid, cpu, left,
                        stdin, nr_process, panicked >>

-----------------------------------------------------------------------------
(***************************************************************************)
(* do_sleep.  The timer_t is a local variable of this call.                *)
(***************************************************************************)
Sleep(p, ticks) ==
  /\ At(p, "user") \/ At(p, "kernel")
  /\ state' = [state EXCEPT ![p] = "SLEEPING"]
  /\ wait_state' = [wait_state EXCEPT ![p] = "TIMER"]
  /\ left' = [left EXCEPT ![p] = ticks]
  /\ Goto(p, "sleepSched")
  /\ UNCHANGED << exiting, parent, waitpid, cpu, stdin, nr_process, panicked >>

TimerKept(p) == left

DelTimer(p) == [left EXCEPT ![p] = 0]

SleepWoken(p) ==
  /\ At(p, "sleepWoken")
  /\ left' = DelTimer(p)
  /\ Goto(p, AfterCall(p))
  /\ UNCHANGED << state, wait_state, exiting, parent, waitpid, cpu, stdin,
                  nr_process, panicked >>

(***************************************************************************)
(* dev_stdin_read of one or more characters; wait is a local variable.     *)
(***************************************************************************)
ReadCall(p) ==
  /\ At(p, "user")
  /\ Goto(p, "read")
  /\ UNCHANGED << state, wait_state, exiting, parent, waitpid, cpu, left,
                  stdin, nr_process, panicked >>

\* One character is taken; it may have been the last one asked for.
ReadChar(p) ==
  /\ At(p, "read")
  /\ chars > 0
  /\ chars' = chars - 1
  /\ \E next \in {"read", "ret"} : Goto(p, next)
  /\ UNCHANGED << state, wait_state, exiting, parent, waitpid, cpu, left,
                  kbdq, kbdWoken, nr_process, panicked >>

\* wait_current_set
ReadSleep(p) ==
  /\ At(p, "read")
  /\ chars = 0
  /\ state' = [state EXCEPT ![p] = "SLEEPING"]
  /\ wait_state' = [wait_state EXCEPT ![p] = "KBD"]
  /\ kbdq' = kbdq \cup {p}
  /\ kbdWoken' = kbdWoken \ {p}
  /\ Goto(p, "readSched")
  /\ UNCHANGED << exiting, parent, waitpid, cpu, left, chars, nr_process,
                  panicked >>

\* wait_current_del; a wait that no key ended ends the call.
ReadWoken(p) ==
  /\ At(p, "readWoken")
  /\ kbdq' = kbdq \ {p}
  /\ kbdWoken' = kbdWoken \ {p}
  /\ Goto(p, IF p \in kbdWoken THEN "read" ELSE "ret")
  /\ UNCHANGED << state, wait_state, exiting, parent, waitpid, cpu, left,
                  chars, nr_process, panicked >>

-----------------------------------------------------------------------------
(***************************************************************************)
(* init_main starts user_main, then its kernel threads, and then reaps     *)
(* children until none is left.                                            *)
(***************************************************************************)
InitUserMain(c) ==
  /\ At(initproc, "main")
  /\ c \in Proc \ KThread
  /\ DoFork(initproc, c, "spawn")

InitKThread(c) ==
  /\ At(initproc, "spawn")
  /\ c \in KThread
  /\ DoFork(initproc, c, "spawn")

InitLoop ==
  /\ At(initproc, "spawn")
  /\ \A c \in KThread : Live(c)
  /\ Goto(initproc, "wait")
  /\ UNCHANGED << state, wait_state, exiting, parent, waitpid, cpu, left,
                  stdin, nr_process, panicked >>

-----------------------------------------------------------------------------
UserStep(p) ==
  \/ Syscall(p) \/ Yield(p) \/ ExitCall(p) \/ ReadCall(p)
  \/ \E c \in Proc : Fork(p, c)
  \/ \E q \in Killable : Kill(p, q)
  \/ \E pid \in {AnyChild} \cup Proc : Wait(p, pid)
  \/ \E ticks \in 1..MaxSleep : Sleep(p, ticks)

\* The steps the kernel takes once a call has been made.
KernelStep(p) ==
  \/ TrapReturn(p)
  \/ \E c \in Proc : WaitReap(p, c)
  \/ WaitSleep(p) \/ WaitNoChild(p) \/ WaitWoken(p)
  \/ SleepWoken(p)
  \/ ReadChar(p) \/ ReadSleep(p) \/ ReadWoken(p)

InitStep ==
  \/ \E c \in Proc : InitUserMain(c) \/ InitKThread(c)
  \/ InitLoop

\* The machine has stopped: init_main has returned, or the kernel is in the
\* monitor that panic() starts.
Halted == (panicked \/ At(initproc, "halt")) /\ UNCHANGED vars

Next ==
  \/ \E n \in Slot : Schedule(n)
  \/ Tick
  \/ KeyPress
  \/ \E p \in Proc : UserStep(p)
  \/ \E p \in Proc \cup {initproc} : KernelStep(p)
  \/ InitStep
  \/ Halted

Spec == Init /\ [][Next]_vars

-----------------------------------------------------------------------------
(***************************************************************************)
(* Invariants.                                                             *)
(***************************************************************************)

\* The variables have the types of the fields they stand for.
TypeOK ==
  /\ state \in [Slot -> ProcState]
  /\ wait_state \in [Slot -> Interrupted \cup {"0"}]
  /\ exiting \in [Slot -> BOOLEAN]
  /\ parent \in [Slot -> Slot \cup {NoProc}]
  /\ pc \in [Slot -> Point]
  /\ waitpid \in [Slot -> Proc \cup {AnyChild}]
  /\ rq \subseteq Slot
  /\ current \in Slot
  /\ need_resched \in BOOLEAN
  /\ time_slice \in 0..MAX_TIME_SLICE
  /\ left \in [Slot -> 0..MaxSleep]
  /\ kbdq \subseteq Proc
  /\ kbdWoken \subseteq Proc
  /\ chars \in 0..STDIN_BUFSIZE
  /\ nr_process \in Nat
  /\ panicked \in BOOLEAN

(***************************************************************************)
(* No assert or panic of these functions is reached but one: wakeup_proc   *)
(* is never given a zombie (sched.c), do_fork runs with wait_state 0,      *)
(* do_exit does not return, init_main finds no process left when it has no *)
(* child.  The one is that of do_exit for initproc, which do_kill accepts  *)
(* as it does any other process: then init was killed, and stops in        *)
(* do_wait.                                                                *)
(***************************************************************************)
NoPanic == panicked => pc[initproc] = "initExit" /\ exiting[initproc]

(***************************************************************************)
(* The run pool holds exactly the RUNNABLE processes that are off the CPU: *)
(* a wakeup neither loses a process nor enters one twice into the heap,    *)
(* whose links a second insertion would overwrite.                         *)
(***************************************************************************)
RunQueueExact ==
  /\ idleproc \notin rq
  /\ \A p \in Slot \ {idleproc} :
       p \in rq <=> state[p] = "RUNNABLE" /\ p # current

\* What p sleeps for has not happened yet, and its waker knows of p.
WakerExists(p) ==
  \/ wait_state[p] = "CHILD" /\ Awaited(p) # {} /\ Zombies(Awaited(p)) = {}
  \/ wait_state[p] = "TIMER" /\ left[p] > 0
  \/ wait_state[p] = "KBD" /\ p \in kbdq /\ chars = 0

(***************************************************************************)
(* No lost wakeup: a sleeping process waits for something that is still to *)
(* come.  No zombie child is there for a do_wait that sleeps, the timer of *)
(* a sleeper is queued, a sleeping reader is in the wait queue and the     *)
(* buffer is empty.                                                        *)
(***************************************************************************)
NoLostWakeup == \A p \in Slot : state[p] = "SLEEPING" => WakerExists(p)

(***************************************************************************)
(* Timers and wait-queue entries are local variables of do_sleep and       *)
(* dev_stdin_read: none is linked once its owner has left that call, by    *)
(* expiry, by a kill or by exit.                                           *)
(***************************************************************************)
StackLinksLive ==
  \A p \in Slot :
    /\ left[p] > 0 => pc[p] \in {"sleepSched", "sleepWoken"}
    /\ p \in kbdq => pc[p] \in {"readSched", "readWoken"}

(***************************************************************************)
(* do_wait frees the proc_struct and the kernel stack of a child: nothing  *)
(* refers to a freed slot, and it is not the one on the CPU.               *)
(***************************************************************************)
NoDanglingProc ==
  \A p \in Proc : ~Live(p) =>
    /\ p \notin rq \cup kbdq /\ left[p] = 0 /\ current # p
    /\ \A c \in Proc : Live(c) => parent[c] # p

(***************************************************************************)
(* The processes form a tree of live ones: the parent of every process is  *)
(* allocated and not a zombie, so somebody can reap it.                    *)
(***************************************************************************)
ParentAlive ==
  \A c \in Proc : Live(c) =>
    parent[c] \in Proc \cup {initproc} /\ state[parent[c]] \notin {"UNINIT", "ZOMBIE"}

\* nr_process counts the allocated processes (with idleproc and initproc).
NrProcessExact == nr_process = Cardinality({ p \in Proc : Live(p) }) + 2

(***************************************************************************)
(* Action properties.                                                      *)
(***************************************************************************)

(***************************************************************************)
(* A process leaves the zombie state only by being freed, by its parent,   *)
(* in a do_wait call that was for it; and only a zombie is freed.          *)
(***************************************************************************)
ReapedByParent ==
  [][\A p \in Proc :
       /\ (state[p] = "ZOMBIE" /\ state'[p] # "ZOMBIE")
            => /\ state'[p] = "UNINIT" /\ current = parent[p]
               /\ waitpid[current] \in {AnyChild, p}
       /\ (Live(p) /\ ~Live(p)') => state[p] = "ZOMBIE"]_vars

(***************************************************************************)
(* do_sleep, del_timer, run_timer_list and do_kill together implement      *)
(* SleepTimers: a sleep lasts as many ticks as it was asked for, unless it *)
(* is interrupted, whatever else the processes do meanwhile.               *)
(***************************************************************************)
Timers == INSTANCE SleepTimers
            WITH Sleeper <- Slot, MaxTicks <- MaxSleep,
                 called <- { p \in Slot : pc[p] \in {"sleepSched", "sleepWoken"} },
                 asleep <- { p \in Slot : wait_state[p] = "TIMER" }

ImplementsSleepTimers == Timers!Spec

-----------------------------------------------------------------------------
(***************************************************************************)
(* Fairness.  The CPU executes kernel code until it blocks or returns to   *)
(* user mode; the code of a kernel thread is finite between two calls.  A  *)
(* timer interrupt that comes while interrupts are off is kept by the      *)
(* interrupt controller and taken when they are on again: strong fairness. *)
(* No user program is fair: it may loop for ever without a call.  The      *)
(* stride scheduler runs every process that stays in the pool as long as   *)
(* no new process, whose stride is 0, keeps overtaking it: liveness is     *)
(* claimed for the behaviours in which forking ends, and the kernel does   *)
(* not panic, as it does once init is killed.                              *)
(***************************************************************************)
CpuStep ==
  \/ \E p \in Proc \cup {initproc} : KernelStep(p)
  \/ \E p \in KThread : UserStep(p)
  \/ InitStep
  \/ \E n \in Slot : Schedule(n)

Fairness ==
  /\ WF_vars(CpuStep)
  /\ SF_vars(Tick)
  /\ \A n \in Proc \cup {initproc} : SF_vars(Schedule(n))

FairSpec == Spec /\ Fairness

Forking == \E c \in Proc : ~Live(c) /\ Live(c)'

Undisturbed == <>[][~Forking]_vars /\ []~panicked

Dead(p) == state[p] \in {"ZOMBIE", "UNINIT"}

WaitPoint == {"wait", "waitSched", "waitWoken"}

(***************************************************************************)
(* A zombie child of init, orphans included, is freed in the end: init is  *)
(* woken for it by do_exit, whoever the parent was, and its loop reaps it. *)
(***************************************************************************)
OrphanReaped ==
  Undisturbed =>
    \A p \in Proc : (state[p] = "ZOMBIE" /\ parent[p] = initproc)
                      ~> state[p] = "UNINIT"

(***************************************************************************)
(* A do_wait call for which a zombie child is there returns (or its caller *)
(* is killed), even if the call slept on another child of the caller.      *)
(***************************************************************************)
WaitReturns ==
  Undisturbed =>
    \A p \in Proc : (pc[p] \in WaitPoint /\ Zombies(Awaited(p)) # {})
                      ~> pc[p] \notin WaitPoint

\* do_sleep returns: its timer expires and the process is scheduled.
SleepReturns ==
  Undisturbed =>
    \A p \in Proc : pc[p] = "sleepSched"
                      ~> pc[p] \notin {"sleepSched", "sleepWoken"}

(***************************************************************************)
(* A user process that do_kill wakes from do_wait or do_sleep, or that is  *)
(* woken there after it was killed, exits.                                 *)
(***************************************************************************)
KilledSleeperDies ==
  Undisturbed =>
    \A p \in Proc \ KThread :
      (exiting[p] /\ state[p] = "RUNNABLE" /\ pc[p] \in {"waitWoken", "sleepWoken"})
        ~> Dead(p)

(***************************************************************************)
(* "do_kill - kill process with pid by set this process's flags with       *)
(* PF_EXITING" (proc.c:932): a user process that do_kill accepts exits.    *)
(***************************************************************************)
KilledDies ==
  Undisturbed => \A p \in Proc \ KThread : exiting[p] ~> Dead(p)

=============================================================================
