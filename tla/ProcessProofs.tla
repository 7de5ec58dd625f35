--------------------------- MODULE ProcessProofs ---------------------------
(***************************************************************************)
(* The safety properties of Process, proved for any number of processes,   *)
(* any kernel threads among them and any bounds.                           *)
(***************************************************************************)
EXTENDS Process, FiniteSetTheorems, TLAPS

\* The points at which a process that is off the CPU can be.
OffCpu == {"none", "idle", "user", "kernel", "wait", "main", "waitWoken",
           "sleepWoken", "readWoken", "exitReturned"}

(***************************************************************************)
(* What the program point of p says about its other fields.                *)
(***************************************************************************)
PointOK(p) ==
  /\ p = current => pc[p] \notin {"none", "exitReturned"}
  /\ p # current => pc[p] \in OffCpu
  /\ state[p] = "UNINIT" <=> pc[p] = "none"
  /\ state[p] = "ZOMBIE" <=> pc[p] \in {"exitSched", "exitReturned"}
  /\ state[p] = "SLEEPING" <=> wait_state[p] # "0"
  /\ wait_state[p] = "CHILD" => pc[p] \in {"waitSched", "waitWoken"}
  /\ wait_state[p] = "TIMER" => pc[p] \in {"sleepSched", "sleepWoken"}
  /\ wait_state[p] = "KBD" => pc[p] \in {"readSched", "readWoken"}
  /\ (p = current /\ state[p] = "SLEEPING")
       => pc[p] \in {"waitSched", "sleepSched", "readSched"}
  /\ pc[p] = "idle" <=> p = idleproc
  /\ p \in Proc => pc[p] \notin {"main", "spawn", "loopSched", "halt"}
  /\ p = initproc => pc[p] \in {"main", "spawn", "wait", "waitSched",
                                "waitWoken", "loopSched", "halt"}

PointsOK == \A p \in Slot : PointOK(p)

NotPanicked == ~panicked

\* init waits for any child.
InitTakesAny == waitpid[initproc] = AnyChild

(***************************************************************************)
(* No set of live processes is closed under parent: following the parents  *)
(* of a process one gets to init.                                          *)
(***************************************************************************)
RootedAtInit ==
  \A S \in SUBSET Proc :
    (S # {} /\ \A c \in S : Live(c)) => \E c \in S : parent[c] \notin S

(***************************************************************************)
(* The inductive invariant, while the kernel runs.                         *)
(***************************************************************************)
Inv ==
  /\ TypeOK
  /\ NotPanicked
  /\ PointsOK
  /\ InitTakesAny
  /\ RunQueueExact
  /\ NoLostWakeup
  /\ StackLinksLive
  /\ NoDanglingProc
  /\ ParentAlive
  /\ RootedAtInit
  /\ NrProcessExact

(***************************************************************************)
(* A killed init has called do_exit and the kernel has stopped; the        *)
(* processes are as they were then.                                        *)
(***************************************************************************)
Stopped ==
  /\ TypeOK
  /\ panicked /\ pc[initproc] = "initExit" /\ exiting[initproc]
  /\ RunQueueExact
  /\ NoLostWakeup
  /\ StackLinksLive
  /\ NoDanglingProc
  /\ ParentAlive
  /\ NrProcessExact

-----------------------------------------------------------------------------
USE DEF Slot, Goto, At

\* Where each call of schedule() returns.
LEMMA ResumeFacts ==
  /\ DOMAIN Resume = {"idle", "preempted", "waitSched", "sleepSched",
                       "readSched", "loopSched", "exitSched"}
  /\ Resume["idle"] = "idle"
  /\ Resume["preempted"] = "user"
  /\ Resume["waitSched"] = "waitWoken"
  /\ Resume["sleepSched"] = "sleepWoken"
  /\ Resume["readSched"] = "readWoken"
  /\ Resume["loopSched"] = "wait"
  /\ Resume["exitSched"] = "exitReturned"
  BY DEF Resume

\* The program points, listed.
LEMMA PointFacts ==
  Point = {"idle", "preempted", "waitSched", "sleepSched", "readSched",
           "loopSched", "exitSched", "user", "waitWoken", "sleepWoken",
           "readWoken", "wait", "exitReturned", "none", "kernel", "ret",
           "read", "main", "spawn", "halt", "initExit"}
<1>1. { Resume[s] : s \in DOMAIN Resume } =
        {"idle", "user", "waitWoken", "sleepWoken", "readWoken", "wait", "exitReturned"}
  BY ResumeFacts
<1>2. QED
  BY <1>1, ResumeFacts DEF Point

\* The states that proc_init leaves satisfy the invariant.
LEMMA InitInv == Init => Inv
<1> SUFFICES ASSUME Init PROVE Inv
  OBVIOUS
<1> USE ProcAssumption, BoundAssumption DEF Init
<1>1. TypeOK
  <2>1. pc \in [Slot -> Point] BY PointFacts
  <2>2. state \in [Slot -> ProcState] BY DEF ProcState
  <2>3. wait_state \in [Slot -> Interrupted \cup {"0"}] OBVIOUS
  <2>4. left \in [Slot -> 0..MaxSleep] OBVIOUS
  <2>5. parent \in [Slot -> Slot \cup {NoProc}] OBVIOUS
  <2>6. waitpid \in [Slot -> Proc \cup {AnyChild}] OBVIOUS
  <2>7. /\ exiting \in [Slot -> BOOLEAN]
        /\ need_resched \in BOOLEAN /\ panicked \in BOOLEAN
    OBVIOUS
  <2>8. QED BY <2>1, <2>2, <2>3, <2>4, <2>5, <2>6, <2>7 DEF TypeOK
<1>2. NotPanicked /\ InitTakesAny BY DEF NotPanicked, InitTakesAny
<1>3. PointsOK BY DEF PointsOK, PointOK, OffCpu
<1>4. RunQueueExact BY DEF RunQueueExact
<1>5. NoLostWakeup BY DEF NoLostWakeup
<1>6. StackLinksLive BY DEF StackLinksLive
<1>7. NoDanglingProc /\ ParentAlive /\ RootedAtInit
  BY DEF NoDanglingProc, ParentAlive, RootedAtInit, Live
<1>8. NrProcessExact
  <2>1. { p \in Proc : Live(p) } = {} BY DEF Live
  <2>2. Cardinality({ p \in Proc : Live(p) }) = 0 BY <2>1, FS_EmptySet
  <2>3. nr_process = 2 OBVIOUS
  <2>4. QED BY <2>2, <2>3 DEF NrProcessExact
<1>9. QED BY <1>1, <1>2, <1>3, <1>4, <1>5, <1>6, <1>7, <1>8 DEF Inv

(***************************************************************************)
(* A step of the process p on the CPU from one point of running code to    *)
(* the point next, which touches nothing that others wait for.             *)
(***************************************************************************)
Quiet(p, next) ==
  /\ current = p
  /\ pc[p] \in {"user", "ret", "wait", "waitWoken", "read", "spawn"}
  /\ next \in {"user", "ret", "preempted", "wait", "read", "halt"}
  /\ p \in Proc => next # "halt"
  /\ p = initproc => next \in {"wait", "halt"} /\ waitpid'[p] = AnyChild
  /\ pc' = [pc EXCEPT ![p] = next]
  /\ waitpid' \in [Slot -> Proc \cup {AnyChild}]
  /\ \A q \in Slot \ {p} : waitpid'[q] = waitpid[q]
  /\ need_resched' \in BOOLEAN
  /\ chars' \in Nat /\ chars' <= chars
  /\ panicked' \in BOOLEAN /\ ~panicked'
  /\ UNCHANGED << state, wait_state, exiting, parent, rq, current, time_slice,
                  left, kbdq, kbdWoken, nr_process >>

\* A quiet step preserves the invariant.
LEMMA QuietStep ==
  ASSUME Inv, NEW p \in Proc \cup {initproc}, NEW next, Quiet(p, next)
  PROVE  Inv'
<1> USE ProcAssumption DEF Quiet
<1>1. state[p] = "RUNNABLE"
  BY DEF Inv, TypeOK, ProcState, PointsOK, PointOK
<1>2. TypeOK'
  <2>1. pc' \in [Slot -> Point] BY PointFacts DEF Inv, TypeOK
  <2>2. chars' \in 0..STDIN_BUFSIZE BY BoundAssumption DEF Inv, TypeOK
  <2>3. QED BY <2>1, <2>2 DEF Inv, TypeOK
<1>3. NotPanicked' BY DEF NotPanicked
<1>4. PointsOK'
  BY <1>1 DEF Inv, TypeOK, PointsOK, PointOK, OffCpu
<1>5. InitTakesAny' BY DEF Inv, InitTakesAny
<1>6. RunQueueExact' BY DEF Inv, RunQueueExact
<1>7. NoLostWakeup'
  BY <1>1, BoundAssumption
  DEF Inv, TypeOK, NoLostWakeup, WakerExists, Awaited, Zombies, Children, Live
<1>8. StackLinksLive' BY DEF Inv, TypeOK, StackLinksLive
<1>9. NoDanglingProc' BY DEF Inv, NoDanglingProc, Live
<1>10. ParentAlive' BY DEF Inv, ParentAlive, Live
<1>11. RootedAtInit' BY DEF Inv, RootedAtInit, Live
<1>12. NrProcessExact' BY DEF Inv, NrProcessExact, Live
<1>13. QED
  BY <1>2, <1>3, <1>4, <1>5, <1>6, <1>7, <1>8, <1>9, <1>10, <1>11, <1>12 DEF Inv

\* A call without effect here preserves the invariant: it is quiet.
LEMMA StepSyscall ==
  ASSUME Inv, NEW p \in Proc, Syscall(p)
  PROVE  Inv'
<1>1. Quiet(p, "ret")
  BY ProcAssumption
  DEF Quiet, Syscall, cpu, stdin, Inv, TypeOK, NotPanicked, InitTakesAny
<1>2. QED BY <1>1, QuietStep

\* do_yield is quiet: it only sets need_resched.
LEMMA StepYield ==
  ASSUME Inv, NEW p \in Proc, Yield(p)
  PROVE  Inv'
<1>1. Quiet(p, "ret")
  BY ProcAssumption
  DEF Quiet, Yield, cpu, stdin, Inv, TypeOK, NotPanicked, InitTakesAny
<1>2. QED BY <1>1, QuietStep

\* The entry of a read is quiet.
LEMMA StepReadCall ==
  ASSUME Inv, NEW p \in Proc, ReadCall(p)
  PROVE  Inv'
<1>1. Quiet(p, "read")
  BY ProcAssumption
  DEF Quiet, ReadCall, cpu, stdin, Inv, TypeOK, NotPanicked, InitTakesAny
<1>2. QED BY <1>1, QuietStep

\* Taking a character from the buffer is quiet.
LEMMA StepReadChar ==
  ASSUME Inv, NEW p \in Proc, ReadChar(p)
  PROVE  Inv'
<1>1. PICK next \in {"read", "ret"} : Goto(p, next)
  BY DEF ReadChar
<1>2. Quiet(p, next)
  BY <1>1, ProcAssumption, BoundAssumption
  DEF Quiet, ReadChar, cpu, Inv, TypeOK, NotPanicked
<1>3. QED BY <1>2, QuietStep

\* The entry of do_wait is quiet.
LEMMA StepWait ==
  ASSUME Inv, NEW p \in Proc, NEW pid \in {AnyChild} \cup Proc, Wait(p, pid)
  PROVE  Inv'
<1>1. Quiet(p, "wait")
  BY ProcAssumption
  DEF Quiet, Wait, cpu, stdin, Inv, TypeOK, NotPanicked, InitTakesAny
<1>2. QED BY <1>1, QuietStep

\* init_main entering its loop is quiet.
LEMMA StepInitLoop ==
  ASSUME Inv, InitLoop
  PROVE  Inv'
<1>1. Quiet(initproc, "wait")
  BY ProcAssumption
  DEF Quiet, InitLoop, cpu, stdin, Inv, TypeOK, NotPanicked, InitTakesAny
<1>2. QED BY <1>1, QuietStep

-----------------------------------------------------------------------------
(***************************************************************************)
(* schedule().                                                             *)
(***************************************************************************)
LEMMA StepSchedule ==
  ASSUME Inv, NEW n \in Slot, Schedule(n)
  PROVE  Inv'
<1> USE ProcAssumption DEF Schedule, stdin
<1>1. /\ state[idleproc] = "RUNNABLE"
      /\ pc[idleproc] = "idle"
      /\ pc[current] \in {"idle", "preempted", "waitSched", "sleepSched",
                          "readSched", "loopSched", "exitSched"}
  BY ResumeFacts DEF Inv, TypeOK, ProcState, Interrupted, PointsOK, PointOK
<1>2. state[n] = "RUNNABLE"
  BY <1>1 DEF Pool, Inv, TypeOK, RunQueueExact
<1>3. TypeOK'
  <2>1. pc' \in [Slot -> Point]
    BY <1>1, PointFacts, ResumeFacts DEF Inv, TypeOK
  <2>2. rq' \subseteq Slot BY DEF Inv, TypeOK, Pool
  <2>3. time_slice' \in 0..MAX_TIME_SLICE BY BoundAssumption
  <2>4. QED BY <2>1, <2>2, <2>3 DEF Inv, TypeOK
<1>4. NotPanicked'
  <2>1. pc[n] \notin {"exitSched", "exitReturned"}
    BY <1>2 DEF Inv, PointsOK, PointOK
  <2>2. pc'[n] = IF n = current THEN Resume[pc[n]] ELSE pc[n]
    BY <1>3 DEF Goto, Inv, TypeOK
  <2>3. QED BY <1>1, <2>1, <2>2, ResumeFacts DEF NotPanicked
<1>5. PointsOK'
  BY <1>1, <1>2, ResumeFacts DEF Inv, TypeOK, PointsOK, PointOK, OffCpu
<1>6. InitTakesAny' BY DEF Inv, InitTakesAny
<1>7. RunQueueExact' BY <1>2 DEF Inv, TypeOK, RunQueueExact, Pool
<1>8. NoLostWakeup'
  BY DEF Inv, NoLostWakeup, WakerExists, Awaited, Zombies, Children, Live
<1>9. StackLinksLive' BY <1>1, ResumeFacts DEF Inv, TypeOK, StackLinksLive
<1>10. NoDanglingProc'
  BY <1>2 DEF Inv, TypeOK, NoDanglingProc, Live, Pool
<1>11. ParentAlive' BY DEF Inv, ParentAlive, Live
<1>12. RootedAtInit' BY DEF Inv, RootedAtInit, Live
<1>13. NrProcessExact' BY DEF Inv, NrProcessExact, Live
<1>14. QED
  BY <1>3, <1>4, <1>5, <1>6, <1>7, <1>8, <1>9, <1>10, <1>11, <1>12, <1>13 DEF Inv

-----------------------------------------------------------------------------
(***************************************************************************)
(* A step that starts and ends no process preserves the tree of processes. *)
(***************************************************************************)
LEMMA SameFamily ==
  ASSUME Inv, parent' = parent, nr_process' = nr_process,
         \A q \in Slot : (state'[q] = "UNINIT") <=> (state[q] = "UNINIT"),
         \A q \in Slot : (state'[q] = "ZOMBIE") <=> (state[q] = "ZOMBIE")
  PROVE  /\ ParentAlive' /\ RootedAtInit' /\ NrProcessExact'
         /\ \A q \in Slot : Children(q)' = Children(q)
         /\ \A q \in Slot : Zombies(Children(q))' = Zombies(Children(q))
<1>1. ParentAlive'
  BY DEF Inv, ParentAlive, Live
<1>2. RootedAtInit'
  <2> SUFFICES ASSUME NEW S \in SUBSET Proc, S # {}, \A c \in S : state'[c] # "UNINIT"
               PROVE  \E c \in S : parent[c] \notin S
    BY DEF RootedAtInit, Live
  <2>1. \A c \in S : Live(c) BY DEF Live
  <2>2. QED BY <2>1 DEF Inv, RootedAtInit
<1>3. NrProcessExact'
  <2>1. { q \in Proc : state'[q] # "UNINIT" } = { q \in Proc : state[q] # "UNINIT" }
    OBVIOUS
  <2>2. QED BY <2>1 DEF Inv, NrProcessExact, Live
<1>4. \A q \in Slot : Children(q)' = Children(q)
  BY DEF Children, Live
<1>5. \A q \in Slot : Zombies(Children(q))' = Zombies(Children(q))
  BY DEF Children, Zombies, Live
<1>6. QED BY <1>1, <1>2, <1>3, <1>4, <1>5

(***************************************************************************)
(* Blocking.  The process on the CPU is RUNNABLE wherever it runs code, so *)
(* it is in no queue when it goes to sleep.                                *)
(***************************************************************************)
LEMMA StepWaitSleep ==
  ASSUME Inv, NEW p \in Proc \cup {initproc}, WaitSleep(p)
  PROVE  Inv'
<1> USE ProcAssumption, BoundAssumption DEF WaitSleep, cpu, stdin
<1>1. TypeOK' BY PointFacts DEF Inv, TypeOK, ProcState, Interrupted
<1>2. NotPanicked' /\ InitTakesAny' BY DEF Inv, NotPanicked, InitTakesAny
<1>3. PointsOK' BY DEF Inv, TypeOK, PointsOK, PointOK, OffCpu
<1>4. RunQueueExact' BY DEF Inv, TypeOK, RunQueueExact
<1>5. NoLostWakeup'
  BY DEF Inv, TypeOK, NoLostWakeup, WakerExists, Awaited, Zombies, Children, Live
<1>6. StackLinksLive' BY DEF Inv, TypeOK, StackLinksLive
<1>7. NoDanglingProc' BY DEF Inv, TypeOK, NoDanglingProc, Live
<1>8. ParentAlive' /\ RootedAtInit' /\ NrProcessExact'
  <2>1. state[p] = "RUNNABLE"
    BY DEF Inv, TypeOK, ProcState, PointsOK, PointOK
  <2>2. QED BY <2>1, SameFamily DEF Inv, TypeOK
<1>9. QED
  BY <1>1, <1>2, <1>3, <1>4, <1>5, <1>6, <1>7, <1>8 DEF Inv

\* do_sleep queues its timer before it blocks.
LEMMA StepSleep ==
  ASSUME Inv, NEW p \in Proc, NEW ticks \in 1..MaxSleep, Sleep(p, ticks)
  PROVE  Inv'
<1> USE ProcAssumption, BoundAssumption DEF Sleep, cpu, stdin
<1>1. TypeOK' BY PointFacts DEF Inv, TypeOK, ProcState, Interrupted
<1>2. NotPanicked' /\ InitTakesAny' BY DEF Inv, NotPanicked, InitTakesAny
<1>3. PointsOK' BY DEF Inv, TypeOK, PointsOK, PointOK, OffCpu
<1>4. RunQueueExact' BY DEF Inv, TypeOK, RunQueueExact
<1>5. NoLostWakeup'
  BY DEF Inv, TypeOK, NoLostWakeup, WakerExists, Awaited, Zombies, Children, Live
<1>6. StackLinksLive' BY DEF Inv, TypeOK, StackLinksLive
<1>7. NoDanglingProc' BY DEF Inv, TypeOK, NoDanglingProc, Live
<1>8. ParentAlive' /\ RootedAtInit' /\ NrProcessExact'
  <2>1. state[p] = "RUNNABLE"
    BY DEF Inv, TypeOK, ProcState, PointsOK, PointOK
  <2>2. QED BY <2>1, SameFamily DEF Inv, TypeOK
<1>9. QED
  BY <1>1, <1>2, <1>3, <1>4, <1>5, <1>6, <1>7, <1>8 DEF Inv

\* wait_current_set queues the reader, and the buffer is empty, before it blocks.
LEMMA StepReadSleep ==
  ASSUME Inv, NEW p \in Proc, ReadSleep(p)
  PROVE  Inv'
<1> USE ProcAssumption, BoundAssumption DEF ReadSleep, cpu
<1>1. TypeOK' BY PointFacts DEF Inv, TypeOK, ProcState, Interrupted
<1>2. NotPanicked' /\ InitTakesAny' BY DEF Inv, NotPanicked, InitTakesAny
<1>3. PointsOK' BY DEF Inv, TypeOK, PointsOK, PointOK, OffCpu
<1>4. RunQueueExact' BY DEF Inv, TypeOK, RunQueueExact
<1>5. NoLostWakeup'
  BY DEF Inv, TypeOK, NoLostWakeup, WakerExists, Awaited, Zombies, Children, Live
<1>6. StackLinksLive' BY DEF Inv, TypeOK, StackLinksLive
<1>7. NoDanglingProc' BY DEF Inv, TypeOK, NoDanglingProc, Live
<1>8. ParentAlive' /\ RootedAtInit' /\ NrProcessExact'
  <2>1. state[p] = "RUNNABLE"
    BY DEF Inv, TypeOK, ProcState, PointsOK, PointOK
  <2>2. QED BY <2>1, SameFamily DEF Inv, TypeOK
<1>9. QED
  BY <1>1, <1>2, <1>3, <1>4, <1>5, <1>6, <1>7, <1>8 DEF Inv

(***************************************************************************)
(* After schedule(): a local timer or wait is unlinked before the call     *)
(* returns.                                                                *)
(***************************************************************************)
LEMMA StepSleepWoken ==
  ASSUME Inv, NEW p \in Proc, SleepWoken(p)
  PROVE  Inv'
<1> USE ProcAssumption, BoundAssumption DEF SleepWoken, DelTimer, AfterCall, cpu,
                                              stdin
<1>1. TypeOK' BY PointFacts DEF Inv, TypeOK
<1>2. NotPanicked' /\ InitTakesAny' BY DEF Inv, NotPanicked, InitTakesAny
<1>3. PointsOK' BY DEF Inv, TypeOK, PointsOK, PointOK, OffCpu
<1>4. RunQueueExact' BY DEF Inv, RunQueueExact
<1>5. NoLostWakeup'
  BY DEF Inv, TypeOK, PointsOK, PointOK, NoLostWakeup, WakerExists, Awaited,
         Zombies, Children, Live
<1>6. StackLinksLive' BY DEF Inv, TypeOK, StackLinksLive
<1>7. NoDanglingProc' BY DEF Inv, TypeOK, NoDanglingProc, Live
<1>8. ParentAlive' /\ RootedAtInit' /\ NrProcessExact' BY SameFamily
<1>9. QED
  BY <1>1, <1>2, <1>3, <1>4, <1>5, <1>6, <1>7, <1>8 DEF Inv

\* dev_stdin_read after schedule(): wait_current_del, then the next character or the end.
LEMMA StepReadWoken ==
  ASSUME Inv, NEW p \in Proc, ReadWoken(p)
  PROVE  Inv'
<1> USE ProcAssumption, BoundAssumption DEF ReadWoken, cpu
<1>1. TypeOK' BY PointFacts DEF Inv, TypeOK
<1>2. NotPanicked' /\ InitTakesAny' BY DEF Inv, NotPanicked, InitTakesAny
<1>3. PointsOK' BY DEF Inv, TypeOK, PointsOK, PointOK, OffCpu
<1>4. RunQueueExact' BY DEF Inv, RunQueueExact
<1>5. NoLostWakeup'
  BY DEF Inv, TypeOK, PointsOK, PointOK, NoLostWakeup, WakerExists, Awaited,
         Zombies, Children, Live
<1>6. StackLinksLive' BY DEF Inv, TypeOK, StackLinksLive
<1>7. NoDanglingProc' BY DEF Inv, TypeOK, NoDanglingProc, Live
<1>8. ParentAlive' /\ RootedAtInit' /\ NrProcessExact' BY SameFamily
<1>9. QED
  BY <1>1, <1>2, <1>3, <1>4, <1>5, <1>6, <1>7, <1>8 DEF Inv

-----------------------------------------------------------------------------
(***************************************************************************)
(* wakeup_proc.  A RUNNABLE process is in the pool or on the CPU, and one  *)
(* that is neither freed nor a zombie may be given to wakeup_proc.         *)
(***************************************************************************)
LEMMA WakeupStep ==
  ASSUME Inv, NEW W \in SUBSET Slot,
         \A p \in W : state[p] \notin {"UNINIT", "ZOMBIE"},
         Wakeup(W, state, wait_state),
         current' = current, parent' = parent, nr_process' = nr_process
  PROVE  /\ state' \in [Slot -> ProcState]
         /\ wait_state' \in [Slot -> Interrupted \cup {"0"}]
         /\ rq' \subseteq Slot
         /\ panicked' \in BOOLEAN /\ NotPanicked'
         /\ \A p \in Slot : state'[p] = IF p \in W THEN "RUNNABLE" ELSE state[p]
         /\ \A p \in Slot : wait_state'[p] = IF p \in W THEN "0" ELSE wait_state[p]
         /\ RunQueueExact' /\ ParentAlive' /\ RootedAtInit' /\ NrProcessExact'
         /\ \A q \in Slot : Children(q)' = Children(q)
         /\ \A q \in Slot : Zombies(Children(q))' = Zombies(Children(q))
<1> USE DEF Wakeup
<1>1. state' \in [Slot -> ProcState] /\ wait_state' \in [Slot -> Interrupted \cup {"0"}]
  BY DEF Inv, TypeOK, ProcState
<1>2. rq' \subseteq Slot BY DEF Enqueued, Inv, TypeOK
<1>3. panicked' = FALSE
  <2>1. ~ \E p \in W : state[p] = "ZOMBIE" OBVIOUS
  <2>2. QED BY <2>1 DEF Inv, NotPanicked
<1>4. \A p \in Slot : state'[p] = IF p \in W THEN "RUNNABLE" ELSE state[p]
  OBVIOUS
<1>5. \A p \in Slot : wait_state'[p] = IF p \in W THEN "0" ELSE wait_state[p]
  BY DEF Inv, PointsOK, PointOK
<1>6. RunQueueExact'
  BY <1>4, ProcAssumption DEF Inv, RunQueueExact, Enqueued
<1>7. /\ \A q \in Slot : (state'[q] = "UNINIT") <=> (state[q] = "UNINIT")
      /\ \A q \in Slot : (state'[q] = "ZOMBIE") <=> (state[q] = "ZOMBIE")
  BY <1>4
<1>8. QED BY <1>1, <1>2, <1>3, <1>4, <1>5, <1>6, <1>7, SameFamily DEF NotPanicked

\* The timer interrupt wakes exactly the sleepers whose timer leaves the list.
LEMMA StepTick ==
  ASSUME Inv, Tick
  PROVE  Inv'
<1> USE ProcAssumption, BoundAssumption DEF Tick, stdin
<1>1. /\ Expiring \in SUBSET Slot
      /\ \A p \in Expiring : state[p] \notin {"UNINIT", "ZOMBIE"}
  BY DEF Expiring, Inv, TypeOK, StackLinksLive, PointsOK, PointOK
<1>2. pc' \in [Slot -> Point] /\ left' \in [Slot -> 0..MaxSleep]
  BY PointFacts DEF Inv, TypeOK
<1>3. time_slice' \in 0..MAX_TIME_SLICE /\ need_resched' \in BOOLEAN
  <2>1. CASE current = idleproc BY <2>1 DEF Inv, TypeOK
  <2>2. CASE current # idleproc BY <2>2 DEF Inv, TypeOK
  <2>3. QED BY <2>1, <2>2
<1>4. TypeOK' BY <1>1, <1>2, <1>3, WakeupStep DEF Inv, TypeOK
<1>5. NotPanicked' /\ InitTakesAny' BY <1>1, WakeupStep DEF Inv, InitTakesAny
<1>6. PointsOK'
  BY <1>1, WakeupStep DEF Inv, TypeOK, PointsOK, PointOK, OffCpu
<1>7. RunQueueExact' /\ ParentAlive' /\ RootedAtInit' /\ NrProcessExact'
  BY <1>1, WakeupStep
<1>8. NoLostWakeup'
  <2> SUFFICES ASSUME NEW p \in Slot, state'[p] = "SLEEPING" PROVE WakerExists(p)'
    BY DEF NoLostWakeup
  <2>1. p \notin Expiring /\ state[p] = "SLEEPING" /\ wait_state'[p] = wait_state[p]
    BY <1>1, WakeupStep
  <2>2. Awaited(p)' = Awaited(p) /\ Zombies(Awaited(p))' = Zombies(Awaited(p))
    BY <1>1, WakeupStep DEF Awaited, Zombies
  <2>3. QED
    BY <2>1, <2>2 DEF Inv, TypeOK, NoLostWakeup, WakerExists, Expiring
<1>9. StackLinksLive' BY DEF Inv, TypeOK, StackLinksLive
<1>10. NoDanglingProc'
  <2>1. \A p \in Proc : ~Live(p)' => ~Live(p) /\ p \notin rq' /\ state[p] = "UNINIT"
    BY <1>1, WakeupStep DEF Live, RunQueueExact
  <2>2. \A p \in Proc : Live(p)' => Live(p)
    BY <1>1, WakeupStep DEF Live
  <2>3. QED BY <2>1, <2>2 DEF Inv, TypeOK, NoDanglingProc
<1>11. QED
  BY <1>4, <1>5, <1>6, <1>7, <1>8, <1>9, <1>10 DEF Inv

\* The keyboard interrupt empties the wait queue and wakes all that was in it.
LEMMA StepKeyPress ==
  ASSUME Inv, KeyPress
  PROVE  Inv'
<1> USE ProcAssumption, BoundAssumption DEF KeyPress
<1>1. /\ kbdq \in SUBSET Slot
      /\ \A p \in kbdq : state[p] \notin {"UNINIT", "ZOMBIE"}
  BY DEF Inv, TypeOK, StackLinksLive, PointsOK, PointOK
<1>2. pc' \in [Slot -> Point] /\ chars' \in 0..STDIN_BUFSIZE
  BY PointFacts DEF Inv, TypeOK, Stored
<1>3. TypeOK' BY <1>1, <1>2, WakeupStep DEF Inv, TypeOK
<1>4. NotPanicked' /\ InitTakesAny' BY <1>1, WakeupStep DEF Inv, InitTakesAny
<1>5. PointsOK'
  BY <1>1, WakeupStep DEF Inv, TypeOK, PointsOK, PointOK, OffCpu
<1>6. RunQueueExact' /\ ParentAlive' /\ RootedAtInit' /\ NrProcessExact'
  BY <1>1, WakeupStep
<1>7. NoLostWakeup'
  <2> SUFFICES ASSUME NEW p \in Slot, state'[p] = "SLEEPING" PROVE WakerExists(p)'
    BY DEF NoLostWakeup
  <2>1. p \notin kbdq /\ state[p] = "SLEEPING" /\ wait_state'[p] = wait_state[p]
    BY <1>1, WakeupStep
  <2>2. Awaited(p)' = Awaited(p) /\ Zombies(Awaited(p))' = Zombies(Awaited(p))
    BY <1>1, WakeupStep DEF Awaited, Zombies
  <2>3. QED
    BY <2>1, <2>2 DEF Inv, NoLostWakeup, WakerExists
<1>8. StackLinksLive' BY DEF Inv, TypeOK, StackLinksLive
<1>9. NoDanglingProc'
  <2>1. \A p \in Proc : ~Live(p)' => ~Live(p) /\ p \notin rq' /\ state[p] = "UNINIT"
    BY <1>1, WakeupStep DEF Live, RunQueueExact
  <2>2. \A p \in Proc : Live(p)' => Live(p)
    BY <1>1, WakeupStep DEF Live
  <2>3. QED BY <2>1, <2>2 DEF Inv, NoDanglingProc
<1>10. QED
  BY <1>3, <1>4, <1>5, <1>6, <1>7, <1>8, <1>9 DEF Inv

\* do_kill wakes a process whose wait is interrupted.
LEMMA StepKill ==
  ASSUME Inv, NEW p \in Proc, NEW q \in Killable, Kill(p, q)
  PROVE  Inv'
<1> USE ProcAssumption DEF Kill, stdin
<1> DEFINE W == IF exiting[q] \/ wait_state[q] \notin Interrupted THEN {} ELSE {q}
<1>1. /\ W \in SUBSET Slot
      /\ \A r \in W : state[r] \notin {"UNINIT", "ZOMBIE"}
      /\ Wakeup(W, state, wait_state)
      /\ current' = current /\ parent' = parent /\ nr_process' = nr_process
  BY DEF Interrupted, Inv, TypeOK, PointsOK, PointOK
<1> HIDE DEF W
<1>2. pc' \in [Slot -> Point] /\ exiting' \in [Slot -> BOOLEAN]
  BY PointFacts DEF Inv, TypeOK
<1>3. TypeOK' BY <1>1, <1>2, WakeupStep DEF Inv, TypeOK
<1>4. NotPanicked' /\ InitTakesAny' BY <1>1, WakeupStep DEF Inv, InitTakesAny
<1>5. PointsOK'
  BY <1>1, WakeupStep DEF Inv, TypeOK, PointsOK, PointOK, OffCpu
<1>6. RunQueueExact' /\ ParentAlive' /\ RootedAtInit' /\ NrProcessExact'
  BY <1>1, WakeupStep
<1>7. NoLostWakeup'
  <2> SUFFICES ASSUME NEW r \in Slot, state'[r] = "SLEEPING" PROVE WakerExists(r)'
    BY DEF NoLostWakeup
  <2>1. state[r] = "SLEEPING" /\ wait_state'[r] = wait_state[r]
    BY <1>1, WakeupStep
  <2>2. Awaited(r)' = Awaited(r) /\ Zombies(Awaited(r))' = Zombies(Awaited(r))
    BY <1>1, WakeupStep DEF Awaited, Zombies
  <2>3. QED
    BY <2>1, <2>2 DEF Inv, NoLostWakeup, WakerExists
<1>8. StackLinksLive' BY DEF Inv, TypeOK, StackLinksLive
<1>9. NoDanglingProc'
  <2>1. \A r \in Proc : ~Live(r)' => ~Live(r) /\ r \notin rq' /\ state[r] = "UNINIT"
    BY <1>1, WakeupStep DEF Live, RunQueueExact
  <2>2. \A r \in Proc : Live(r)' => Live(r)
    BY <1>1, WakeupStep DEF Live
  <2>3. QED BY <2>1, <2>2 DEF Inv, NoDanglingProc
<1>10. QED
  BY <1>3, <1>4, <1>5, <1>6, <1>7, <1>8, <1>9 DEF Inv

-----------------------------------------------------------------------------
(***************************************************************************)
(* do_exit: the parent is no zombie, so wakeup_proc may be called for it,  *)
(* and no process is left with the zombie as its parent.                   *)
(***************************************************************************)
LEMMA StepExit ==
  ASSUME Inv, NEW p \in Proc, current = p, Exit(p),
         pc[p] \in {"user", "kernel", "ret", "waitWoken"}
  PROVE  Inv'
<1> USE ProcAssumption DEF Exit, stdin
<1> DEFINE W == WokenByExit(p)
           zombie == [state EXCEPT ![p] = "ZOMBIE"]
<1>1. /\ state[p] = "RUNNABLE" /\ wait_state[p] = "0"
      /\ parent[p] \in Proc \cup {initproc}
      /\ \A c \in Proc : Live(c) => parent[c] # c
  <2>1. state[p] = "RUNNABLE" /\ wait_state[p] = "0"
    BY DEF Inv, TypeOK, ProcState, PointsOK, PointOK
  <2>2. parent[p] \in Proc \cup {initproc}
    BY <2>1 DEF Inv, ParentAlive, Live
  <2>3. ASSUME NEW c \in Proc, Live(c) PROVE parent[c] # c
    <3>1. {c} \in SUBSET Proc /\ {c} # {} /\ \A d \in {c} : Live(d)
      BY <2>3
    <3>2. QED BY <3>1 DEF Inv, RootedAtInit
  <2>4. QED BY <2>1, <2>2, <2>3
<1>2. /\ W \in SUBSET (Slot \ {p})
      /\ \A q \in W : state[q] = "SLEEPING" /\ wait_state[q] = "CHILD"
  BY <1>1 DEF WokenByExit, WokenParent, WokenInit, Inv, PointsOK, PointOK
<1>3. /\ state' = [q \in Slot |-> IF q \in W THEN "RUNNABLE" ELSE zombie[q]]
      /\ wait_state' = [q \in Slot |-> IF q \in W /\ zombie[q] # "RUNNABLE"
                                         THEN "0" ELSE wait_state[q]]
      /\ rq' = rq \cup Enqueued(W, zombie)
  BY DEF Wakeup
<1>4. panicked' = FALSE
  <2>1. ~ \E q \in W : zombie[q] = "ZOMBIE"
    BY <1>2 DEF Inv, TypeOK
  <2>2. QED BY <2>1 DEF Wakeup, Inv, NotPanicked
<1> HIDE DEF W
<1>5. \A q \in Slot : /\ state'[q] = IF q = p THEN "ZOMBIE"
                                     ELSE IF q \in W THEN "RUNNABLE" ELSE state[q]
                      /\ wait_state'[q] = IF q \in W THEN "0" ELSE wait_state[q]
  BY <1>1, <1>2, <1>3 DEF Inv, TypeOK
<1>6. \A q \in Slot : parent'[q] = IF q \in Children(p) THEN initproc ELSE parent[q]
  BY DEF Reparent
<1>7. TypeOK'
  <2>1. state' \in [Slot -> ProcState] /\ wait_state' \in [Slot -> Interrupted \cup {"0"}]
    BY <1>3, <1>5 DEF Inv, TypeOK, ProcState
  <2>2. pc' \in [Slot -> Point] /\ rq' \subseteq Slot
    BY <1>2, <1>3, PointFacts DEF Enqueued, Inv, TypeOK
  <2>3. parent' \in [Slot -> Slot \cup {NoProc}]
    BY DEF Reparent, Inv, TypeOK
  <2>4. waitpid' \in [Slot -> Proc \cup {AnyChild}]
    BY DEF Inv, TypeOK
  <2>5. QED BY <1>4, <2>1, <2>2, <2>3, <2>4 DEF Inv, TypeOK
<1>8. NotPanicked' /\ InitTakesAny' BY <1>4 DEF NotPanicked, Inv, InitTakesAny, TypeOK
<1>9. PointsOK'
  BY <1>1, <1>2, <1>5 DEF Inv, TypeOK, PointsOK, PointOK, OffCpu
<1>10. RunQueueExact'
  <2>1. \A q \in Slot \ {idleproc} : q \in rq' <=> q \in rq \/ q \in W
    BY <1>1, <1>2, <1>3 DEF Enqueued, Inv, TypeOK
  <2>2. idleproc \notin rq'
    BY <1>3 DEF Enqueued, Inv, RunQueueExact
  <2>3. QED BY <1>1, <1>2, <1>5, <2>1, <2>2 DEF Inv, RunQueueExact
<1>11. \A q \in Proc : Live(q)' <=> Live(q)
  BY <1>1, <1>2, <1>5 DEF Live
<1>12. NoLostWakeup'
  <2> SUFFICES ASSUME NEW q \in Slot, state'[q] = "SLEEPING" PROVE WakerExists(q)'
    BY DEF NoLostWakeup
  <2>1. /\ q # p /\ q \notin W /\ state[q] = "SLEEPING" /\ wait_state'[q] = wait_state[q]
        /\ waitpid'[q] = waitpid[q]
    BY <1>5 DEF Inv, TypeOK
  <2>2. WakerExists(q) BY <2>1 DEF Inv, NoLostWakeup
  <2>3. CASE wait_state[q] = "CHILD"
    <3>1. parent[p] # q BY <2>1, <2>3 DEF W, WokenByExit, WokenParent
    <3>2. q = initproc => Zombies(Children(p)) = {}
      BY <2>1, <2>3 DEF W, WokenByExit, WokenInit
    <3>3. \A c \in Proc : (Live(c) /\ parent[c] = q) => (Live(c) /\ parent[c] = q)'
      BY <1>6, <1>11, <2>1 DEF Children
    <3>4. \A c \in Proc : (Live(c) /\ parent[c] = q)' =>
             \/ Live(c) /\ parent[c] = q
             \/ c \in Children(p) /\ q = initproc
      BY <1>6, <1>11
    <3>5. ASSUME NEW c \in Proc, (Live(c) /\ parent[c] = q)', waitpid[q] \in {AnyChild, c}
          PROVE  state'[c] # "ZOMBIE"
      <4>1. CASE Live(c) /\ parent[c] = q
        <5>1. c # p /\ state[c] # "ZOMBIE"
          BY <2>2, <2>3, <3>1, <3>5, <4>1 DEF WakerExists, Awaited, Zombies, Children
        <5>2. QED BY <1>5, <5>1
      <4>2. CASE c \in Children(p) /\ q = initproc
        <5>1. c # p BY <1>1, <4>2 DEF Children
        <5>2. state[c] # "ZOMBIE" BY <3>2, <4>2 DEF Zombies
        <5>3. QED BY <1>5, <5>1, <5>2
      <4>3. QED BY <3>4, <3>5, <4>1, <4>2
    <3>6. QED BY <2>1, <2>2, <2>3, <3>3, <3>5 DEF WakerExists, Awaited, Zombies, Children
  <2>4. CASE wait_state[q] # "CHILD"
    BY <2>1, <2>2, <2>4 DEF WakerExists
  <2>5. QED BY <2>3, <2>4
<1>13. StackLinksLive' BY DEF Inv, TypeOK, StackLinksLive
<1>14. NoDanglingProc'
  <2>1. \A q \in Proc : ~Live(q) => q \notin rq'
    BY <1>2, <1>3 DEF Enqueued, Live, Inv, NoDanglingProc, TypeOK
  <2>2. QED BY <1>6, <1>11, <2>1 DEF Inv, NoDanglingProc
<1>15. ParentAlive'
  <2> SUFFICES ASSUME NEW c \in Proc, Live(c)
               PROVE  /\ parent'[c] \in Proc \cup {initproc}
                      /\ state'[parent'[c]] \notin {"UNINIT", "ZOMBIE"}
    BY <1>11 DEF ParentAlive
  <2>1. state[initproc] \notin {"UNINIT", "ZOMBIE"}
    BY DEF Inv, PointsOK, PointOK
  <2>2. CASE c \in Children(p) BY <1>5, <1>6, <2>1, <2>2
  <2>3. CASE c \notin Children(p)
    BY <1>1, <1>5, <1>6, <2>3 DEF Inv, ParentAlive, Children
  <2>4. QED BY <2>2, <2>3
<1>16. RootedAtInit'
  <2> SUFFICES ASSUME NEW S \in SUBSET Proc, S # {}, \A c \in S : Live(c)
               PROVE  \E c \in S : parent'[c] \notin S
    BY <1>11 DEF RootedAtInit
  <2>1. PICK c \in S : parent[c] \notin S BY DEF Inv, RootedAtInit
  <2>2. QED BY <1>6, <2>1
<1>17. NrProcessExact'
  <2>1. { q \in Proc : state'[q] # "UNINIT" } = { q \in Proc : state[q] # "UNINIT" }
    BY <1>11 DEF Live
  <2>2. QED BY <2>1 DEF Inv, NrProcessExact, Live
<1>18. QED
  BY <1>7, <1>8, <1>9, <1>10, <1>12, <1>13, <1>14, <1>15, <1>16, <1>17 DEF Inv

\* do_exit is only called by user processes and kernel threads, never by init or idle.
LEMMA StepDoExit ==
  ASSUME Inv, NEW p \in Proc, current = p, DoExit(p),
         pc[p] \in {"user", "kernel", "ret", "waitWoken"}
  PROVE  Inv'
  BY StepExit, ProcAssumption DEF DoExit

\* The end of trap(): the process exits or goes on.
LEMMA StepTrapReturn ==
  ASSUME Inv, NEW p \in Proc \cup {initproc}, TrapReturn(p)
  PROVE  Inv'
<1> USE ProcAssumption DEF TrapReturn
<1>1. p \in Proc BY DEF Inv, PointsOK, PointOK
<1>2. CASE exiting[p] /\ DoExit(p) BY <1>1, <1>2, StepDoExit
<1>3. CASE ~exiting[p]
  <2>1. Quiet(p, IF need_resched THEN "preempted" ELSE "user")
    BY <1>1, <1>3 DEF Quiet, cpu, stdin, Inv, TypeOK, NotPanicked
  <2>2. QED BY <2>1, QuietStep
<1>4. QED BY <1>2, <1>3

\* The panic of do_exit for a killed init leaves everything as it was.
LEMMA InitStops ==
  ASSUME Inv, pc[initproc] = "waitWoken", exiting[initproc], InitExit
  PROVE  Stopped'
<1> USE ProcAssumption DEF InitExit, cpu, stdin
<1>1. TypeOK' BY PointFacts DEF Inv, TypeOK
<1>2. panicked' /\ pc'[initproc] = "initExit" /\ exiting'[initproc]
  BY DEF Inv, TypeOK
<1>3. StackLinksLive'
  <2>1. left[initproc] = 0 /\ initproc \notin kbdq
    BY DEF Inv, TypeOK, StackLinksLive
  <2>2. \A q \in Slot : q # initproc => pc'[q] = pc[q]
    BY DEF Inv, TypeOK
  <2>3. QED BY <2>1, <2>2 DEF Inv, StackLinksLive
<1>4. NoLostWakeup'
  BY DEF Inv, NoLostWakeup, WakerExists, Awaited, Zombies, Children, Live
<1>5. RunQueueExact' /\ NoDanglingProc'
  BY DEF Inv, RunQueueExact, NoDanglingProc, Live
<1>6. ParentAlive' /\ NrProcessExact'
  BY DEF Inv, ParentAlive, NrProcessExact, Live
<1>7. QED BY <1>1, <1>2, <1>3, <1>4, <1>5, <1>6 DEF Stopped

\* After schedule() in do_wait: the process exits or scans again; a killed init
\* stops the kernel.
LEMMA StepWaitWoken ==
  ASSUME Inv, NEW p \in Proc \cup {initproc}, WaitWoken(p)
  PROVE  Inv' \/ (InitExit /\ Stopped')
<1> USE ProcAssumption DEF WaitWoken
<1>1. CASE exiting[p] /\ DoExit(p)
  <2>1. CASE p \in Proc BY <1>1, <2>1, StepDoExit
  <2>2. CASE p = initproc BY <1>1, <2>2, InitStops DEF DoExit
  <2>3. QED BY <2>1, <2>2
<1>2. CASE ~exiting[p]
  <2>1. Quiet(p, "wait")
    BY <1>2 DEF Quiet, cpu, stdin, Inv, TypeOK, NotPanicked, InitTakesAny
  <2>2. QED BY <2>1, QuietStep
<1>3. QED BY <1>1, <1>2

(***************************************************************************)
(* do_fork.  The new process is in no queue and no set of processes that   *)
(* are closed under parent contains it, for its parent is older.           *)
(***************************************************************************)
LEMMA StepDoFork ==
  ASSUME Inv, NEW p \in Proc \cup {initproc}, NEW c \in Proc, NEW next,
         current = p, DoFork(p, c, next), state[p] = "RUNNABLE", ~panicked,
         \/ p \in Proc /\ pc[p] = "user" /\ next = "ret"
         \/ p = initproc /\ pc[p] \in {"main", "spawn"} /\ next = "spawn"
  PROVE  Inv'
<1> USE ProcAssumption DEF DoFork, stdin
<1>1. c # p /\ wait_state[c] = "0" /\ c # current
  BY DEF Inv, PointsOK, PointOK
<1>2. /\ state' = [q \in Slot |-> IF q \in {c} THEN "RUNNABLE" ELSE state[q]]
      /\ wait_state' = [q \in Slot |-> IF q \in {c} /\ state[q] # "RUNNABLE"
                                         THEN "0" ELSE wait_state[q]]
      /\ rq' = rq \cup {c}
  BY <1>1 DEF Wakeup, Enqueued
<1>3. panicked' = FALSE
  <2>1. ~ \E q \in {c} : state[q] = "ZOMBIE" OBVIOUS
  <2>2. QED BY <2>1 DEF Wakeup, Inv, NotPanicked
<1>4. \A q \in Slot : /\ state'[q] = IF q = c THEN "RUNNABLE" ELSE state[q]
                      /\ wait_state'[q] = wait_state[q]
                      /\ parent'[q] = IF q = c THEN p ELSE parent[q]
  BY <1>1, <1>2 DEF Inv, TypeOK
<1>5. TypeOK'
  <2>1. state' \in [Slot -> ProcState] /\ wait_state' \in [Slot -> Interrupted \cup {"0"}]
    BY <1>2, <1>4 DEF Inv, TypeOK, ProcState
  <2>2. pc' \in [Slot -> Point]
    BY PointFacts DEF Inv, TypeOK
  <2>3. exiting' \in [Slot -> BOOLEAN]
    BY DEF Inv, TypeOK
  <2>4. rq' \subseteq Slot /\ parent' \in [Slot -> Slot \cup {NoProc}] /\ nr_process' \in Nat
    BY <1>2 DEF Inv, TypeOK
  <2>5. QED BY <1>3, <2>1, <2>2, <2>3, <2>4 DEF Inv, TypeOK
<1>6. NotPanicked' /\ InitTakesAny'
  BY <1>3 DEF NotPanicked, Inv, InitTakesAny, TypeOK
<1>7. PointsOK'
  BY <1>1, <1>4 DEF Inv, TypeOK, PointsOK, PointOK, OffCpu
<1>8. RunQueueExact'
  BY <1>1, <1>2, <1>4 DEF Inv, RunQueueExact
<1>9. \A q \in Proc : Live(q)' <=> Live(q) \/ q = c
  BY <1>4 DEF Live
<1>10. NoLostWakeup'
  <2> SUFFICES ASSUME NEW q \in Slot, state'[q] = "SLEEPING" PROVE WakerExists(q)'
    BY DEF NoLostWakeup
  <2>1. /\ q # p /\ q # c /\ state[q] = "SLEEPING" /\ wait_state'[q] = wait_state[q]
        /\ WakerExists(q)
    BY <1>4 DEF Inv, NoLostWakeup
  <2>2. \A d \in Proc : (Live(d) /\ parent[d] = q)' <=> (Live(d) /\ parent[d] = q)
    BY <1>4, <1>9, <2>1 DEF Live
  <2>3. \A d \in Proc : Live(d) => state'[d] = state[d]
    BY <1>4 DEF Live
  <2>4. Awaited(q)' = Awaited(q) /\ Zombies(Awaited(q))' = Zombies(Awaited(q))
    BY <2>2, <2>3 DEF Awaited, Children, Zombies
  <2>5. QED BY <2>1, <2>4 DEF WakerExists
<1>11. StackLinksLive'
  <2>1. pc[c] = "none" BY DEF Inv, PointsOK, PointOK
  <2>2. left[c] \in Nat /\ left[p] \in Nat BY BoundAssumption DEF Inv, TypeOK
  <2>3. ~(left[c] > 0) /\ ~(left[p] > 0) /\ c \notin kbdq /\ p \notin kbdq
    BY <2>1, <2>2 DEF Inv, StackLinksLive
  <2>4. \A q \in Slot \ {c, p} : pc'[q] = pc[q]
    BY DEF Inv, TypeOK
  <2>5. QED BY <2>3, <2>4 DEF Inv, StackLinksLive
<1>12. NoDanglingProc'
  <2> SUFFICES ASSUME NEW q \in Proc, ~Live(q), q # c
               PROVE  /\ q \notin rq' \cup kbdq /\ left[q] = 0 /\ current # q
                      /\ \A d \in Proc : Live(d) \/ d = c => parent'[d] # q
    BY <1>9 DEF NoDanglingProc
  <2>1. q \notin rq' \cup kbdq /\ left[q] = 0 /\ current # q
    BY <1>2 DEF Inv, NoDanglingProc
  <2>2. p # q BY DEF Live
  <2>3. QED BY <1>4, <2>1, <2>2 DEF Inv, NoDanglingProc
<1>13. ParentAlive'
  BY <1>1, <1>4, <1>9 DEF Inv, ParentAlive
<1>14. RootedAtInit'
  <2> SUFFICES ASSUME NEW S \in SUBSET Proc, S # {}, \A d \in S : Live(d) \/ d = c
               PROVE  \E d \in S : parent'[d] \notin S
    BY <1>9 DEF RootedAtInit
  <2>1. CASE S = {c} BY <1>1, <1>4, <2>1
  <2>2. CASE S # {c}
    <3>1. RootedAtInit BY DEF Inv
    <3>2. PICK T \in SUBSET Proc : T = S \ {c}
      OBVIOUS
    <3>3. T # {} /\ \A d \in T : Live(d) BY <2>2, <3>2
    <3>4. PICK d \in T : parent[d] \notin T
      BY <3>1, <3>3 DEF RootedAtInit
    <3>5. parent[d] # c
      BY <3>3, <3>4 DEF Inv, NoDanglingProc, Live
    <3>6. QED BY <1>4, <3>2, <3>4, <3>5
  <2>3. QED BY <2>1, <2>2
<1>15. NrProcessExact'
  <2> DEFINE L == { q \in Proc : Live(q) }
  <2>1. { q \in Proc : Live(q)' } = L \cup {c} BY <1>9
  <2>2. IsFiniteSet(L) /\ c \notin L
    BY FS_Subset DEF Live
  <2>3. Cardinality(L \cup {c}) = Cardinality(L) + 1 /\ Cardinality(L) \in Nat
    BY <2>2, FS_AddElement, FS_CardinalityType
  <2>4. nr_process' = Cardinality(L \cup {c}) + 2
    BY <2>3 DEF Inv, NrProcessExact
  <2>5. QED BY <2>1, <2>4 DEF NrProcessExact
<1>16. QED
  BY <1>5, <1>6, <1>7, <1>8, <1>10, <1>11, <1>12, <1>13, <1>14, <1>15 DEF Inv

\* fork(): the assertion on wait_state holds, as the caller runs.
LEMMA StepFork ==
  ASSUME Inv, NEW p \in Proc, NEW c \in Proc, Fork(p, c)
  PROVE  Inv'
<1>1. state[p] = "RUNNABLE" /\ wait_state[p] = "0"
  BY DEF Fork, Inv, TypeOK, ProcState, PointsOK, PointOK
<1>2. QED BY <1>1, StepDoFork DEF Fork

\* init_main forks like any process.
LEMMA StepInitFork ==
  ASSUME Inv, NEW c \in Proc, InitUserMain(c) \/ InitKThread(c)
  PROVE  Inv'
<1>1. state[initproc] = "RUNNABLE"
  BY ProcAssumption DEF InitUserMain, InitKThread, Inv, TypeOK, ProcState, PointsOK, PointOK
<1>2. QED BY <1>1, StepDoFork DEF InitUserMain, InitKThread

-----------------------------------------------------------------------------
(***************************************************************************)
(* do_wait frees a zombie.  It is off the CPU, in no queue and, as parents *)
(* are no zombies, nobody's parent.                                        *)
(***************************************************************************)
LEMMA StepWaitReap ==
  ASSUME Inv, NEW p \in Proc \cup {initproc}, NEW c \in Proc, WaitReap(p, c)
  PROVE  Inv'
<1> USE ProcAssumption DEF WaitReap, RemoveLinks, cpu, stdin
<1>1. /\ current = p /\ pc[p] = "wait" /\ c \in Children(p)
      /\ Live(c) /\ parent[c] = p /\ state[c] = "ZOMBIE"
  BY DEF Awaited, Zombies, Children
<1>2. state[p] = "RUNNABLE"
  BY <1>1 DEF Inv, TypeOK, ProcState, PointsOK, PointOK
<1>3. /\ c # p /\ pc[c] = "exitReturned" /\ wait_state[c] = "0"
  BY <1>1, <1>2 DEF Inv, PointsOK, PointOK, OffCpu
<1>4. /\ \A q \in Slot : state'[q] = IF q = c THEN "UNINIT" ELSE state[q]
      /\ \A q \in Slot : parent'[q] = IF q = c THEN NoProc ELSE parent[q]
      /\ \A q \in Slot \ {c, p} : pc'[q] = pc[q]
      /\ pc'[c] = "none"
      /\ pc'[p] = IF p = initproc THEN "loopSched" ELSE "ret"
  BY <1>3 DEF Inv, TypeOK
<1>5. TypeOK'
  <2>1. nr_process - 1 \in Nat
    BY FS_Subset, FS_CardinalityType DEF Inv, TypeOK, NrProcessExact
  <2>2. pc' \in [Slot -> Point] BY PointFacts DEF Inv, TypeOK
  <2>3. state' \in [Slot -> ProcState] BY DEF Inv, TypeOK, ProcState
  <2>4. exiting' \in [Slot -> BOOLEAN] BY DEF Inv, TypeOK
  <2>5. QED BY <2>1, <2>2, <2>3, <2>4 DEF Inv, TypeOK
<1>6. NotPanicked' /\ InitTakesAny' BY <1>3 DEF NotPanicked, Inv, InitTakesAny, TypeOK
<1>7. PointsOK'
  <2>1. PointOK(c)'
    BY <1>1, <1>3, <1>4 DEF Inv, PointsOK, PointOK, OffCpu
  <2>2. PointOK(p)'
    BY <1>1, <1>2, <1>3, <1>4 DEF Inv, PointsOK, PointOK
  <2>3. ASSUME NEW q \in Slot \ {c, p} PROVE PointOK(q)'
    <3>1. /\ state'[q] = state[q] /\ wait_state'[q] = wait_state[q]
          /\ pc'[q] = pc[q] /\ q # current
      BY <1>1, <1>4
    <3>2. PointOK(q) BY DEF Inv, PointsOK
    <3>3. QED BY <3>1, <3>2 DEF PointOK, OffCpu
  <2>4. QED BY <2>1, <2>2, <2>3 DEF PointsOK
<1>8. RunQueueExact' BY <1>1, <1>4 DEF Inv, RunQueueExact
<1>9. \A q \in Proc : Live(q)' <=> Live(q) /\ q # c
  BY <1>4 DEF Live
<1>10. NoLostWakeup'
  <2> SUFFICES ASSUME NEW q \in Slot, state'[q] = "SLEEPING" PROVE WakerExists(q)'
    BY DEF NoLostWakeup
  <2>1. /\ q # p /\ q # c /\ state[q] = "SLEEPING" /\ waitpid'[q] = waitpid[q]
        /\ WakerExists(q)
    BY <1>2, <1>4 DEF Inv, TypeOK, NoLostWakeup
  <2>2. \A d \in Proc : (Live(d) /\ parent[d] = q)' <=> (Live(d) /\ parent[d] = q)
    BY <1>1, <1>4, <1>9, <2>1 DEF Live
  <2>3. \A d \in Proc : Live(d) /\ parent[d] = q => state'[d] = state[d]
    BY <1>1, <1>4, <2>1
  <2>4. Awaited(q)' = Awaited(q) /\ Zombies(Awaited(q))' = Zombies(Awaited(q))
    BY <2>1, <2>2, <2>3 DEF Awaited, Children, Zombies
  <2>5. QED BY <2>1, <2>4 DEF WakerExists
<1>11. left[c] \in Nat /\ ~(left[c] > 0) /\ c \notin kbdq
  BY <1>3, BoundAssumption DEF Inv, TypeOK, StackLinksLive
<1>12. StackLinksLive'
  <2>1. left[p] \in Nat /\ ~(left[p] > 0) /\ p \notin kbdq
    BY <1>1, BoundAssumption DEF Inv, TypeOK, StackLinksLive
  <2>2. QED BY <1>4, <1>11, <2>1 DEF Inv, StackLinksLive
<1>13. NoDanglingProc'
  <2> SUFFICES ASSUME NEW q \in Proc, ~Live(q) \/ q = c
               PROVE  /\ q \notin rq \cup kbdq /\ left[q] = 0 /\ current # q
                      /\ \A d \in Proc : Live(d) /\ d # c => parent[d] # q
    BY <1>4, <1>9 DEF NoDanglingProc
  <2>1. CASE q = c
    <3>1. c \notin rq /\ left[c] = 0
      BY <1>1, <1>11 DEF Inv, RunQueueExact
    <3>2. \A d \in Proc : Live(d) => parent[d] # c
      BY <1>1 DEF Inv, ParentAlive
    <3>3. QED BY <1>1, <1>3, <1>11, <2>1, <3>1, <3>2
  <2>2. CASE ~Live(q) BY <2>2 DEF Inv, NoDanglingProc
  <2>3. QED BY <2>1, <2>2
<1>14. ParentAlive'
  <2> SUFFICES ASSUME NEW d \in Proc, Live(d), d # c
               PROVE  /\ parent[d] \in Proc \cup {initproc}
                      /\ state'[parent[d]] \notin {"UNINIT", "ZOMBIE"}
    BY <1>4, <1>9 DEF ParentAlive
  <2>1. parent[d] # c BY <1>1 DEF Inv, ParentAlive
  <2>2. QED BY <1>4, <2>1 DEF Inv, ParentAlive
<1>15. RootedAtInit'
  <2> SUFFICES ASSUME NEW S \in SUBSET Proc, S # {}, \A d \in S : Live(d) /\ d # c
               PROVE  \E d \in S : parent'[d] \notin S
    BY <1>9 DEF RootedAtInit
  <2>1. QED BY <1>4 DEF Inv, RootedAtInit
<1>16. NrProcessExact'
  <2> DEFINE L == { q \in Proc : Live(q) }
  <2>1. { q \in Proc : Live(q)' } = L \ {c} BY <1>9
  <2>2. IsFiniteSet(L) /\ c \in L BY <1>1, FS_Subset
  <2>3. Cardinality(L \ {c}) = Cardinality(L) - 1 /\ Cardinality(L) \in Nat
    BY <2>2, FS_RemoveElement, FS_CardinalityType
  <2>4. nr_process' = Cardinality(L \ {c}) + 2
    BY <2>3 DEF Inv, NrProcessExact
  <2>5. QED BY <2>1, <2>4 DEF NrProcessExact
<1>17. QED
  BY <1>5, <1>6, <1>7, <1>8, <1>10, <1>12, <1>13, <1>14, <1>15, <1>16 DEF Inv

(***************************************************************************)
(* When init has no child left there is no other process at all, so that   *)
(* its assertions about nr_process hold.                                   *)
(***************************************************************************)
LEMMA StepWaitNoChild ==
  ASSUME Inv, NEW p \in Proc \cup {initproc}, WaitNoChild(p)
  PROVE  Inv'
<1> USE ProcAssumption DEF WaitNoChild, cpu, stdin
<1>1. CASE p = initproc
  <2>1. \A c \in Proc : Live(c) => parent[c] # initproc
    BY <1>1 DEF Awaited, Children, Inv, InitTakesAny
  <2> DEFINE L == { c \in Proc : Live(c) }
  <2>2. L = {}
    <3> SUFFICES ASSUME L # {} PROVE FALSE
      OBVIOUS
    <3>1. PICK c \in L : parent[c] \notin L
      BY DEF Inv, RootedAtInit
    <3>2. parent[c] \in Proc /\ Live(parent[c])
      BY <2>1, <3>1 DEF Inv, ParentAlive, Live
    <3>3. QED BY <3>1, <3>2
  <2>3. nr_process = 2
    BY <2>2, FS_EmptySet DEF Inv, NrProcessExact
  <2>4. Quiet(p, "halt")
    BY <1>1, <2>3 DEF Quiet, Inv, TypeOK, NotPanicked
  <2>5. QED BY <2>4, QuietStep
<1>2. CASE p # initproc
  <2>1. Quiet(p, "ret")
    BY <1>2 DEF Quiet, Inv, TypeOK, NotPanicked
  <2>2. QED BY <2>1, QuietStep
<1>3. QED BY <1>1, <1>2

-----------------------------------------------------------------------------
\* Every step preserves the invariant, unless a killed init exits.
LEMMA NextInv ==
  ASSUME Inv, [Next]_vars
  PROVE  Inv' \/ (InitExit /\ Stopped')
<1>1. CASE \E n \in Slot : Schedule(n) BY <1>1, StepSchedule
<1>2. CASE Tick BY <1>2, StepTick
<1>3. CASE KeyPress BY <1>3, StepKeyPress
<1>4. ASSUME NEW p \in Proc, UserStep(p) PROVE Inv'
  <2>1. CASE ExitCall(p) BY <2>1, StepDoExit DEF ExitCall
  <2>2. CASE \E q \in Killable : Kill(p, q)
    BY <2>2, StepKill, ProcAssumption
  <2>3. QED
    BY <1>4, <2>1, <2>2, StepSyscall, StepYield, StepReadCall, StepFork, StepWait, StepSleep
    DEF UserStep
<1>5. ASSUME NEW p \in Proc \cup {initproc}, KernelStep(p)
      PROVE  Inv' \/ (InitExit /\ Stopped')
  <2>1. CASE SleepWoken(p) \/ ReadChar(p) \/ ReadSleep(p) \/ ReadWoken(p)
    <3>1. p \in Proc
      BY <2>1 DEF SleepWoken, ReadChar, ReadSleep, ReadWoken, Inv, PointsOK, PointOK
    <3>2. QED BY <2>1, <3>1, StepSleepWoken, StepReadChar, StepReadSleep, StepReadWoken
  <2>2. QED
    BY <1>5, <2>1, StepTrapReturn, StepWaitReap, StepWaitSleep,
       StepWaitNoChild, StepWaitWoken
    DEF KernelStep
<1>6. CASE InitStep BY <1>6, StepInitFork, StepInitLoop DEF InitStep
<1>7. CASE UNCHANGED vars
  <2> USE <1>7 DEF vars
  <2>1. TypeOK' /\ NotPanicked' /\ InitTakesAny'
    BY DEF Inv, TypeOK, NotPanicked, InitTakesAny
  <2>2. PointsOK' /\ RunQueueExact' /\ StackLinksLive'
    BY DEF Inv, PointsOK, PointOK, RunQueueExact, StackLinksLive
  <2>3. NoLostWakeup'
    BY DEF Inv, NoLostWakeup, WakerExists, Awaited, Zombies, Children, Live
  <2>4. NoDanglingProc' /\ ParentAlive' /\ RootedAtInit' /\ NrProcessExact'
    BY DEF Inv, NoDanglingProc, ParentAlive, RootedAtInit, NrProcessExact, Live
  <2>5. QED BY <2>1, <2>2, <2>3, <2>4 DEF Inv
<1>8. QED
  BY <1>1, <1>2, <1>3, <1>4, <1>5, <1>6, <1>7 DEF Next, Halted

\* After a panic nothing moves.
LEMMA StoppedStays ==
  ASSUME Stopped, [Next]_vars
  PROVE  UNCHANGED vars
<1>1. panicked BY DEF Stopped
<1>2. \A n \in Slot : ~Schedule(n) BY <1>1 DEF Schedule
<1>3. ~Tick /\ ~KeyPress BY <1>1 DEF Tick, KeyPress
<1>4. \A p \in Proc : ~UserStep(p)
  BY <1>1 DEF UserStep, Syscall, Yield, ExitCall, ReadCall, Fork, Kill, Wait, Sleep
<1>5. \A p \in Proc \cup {initproc} : ~KernelStep(p)
  BY <1>1 DEF KernelStep, TrapReturn, WaitReap, WaitSleep, WaitNoChild, WaitWoken,
              SleepWoken, ReadChar, ReadSleep, ReadWoken
<1>6. ~InitStep BY <1>1 DEF InitStep, InitUserMain, InitKThread, InitLoop
<1>7. QED BY <1>2, <1>3, <1>4, <1>5, <1>6 DEF Next, Halted

IInv == Inv \/ Stopped

\* A step of a running kernel, the exit of init, or none.
LEMMA StepKinds ==
  ASSUME IInv, [Next]_vars
  PROVE  IInv' /\ ((Inv /\ Inv') \/ (Inv /\ InitExit) \/ UNCHANGED vars)
<1>1. CASE Inv BY <1>1, NextInv DEF IInv
<1>2. CASE Stopped
  <2>1. UNCHANGED vars BY <1>2, StoppedStays
  <2> USE <2>1 DEF vars
  <2>2. (TypeOK /\ panicked /\ pc[initproc] = "initExit" /\ exiting[initproc])'
    BY <1>2 DEF Stopped, TypeOK
  <2>3. RunQueueExact' /\ StackLinksLive' BY <1>2 DEF Stopped, RunQueueExact, StackLinksLive
  <2>4. NoLostWakeup'
    BY <1>2 DEF Stopped, NoLostWakeup, WakerExists, Awaited, Zombies, Children, Live
  <2>5. NoDanglingProc' /\ ParentAlive' /\ NrProcessExact'
    BY <1>2 DEF Stopped, NoDanglingProc, ParentAlive, NrProcessExact, Live
  <2>6. QED BY <2>1, <2>2, <2>3, <2>4, <2>5 DEF Stopped, IInv
<1>3. QED BY <1>1, <1>2 DEF IInv

(***************************************************************************)
(* The strengthened invariant holds in every reachable state.              *)
(***************************************************************************)
THEOREM Invariance == Spec => []IInv
<1>1. Init => IInv BY InitInv DEF IInv
<1>2. IInv /\ [Next]_vars => IInv' BY StepKinds
<1>3. QED BY <1>1, <1>2, PTL DEF Spec

\* The fields of the kernel keep their types: no counter leaves its range.
THEOREM TypeCorrect == Spec => []TypeOK
<1>1. IInv => TypeOK BY DEF IInv, Inv, Stopped
<1>2. QED BY <1>1, Invariance, PTL

(***************************************************************************)
(* No assert or panic in the life of a process is reached but that of      *)
(* do_exit for initproc, after somebody has killed it.                     *)
(***************************************************************************)
THEOREM AssertsHold == Spec => []NoPanic
<1>1. IInv => NoPanic BY DEF IInv, Inv, Stopped, NotPanicked, NoPanic
<1>2. QED BY <1>1, Invariance, PTL

\* The run pool holds exactly the RUNNABLE processes off the CPU.
THEOREM RunQueueCorrect == Spec => []RunQueueExact
<1>1. IInv => RunQueueExact BY DEF IInv, Inv, Stopped
<1>2. QED BY <1>1, Invariance, PTL

\* A sleeping process waits for something that is still to come.
THEOREM NoWakeupLost == Spec => []NoLostWakeup
<1>1. IInv => NoLostWakeup BY DEF IInv, Inv, Stopped
<1>2. QED BY <1>1, Invariance, PTL

\* No timer or wait-queue entry outlives the call whose stack holds it.
THEOREM StackLinksCorrect == Spec => []StackLinksLive
<1>1. IInv => StackLinksLive BY DEF IInv, Inv, Stopped
<1>2. QED BY <1>1, Invariance, PTL

\* Nothing refers to a proc_struct that do_wait has freed.
THEOREM NoUseAfterFree == Spec => []NoDanglingProc
<1>1. IInv => NoDanglingProc BY DEF IInv, Inv, Stopped
<1>2. QED BY <1>1, Invariance, PTL

\* Every process has a parent that can reap it.
THEOREM ParentsAlive == Spec => []ParentAlive
<1>1. IInv => ParentAlive BY DEF IInv, Inv, Stopped
<1>2. QED BY <1>1, Invariance, PTL

\* nr_process counts the allocated processes.
THEOREM NrProcessCorrect == Spec => []NrProcessExact
<1>1. IInv => NrProcessExact BY DEF IInv, Inv, Stopped
<1>2. QED BY <1>1, Invariance, PTL

(***************************************************************************)
(* Apart from do_wait's reaping, every step leaves a zombie a zombie and a *)
(* process allocated.                                                      *)
(***************************************************************************)
Kept(p) == /\ state[p] = "ZOMBIE" => state'[p] = "ZOMBIE"
           /\ state[p] # "UNINIT" => state'[p] # "UNINIT"

\* wakeup_proc of no zombie leaves zombies as they are and frees nothing.
LEMMA WakeupKeeps ==
  ASSUME NEW W, NEW st, NEW ws, Wakeup(W, st, ws), ~panicked', NEW p \in Slot
  PROVE  /\ st[p] = "ZOMBIE" => state'[p] = "ZOMBIE"
         /\ st[p] # "UNINIT" => state'[p] # "UNINIT"
  BY DEF Wakeup

\* Every action but WaitReap keeps zombies and allocated processes.
LEMMA KeptByOthers ==
  ASSUME Inv, Inv', [Next]_vars, NEW p \in Proc,
         ~ \E r \in Proc \cup {initproc} : \E c \in Proc : WaitReap(r, c)
  PROVE  Kept(p)
<1> USE DEF Kept
<1>1. ~panicked' BY DEF Inv, NotPanicked
<1>2. CASE \E n \in Slot : Schedule(n) BY <1>2 DEF Schedule
<1>3. CASE Tick BY <1>1, <1>3, WakeupKeeps DEF Tick
<1>4. CASE KeyPress BY <1>1, <1>4, WakeupKeeps DEF KeyPress
<1>5. ASSUME NEW r \in Proc, DoExit(r) PROVE Kept(p)
  <2>1. Exit(r) BY <1>5, ProcAssumption DEF DoExit
  <2> DEFINE zombie == [state EXCEPT ![r] = "ZOMBIE"]
  <2>2. CASE Exit(r)
    <3>1. Wakeup(WokenByExit(r), zombie, wait_state) BY <2>2 DEF Exit
    <3>2. /\ state[p] = "ZOMBIE" => zombie[p] = "ZOMBIE"
          /\ state[p] # "UNINIT" => zombie[p] # "UNINIT"
      BY DEF Inv, TypeOK
    <3> HIDE DEF zombie
    <3>3. QED BY <1>1, <3>1, <3>2, WakeupKeeps
  <2>3. QED BY <2>1, <2>2
<1>6. ASSUME NEW r \in Slot, NEW c \in Proc, NEW next, DoFork(r, c, next) PROVE Kept(p)
  BY <1>1, <1>6, WakeupKeeps DEF DoFork
<1>7. ASSUME NEW r \in Slot, current = r, pc[r] \in {"user", "kernel", "wait", "read"},
             state' = [state EXCEPT ![r] = "SLEEPING"]
      PROVE  Kept(p)
  <2>1. state[r] = "RUNNABLE"
    BY <1>7 DEF Inv, TypeOK, ProcState, PointsOK, PointOK
  <2>2. QED BY <1>7, <2>1 DEF Inv, TypeOK
<1>8. ASSUME NEW r \in Proc, UserStep(r) PROVE Kept(p)
  <2>1. CASE \E c \in Proc : Fork(r, c)
    BY <1>1, <1>6, <2>1 DEF Fork, Panic
  <2>2. CASE \E q \in Killable : Kill(r, q)
    BY <1>1, <2>2, WakeupKeeps DEF Kill
  <2>3. CASE \E ticks \in 1..MaxSleep : Sleep(r, ticks)
    BY <1>7, <2>3 DEF Sleep
  <2>4. CASE ExitCall(r) BY <1>5, <2>4 DEF ExitCall
  <2>5. QED
    BY <1>8, <2>1, <2>2, <2>3, <2>4 DEF UserStep, Syscall, Yield, ReadCall, Wait
<1>9. ASSUME NEW r \in Proc \cup {initproc}, KernelStep(r) PROVE Kept(p)
  <2>1. CASE WaitSleep(r) BY <1>7, <2>1 DEF WaitSleep
  <2>2. CASE ReadSleep(r) BY <1>7, <2>2 DEF ReadSleep
  <2>3. CASE TrapReturn(r) \/ WaitWoken(r)
    <3>1. r = initproc => ~DoExit(r) BY <1>1 DEF DoExit, InitExit
    <3>2. QED BY <1>5, <2>3, <3>1 DEF TrapReturn, WaitWoken
  <2>4. QED
    BY <1>9, <2>1, <2>2, <2>3
    DEF KernelStep, WaitNoChild, SleepWoken, ReadChar, ReadWoken
<1>10. CASE InitStep
  BY <1>6, <1>10 DEF InitStep, InitUserMain, InitKThread, InitLoop
<1>11. CASE UNCHANGED vars BY <1>11 DEF vars
<1>12. QED
  BY <1>2, <1>3, <1>4, <1>8, <1>9, <1>10, <1>11 DEF Next, Halted

(***************************************************************************)
(* A zombie is freed only by its parent, in a do_wait that was for it, and *)
(* nothing but a zombie is freed.                                          *)
(***************************************************************************)
THEOREM ZombieReapedByParent == Spec => ReapedByParent
<1> DEFINE Reaped(p) ==
      /\ (state[p] = "ZOMBIE" /\ state'[p] # "ZOMBIE")
           => /\ state'[p] = "UNINIT" /\ current = parent[p]
              /\ waitpid[current] \in {AnyChild, p}
      /\ (Live(p) /\ ~Live(p)') => state[p] = "ZOMBIE"
<1>1. ASSUME Inv, Inv', [Next]_vars, NEW p \in Proc PROVE Reaped(p)
  <2>1. CASE \E r \in Proc \cup {initproc} : \E c \in Proc : WaitReap(r, c)
    <3>1. PICK r \in Proc \cup {initproc}, c \in Proc : WaitReap(r, c)
      BY <2>1
    <3>2. /\ current = r /\ state[c] = "ZOMBIE" /\ parent[c] = r
          /\ waitpid[r] \in {AnyChild, c}
          /\ state' = [state EXCEPT ![c] = "UNINIT"]
      BY <3>1 DEF WaitReap, Awaited, Children, Zombies
    <3>3. state'[p] = IF p = c THEN "UNINIT" ELSE state[p]
      BY <1>1, <3>2 DEF Inv, TypeOK
    <3>4. QED BY <3>2, <3>3 DEF Live
  <2>2. CASE ~ \E r \in Proc \cup {initproc} : \E c \in Proc : WaitReap(r, c)
    BY <1>1, <2>2, KeptByOthers DEF Kept, Live
  <2>3. QED BY <2>1, <2>2
<1>2. ASSUME IInv, [Next]_vars PROVE [\A p \in Proc : Reaped(p)]_vars
  <2>1. CASE Inv /\ Inv' BY <1>1, <1>2, <2>1
  <2>2. CASE Inv /\ InitExit BY <2>2 DEF InitExit, Live
  <2>3. QED BY <1>2, <2>1, <2>2, StepKinds
<1>3. QED BY <1>2, Invariance, PTL DEF Spec, ReapedByParent

-----------------------------------------------------------------------------
(***************************************************************************)
(* Process implements SleepTimers.                                         *)
(***************************************************************************)
SleepPoint == {"sleepSched", "sleepWoken"}

\* No process enters or leaves do_sleep or a wait for its timer.
SleepersSame ==
  /\ \A p \in Slot : pc'[p] \in SleepPoint <=> pc[p] \in SleepPoint
  /\ \A p \in Slot : wait_state'[p] = "TIMER" <=> wait_state[p] = "TIMER"
  /\ left' = left

\* Such a step is a stuttering step of SleepTimers.
LEMMA SleepersStutter == SleepersSame => UNCHANGED Timers!vars
  BY DEF SleepersSame, SleepPoint, Timers!vars

\* wakeup_proc ends the wait of exactly the sleepers it is given.
LEMMA WakeupSleepers ==
  ASSUME NEW W \in SUBSET Slot, NEW st, Wakeup(W, st, wait_state), Inv,
         \A p \in W : wait_state[p] = "TIMER" => st[p] # "RUNNABLE"
  PROVE  \A p \in Slot : wait_state'[p] = "TIMER" <=> wait_state[p] = "TIMER" /\ p \notin W
  BY DEF Wakeup, Inv, TypeOK

\* do_exit wakes only processes that wait for a child.
LEMMA ExitSleepers ==
  ASSUME Inv, Inv', NEW p \in Proc, current = p, DoExit(p),
         pc[p] \in {"user", "kernel", "ret", "waitWoken"}
  PROVE  SleepersSame
<1>1. Exit(p) BY ProcAssumption DEF DoExit
<1>2. WokenByExit(p) \in SUBSET Slot
  <2>1. parent[p] \in Slot BY DEF Inv, ParentAlive, Live, PointsOK, PointOK
  <2>2. QED BY <2>1 DEF WokenByExit, WokenParent, WokenInit
<1>3. \A q \in WokenByExit(p) : wait_state[q] = "CHILD"
  BY DEF WokenByExit, WokenParent, WokenInit
<1>4. Wakeup(WokenByExit(p), [state EXCEPT ![p] = "ZOMBIE"], wait_state)
  BY <1>1 DEF Exit
<1>5. \A q \in Slot : wait_state'[q] = "TIMER" <=> wait_state[q] = "TIMER"
  <2>1. \A q \in WokenByExit(p) : wait_state[q] = "TIMER"
            => [state EXCEPT ![p] = "ZOMBIE"][q] # "RUNNABLE"
    BY <1>3
  <2>2. QED BY <1>2, <1>3, <1>4, <2>1, WakeupSleepers
<1>6. QED BY <1>1, <1>5 DEF Exit, SleepersSame, SleepPoint, Inv, TypeOK

\* do_fork starts no sleep: the new process runs.
LEMMA ForkSleepers ==
  ASSUME Inv, NEW p \in Proc \cup {initproc}, NEW c \in Proc, NEW next,
         current = p, DoFork(p, c, next), pc[p] \in {"user", "main", "spawn"},
         next \in {"ret", "spawn"}
  PROVE  SleepersSame
<1> USE DEF DoFork
<1>1. wait_state[c] = "0" /\ pc[c] = "none"
  BY DEF Inv, PointsOK, PointOK
<1>2. \A q \in Slot : wait_state'[q] = "TIMER" <=> wait_state[q] = "TIMER"
  <2>1. /\ {c} \in SUBSET Slot /\ Wakeup({c}, state, wait_state)
        /\ \A q \in {c} : wait_state[q] # "TIMER"
    BY <1>1
  <2>2. QED BY <2>1, WakeupSleepers
<1>3. \A q \in Slot : pc'[q] \in SleepPoint <=> pc[q] \in SleepPoint
  BY <1>1 DEF SleepPoint, Inv, TypeOK
<1>4. QED BY <1>2, <1>3 DEF SleepersSame

\* Every step is a step of SleepTimers or changes none of its variables.
LEMMA SleepSim ==
  ASSUME Inv, Inv', [Next]_vars
  PROVE  [Timers!Next]_(Timers!vars)
<1> USE ProcAssumption
<1>1. ASSUME NEW n \in Slot, Schedule(n) PROVE SleepersSame
  <2>1. /\ pc[current] \in SleepPoint <=> pc[current] = "sleepSched"
        /\ Resume[pc[current]] \in SleepPoint <=> pc[current] = "sleepSched"
    BY <1>1, ResumeFacts DEF Schedule, SleepPoint
  <2>2. QED BY <1>1, <2>1 DEF Schedule, SleepersSame, Inv, TypeOK
<1>2. CASE Tick
  <2>1. \A q \in Expiring : wait_state[q] = "TIMER" => state[q] # "RUNNABLE"
    BY DEF Expiring, Inv, PointsOK, PointOK
  <2>2. \A q \in Slot : wait_state'[q] = "TIMER" <=> wait_state[q] = "TIMER" /\ left[q] # 1
    <3>1. Expiring \in SUBSET Slot BY DEF Expiring
    <3>2. Wakeup(Expiring, state, wait_state) BY <1>2 DEF Tick
    <3>3. \A q \in Slot :
            wait_state'[q] = "TIMER" <=> wait_state[q] = "TIMER" /\ q \notin Expiring
      BY <2>1, <3>1, <3>2, WakeupSleepers
    <3>4. QED BY <3>3 DEF Expiring
  <2>3. \A q \in Slot : pc'[q] \in SleepPoint <=> pc[q] \in SleepPoint
    BY <1>2 DEF Tick, SleepPoint, Inv, TypeOK
  <2>4. Timers!Tick
    BY <1>2, <2>2, <2>3 DEF Tick, Timers!Tick, SleepPoint
  <2>5. QED BY <2>4 DEF Timers!Next
<1>3. CASE KeyPress
  <2>1. \A q \in kbdq : wait_state[q] # "TIMER"
    BY DEF Inv, StackLinksLive, PointsOK, PointOK, TypeOK
  <2>2. kbdq \in SUBSET Slot BY DEF Inv, TypeOK
  <2>3. \A q \in Slot : wait_state'[q] = "TIMER" <=> wait_state[q] = "TIMER"
    BY <1>3, <2>1, <2>2, WakeupSleepers DEF KeyPress
  <2>4. SleepersSame
    BY <1>3, <2>3 DEF KeyPress, SleepersSame, SleepPoint, Inv, TypeOK
  <2>5. QED BY <2>4, SleepersStutter
<1>4. ASSUME NEW p \in Proc, UserStep(p) PROVE [Timers!Next]_(Timers!vars)
  <2>1. CASE \E c \in Proc : Fork(p, c)
    <3>1. PICK c \in Proc : Fork(p, c) BY <2>1
    <3>2. DoFork(p, c, "ret") \/ Panic BY <3>1 DEF Fork
    <3>3. SleepersSame
      BY <3>1, <3>2, ForkSleepers DEF Fork, Panic, SleepersSame
    <3>4. QED BY <3>3, SleepersStutter
  <2>2. CASE \E q \in Killable : Kill(p, q)
    <3>1. PICK q \in Killable : Kill(p, q) BY <2>2
    <3> DEFINE W == IF exiting[q] \/ wait_state[q] \notin Interrupted THEN {} ELSE {q}
    <3>2. \A r \in W : wait_state[r] = "TIMER" => state[r] # "RUNNABLE"
      BY DEF Inv, PointsOK, PointOK
    <3>3. \A r \in Slot : wait_state'[r] = "TIMER" <=> wait_state[r] = "TIMER" /\ r \notin W
      BY <3>1, <3>2, WakeupSleepers DEF Kill
    <3>4. \A r \in Slot : pc'[r] \in SleepPoint <=> pc[r] \in SleepPoint
      BY <3>1 DEF Kill, SleepPoint, Inv, TypeOK
    <3>5. left' = left /\ q \in Slot BY <3>1 DEF Kill
    <3>6. CASE q \in W /\ wait_state[q] = "TIMER"
      <4>1. Timers!Interrupt(q)
        BY <3>3, <3>4, <3>5, <3>6 DEF Timers!Interrupt, SleepPoint
      <4>2. QED BY <3>5, <4>1 DEF Timers!Next
    <3>7. CASE ~(q \in W /\ wait_state[q] = "TIMER")
      <4>1. SleepersSame BY <3>3, <3>4, <3>5, <3>7 DEF SleepersSame
      <4>2. QED BY <4>1, SleepersStutter
    <3>8. QED BY <3>6, <3>7
  <2>3. CASE \E ticks \in 1..MaxSleep : Sleep(p, ticks)
    <3>1. PICK ticks \in 1..MaxSleep : Sleep(p, ticks) BY <2>3
    <3>2. /\ pc[p] \notin SleepPoint
          /\ \A q \in Slot : pc'[q] \in SleepPoint <=> pc[q] \in SleepPoint \/ q = p
      BY <3>1 DEF Sleep, SleepPoint, Inv, TypeOK
    <3>3. \A q \in Slot : wait_state'[q] = "TIMER" <=> wait_state[q] = "TIMER" \/ q = p
      BY <3>1 DEF Sleep, Inv, TypeOK
    <3>4. left' = [left EXCEPT ![p] = ticks] BY <3>1 DEF Sleep
    <3>5. Timers!Sleep(p)
      BY <3>2, <3>3, <3>4 DEF Timers!Sleep, SleepPoint
    <3>6. QED BY <3>5 DEF Timers!Next
  <2>4. CASE ExitCall(p)
    BY <2>4, ExitSleepers, SleepersStutter DEF ExitCall
  <2>5. CASE Syscall(p) \/ Yield(p) \/ ReadCall(p) \/ \E pid \in {AnyChild} \cup Proc : Wait(p, pid)
    <3>1. SleepersSame
      BY <2>5 DEF Syscall, Yield, ReadCall, Wait, SleepersSame, SleepPoint, Inv, TypeOK
    <3>2. QED BY <3>1, SleepersStutter
  <2>6. QED BY <1>4, <2>1, <2>2, <2>3, <2>4, <2>5 DEF UserStep
<1>5. ASSUME NEW p \in Proc \cup {initproc}, KernelStep(p) PROVE [Timers!Next]_(Timers!vars)
  <2>1. CASE SleepWoken(p)
    <3>1. wait_state[p] # "TIMER"
      BY <2>1 DEF SleepWoken, Inv, TypeOK, PointsOK, PointOK
    <3>2. Timers!Return(p)
      BY <2>1, <3>1 DEF SleepWoken, DelTimer, AfterCall, Timers!Return, Inv, TypeOK
    <3>3. QED BY <3>2 DEF Timers!Next
  <2>2. CASE \E c \in Proc : WaitReap(p, c)
    <3>1. PICK c \in Proc : WaitReap(p, c) BY <2>2
    <3>2. pc[c] \notin SleepPoint
      BY <3>1 DEF WaitReap, Zombies, SleepPoint, Inv, PointsOK, PointOK
    <3>3. SleepersSame
      BY <3>1, <3>2 DEF WaitReap, SleepersSame, SleepPoint, Inv, TypeOK
    <3>4. QED BY <3>3, SleepersStutter
  <2>3. CASE WaitSleep(p) \/ ReadSleep(p)
    <3>1. wait_state[p] = "0"
      BY <2>3 DEF WaitSleep, ReadSleep, Inv, PointsOK, PointOK, TypeOK
    <3>2. SleepersSame
      BY <2>3, <3>1 DEF WaitSleep, ReadSleep, SleepersSame, SleepPoint, Inv, TypeOK
    <3>3. QED BY <3>2, SleepersStutter
  <2>4. CASE TrapReturn(p) \/ WaitWoken(p)
    <3>1. CASE exiting[p] /\ DoExit(p)
      <4>1. p \in Proc BY <3>1 DEF DoExit, InitExit, Inv, NotPanicked
      <4>2. QED
        BY <2>4, <3>1, <4>1, ExitSleepers, SleepersStutter DEF TrapReturn, WaitWoken
    <3>2. CASE ~(exiting[p] /\ DoExit(p))
      <4>1. SleepersSame
        BY <2>4, <3>2 DEF TrapReturn, WaitWoken, SleepersSame, SleepPoint, Inv, TypeOK
      <4>2. QED BY <4>1, SleepersStutter
    <3>3. QED BY <3>1, <3>2
  <2>5. CASE WaitNoChild(p) \/ ReadChar(p) \/ ReadWoken(p)
    <3>1. SleepersSame
      BY <2>5 DEF WaitNoChild, ReadChar, ReadWoken, SleepersSame, SleepPoint, Inv, TypeOK
    <3>2. QED BY <3>1, SleepersStutter
  <2>6. QED BY <1>5, <2>1, <2>2, <2>3, <2>4, <2>5 DEF KernelStep
<1>6. CASE InitStep
  <2>1. CASE InitLoop
    <3>1. SleepersSame
      BY <2>1 DEF InitLoop, SleepersSame, SleepPoint, Inv, TypeOK
    <3>2. QED BY <3>1, SleepersStutter
  <2>2. CASE \E c \in Proc : InitUserMain(c) \/ InitKThread(c)
    <3>1. SleepersSame
      BY <2>2, ForkSleepers DEF InitUserMain, InitKThread
    <3>2. QED BY <3>1, SleepersStutter
  <2>3. QED BY <1>6, <2>1, <2>2 DEF InitStep
<1>7. CASE UNCHANGED vars
  BY <1>7 DEF vars, Timers!vars
<1>8. QED
  BY <1>1, <1>2, <1>3, <1>4, <1>5, <1>6, <1>7, SleepersStutter DEF Next, Halted

(***************************************************************************)
(* A sleep lasts as many ticks as it was asked for, unless a kill ends it. *)
(***************************************************************************)
THEOREM SleepExact == Spec => ImplementsSleepTimers
<1>1. Init => Timers!Init
  BY PointFacts DEF Init, Timers!Init
<1>2. ASSUME IInv, [Next]_vars PROVE [Timers!Next]_(Timers!vars)
  <2>1. CASE Inv /\ Inv' BY <1>2, <2>1, SleepSim
  <2>2. CASE Inv /\ InitExit
    <3>1. pc[initproc] \notin SleepPoint
      BY <2>2, ProcAssumption DEF Inv, PointsOK, PointOK, SleepPoint
    <3>2. SleepersSame
      BY <2>2, <3>1 DEF InitExit, SleepersSame, SleepPoint, Inv, TypeOK
    <3>3. QED BY <3>2, SleepersStutter
  <2>3. CASE UNCHANGED vars BY <2>3 DEF vars, Timers!vars
  <2>4. QED BY <1>2, <2>1, <2>2, <2>3, StepKinds
<1>3. QED
  BY <1>1, <1>2, Invariance, PTL DEF Spec, ImplementsSleepTimers, Timers!Spec

=============================================================================
