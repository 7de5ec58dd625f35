----------------------------- MODULE Semaphore -----------------------------
(***************************************************************************)
(* The kernel semaphores (kern/sync/sem.c) among threads on one CPU.  The  *)
(* kernel does not preempt a kernel thread: the CPU changes hands only     *)
(* where a thread gives it up, in down(), do_sleep() or do_exit().  up()   *)
(* hands the unit it releases to the first waiter, if there is one, and    *)
(* leaves value alone.                                                     *)
(***************************************************************************)
EXTENDS Naturals, Sequences

CONSTANT NoThread       \* the CPU is with none of the threads

VARIABLES
  value,      \* sem->value, by semaphore
  queue,      \* sem->wait_queue, the first waiter first
  running     \* the thread on the CPU

semVars == << value, queue, running >>

SemInit(initial) ==
  /\ value = initial
  /\ queue = [s \in DOMAIN initial |-> << >>]
  /\ running = NoThread

Waiting(t, s) == \E k \in 1..Len(queue[s]) : queue[s][k] = t

Blocked(t) == \E s \in DOMAIN queue : Waiting(t, s)

UpCounted(s) ==
  /\ value' = [value EXCEPT ![s] = @ + 1]
  /\ queue' = [queue EXCEPT ![s] = IF @ = << >> THEN @ ELSE Tail(@)]

Up(s) ==
  IF queue[s] = << >>
  THEN value' = [value EXCEPT ![s] = @ + 1] /\ UNCHANGED queue
  ELSE queue' = [queue EXCEPT ![s] = Tail(@)] /\ UNCHANGED value

\* down() by the thread on the CPU, which leaves the CPU if it has to wait.
Down(t, s) ==
  IF value[s] > 0
  THEN value' = [value EXCEPT ![s] = @ - 1] /\ UNCHANGED << queue, running >>
  ELSE /\ queue' = [queue EXCEPT ![s] = Append(@, t)]
       /\ running' = NoThread
       /\ UNCHANGED value

SemTypeOK(Sem, Thread) ==
  /\ value \in [Sem -> Nat]
  /\ queue \in [Sem -> Seq(Thread)]
  /\ running \in Thread \cup {NoThread}

=============================================================================
