------------------------------ MODULE Monitor ------------------------------
(***************************************************************************)
(* The monitor with condition variables of kern/sync/monitor.c and the     *)
(* philosophers of kern/sync/check_sync.c that use it.  cond_signal hands  *)
(* the monitor to a waiter and waits in next until it gets it back.        *)
(***************************************************************************)
EXTENDS Semaphore, FiniteSets

CONSTANTS
  N,          \* the number of philosophers, each with a condition variable
  TIMES       \* how often each one eats

ASSUME NAssumption == N \in Nat \ {0} /\ TIMES \in Nat
ASSUME NoThreadAssumption == NoThread \notin 0 .. N - 1

VARIABLES
  count,                     \* cv[i].count
  next_count,
  phil,                      \* state_condvar
  iter,
  pc,                        \* where the thread goes on when it has the CPU
  ret                        \* where its call of phi_test_condvar returns

vars == << semVars, count, next_count, phil, iter, pc, ret >>

Phil == 0 .. N - 1
Left(i) == (i + N - 1) % N
Right(i) == (i + 1) % N

mutex == << "mutex", 0 >>
next == << "next", 0 >>
cv(i) == << "cv", i >>

Sem == {mutex, next} \cup { cv(i) : i \in Phil }

local == << iter, ret >>
counts == << count, next_count >>

At(i, point) == running = i /\ pc[i] = point

Goto(i, point) == pc' = [pc EXCEPT ![i] = point]

Init ==
  /\ SemInit([s \in Sem |-> IF s = mutex THEN 1 ELSE 0])
  /\ count = [i \in Phil |-> 0]
  /\ next_count = 0
  /\ phil = [i \in Phil |-> "THINKING"]
  /\ iter = [i \in Phil |-> 0]
  /\ pc = [i \in Phil |-> "loop"]
  /\ ret = [i \in Phil |-> "loop"]

\* schedule(): a thread that is not blocked, its do_sleep having ended.
Dispatch(i) ==
  /\ running = NoThread
  /\ ~Blocked(i) /\ pc[i] # "quit"
  /\ running' = i
  /\ UNCHANGED << value, queue, counts, phil, local, pc >>

\* The loop of philosopher_using_condvar up to the do_sleep of thinking.
Think(i) ==
  /\ At(i, "loop")
  /\ IF iter[i] < TIMES
     THEN iter' = [iter EXCEPT ![i] = @ + 1] /\ Goto(i, "take")
     ELSE Goto(i, "quit") /\ UNCHANGED iter
  /\ running' = NoThread
  /\ UNCHANGED << value, queue, counts, phil, ret >>

\* phi_take_forks_condvar and phi_put_forks_condvar enter the monitor.
Enter(i) ==
  /\ running = i /\ pc[i] \in {"take", "put"}
  /\ Down(i, mutex)
  /\ Goto(i, IF pc[i] = "take" THEN "hungry" ELSE "finish")
  /\ UNCHANGED << counts, phil, local >>

GetHungry(i) ==
  /\ At(i, "hungry")
  /\ phil' = [phil EXCEPT ![i] = "HUNGRY"]
  /\ Goto(i, "test")
  /\ ret' = [ret EXCEPT ![i] = "takeLoop"]
  /\ UNCHANGED << semVars, counts, iter >>

Finish(i) ==
  /\ At(i, "finish")
  /\ phil' = [phil EXCEPT ![i] = "THINKING"]
  /\ Goto(i, "test")
  /\ ret' = [ret EXCEPT ![i] = "testRight"]
  /\ UNCHANGED << semVars, counts, iter >>

\* The philosopher that i tests: itself, its left or its right neighbour.
Tested(i) == CASE ret[i] = "takeLoop" -> i
               [] ret[i] = "testRight" -> Left(i)
               [] OTHER -> Right(i)

MayEatByLeft(j) == phil[j] = "HUNGRY" /\ phil[Left(j)] # "EATING"

MayEat(j) ==
  /\ phil[j] = "HUNGRY"
  /\ phil[Left(j)] # "EATING" /\ phil[Right(j)] # "EATING"

Serve(j) == phil' = [phil EXCEPT ![j] = "EATING"]

WaiterOrNot(j) == count[j] >= 0

HasWaiter(j) == count[j] > 0

\* The first half of cond_signal: the waiter is handed the monitor.
Signal(j) == Up(cv(j)) /\ next_count' = next_count + 1

\* phi_test_condvar: start of the meal, and of cond_signal.
Test(i) ==
  /\ At(i, "test")
  /\ LET j == Tested(i) IN
     IF MayEat(j)
     THEN /\ Serve(j)
          /\ IF HasWaiter(j)
             THEN Signal(j) /\ Goto(i, "signal")
             ELSE Goto(i, ret[i]) /\ UNCHANGED << value, queue, next_count >>
     ELSE Goto(i, ret[i]) /\ UNCHANGED << value, queue, next_count, phil >>
  /\ UNCHANGED << running, count, local >>

SignalWaitSkipped(i) ==
  /\ At(i, "signal")
  /\ Goto(i, "signalled")
  /\ UNCHANGED << semVars, counts, phil, local >>

\* The second half of cond_signal.
SignalWait(i) ==
  /\ At(i, "signal")
  /\ Down(i, next)
  /\ Goto(i, "signalled")
  /\ UNCHANGED << counts, phil, local >>

SignalEnd(i) ==
  /\ At(i, "signalled")
  /\ next_count' = next_count - 1
  /\ Goto(i, ret[i])
  /\ UNCHANGED << semVars, count, phil, local >>

TestRight(i) ==
  /\ At(i, "testRight")
  /\ Goto(i, "test")
  /\ ret' = [ret EXCEPT ![i] = "leavePut"]
  /\ UNCHANGED << semVars, counts, phil, iter >>

ReleaseMutex == Up(mutex)

\* A thread that leaves the monitor gives it to a signaller first of all.
Release == Up(IF next_count > 0 THEN next ELSE mutex)

\* The first half of cond_wait, if the forks were not to be had.
Wait(i) ==
  /\ At(i, "takeLoop") /\ phil[i] # "EATING"
  /\ count' = [count EXCEPT ![i] = @ + 1]
  /\ Release
  /\ Goto(i, "wait")
  /\ UNCHANGED << running, next_count, phil, local >>

WaitBlock(i) ==
  /\ At(i, "wait")
  /\ Down(i, cv(i))
  /\ Goto(i, "waited")
  /\ UNCHANGED << counts, phil, local >>

WaitEnd(i) ==
  /\ At(i, "waited")
  /\ count' = [count EXCEPT ![i] = @ - 1]
  /\ Goto(i, "takeLoop")
  /\ UNCHANGED << semVars, next_count, phil, local >>

\* The end of both procedures; the do_sleep of the meal follows the first.
Leave(i) ==
  /\ \/ /\ At(i, "takeLoop") /\ phil[i] = "EATING"
        /\ Goto(i, "put")
        /\ running' = NoThread
     \/ At(i, "leavePut") /\ Goto(i, "loop") /\ UNCHANGED running
  /\ Release
  /\ UNCHANGED << counts, phil, local >>

Step(i) ==
  \/ Think(i) \/ Enter(i) \/ GetHungry(i) \/ Finish(i) \/ Test(i)
  \/ SignalWait(i) \/ SignalEnd(i) \/ TestRight(i)
  \/ Wait(i) \/ WaitBlock(i) \/ WaitEnd(i) \/ Leave(i)

\* All philosophers have quit.
Done == (\A i \in Phil : pc[i] = "quit") /\ UNCHANGED vars

Next == (\E i \in Phil : Dispatch(i) \/ Step(i)) \/ Done

Spec == Init /\ [][Next]_vars

(***************************************************************************)
(* The CPU executes the thread it is with, and every sleep of a thread     *)
(* ends, whereupon the scheduler gets to it.                               *)
(***************************************************************************)
FairSpec ==
  /\ Spec
  /\ \A i \in Phil : WF_vars(Step(i)) /\ SF_vars(Dispatch(i))

-----------------------------------------------------------------------------
Point == {"loop", "take", "put", "hungry", "finish", "test", "testRight", "signal",
          "signalled", "takeLoop", "wait", "waited", "leavePut", "quit"}

\* The variables have the types of what they stand for.
TypeOK ==
  /\ SemTypeOK(Sem, Phil)
  /\ count \in [Phil -> 0..1]
  /\ next_count \in 0..N
  /\ phil \in [Phil -> {"THINKING", "HUNGRY", "EATING"}]
  /\ iter \in [Phil -> 0..TIMES]
  /\ pc \in [Phil -> Point]
  /\ ret \in [Phil -> Point]

\* A thread in the monitor that has not handed it to another one.
Owner(i) ==
  /\ pc[i] \in {"hungry", "finish", "test", "testRight", "signalled", "takeLoop",
                "waited", "leavePut"}
  /\ ~Blocked(i)

(***************************************************************************)
(* The monitor is a monitor: at every moment either its mutex is free or   *)
(* exactly one thread owns it or is being handed it, through mutex, next   *)
(* and the condition variables alike.                                      *)
(***************************************************************************)
OneOwner == value[mutex] + Cardinality({ i \in Phil : Owner(i) }) = 1

(***************************************************************************)
(* No signal is stored: cond_signal and the hand-back through next always  *)
(* find the thread they are for in the queue, so that no later wait passes *)
(* through on a signal that was meant for an earlier one.                  *)
(***************************************************************************)
NoStoredSignal == \A s \in Sem \ {mutex} : value[s] = 0

(***************************************************************************)
(* The condition a philosopher was signalled for still holds when it runs  *)
(* again: the hand-over is immediate, and the while loop of                *)
(* phi_take_forks_condvar never waits twice.                               *)
(***************************************************************************)
SignalledEats == \A i \in Phil : pc[i] = "waited" /\ ~Blocked(i) => phil[i] = "EATING"

(***************************************************************************)
(* The monitor program is a solution of the dining philosophers: it        *)
(* implements Dining, in which neighbours never eat together.              *)
(***************************************************************************)
D == INSTANCE Dining
ImplementsDining == D!Spec

\* Every philosopher gets its TIMES meals and quits: none is left waiting.
AllQuit == <>(\A i \in Phil : pc[i] = "quit")

=============================================================================
