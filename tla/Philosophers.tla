---------------------------- MODULE Philosophers ----------------------------
(***************************************************************************)
(* The dining philosophers of kern/sync/check_sync.c that use semaphores:  *)
(* mutex guards the states, and s[i] is where philosopher i waits for its  *)
(* forks.  up(&s[i]) may come from a neighbour, or from i itself before it *)
(* waits.                                                                  *)
(***************************************************************************)
EXTENDS Semaphore, FiniteSets

CONSTANTS
  N,          \* the number of philosophers
  TIMES       \* how often each one eats

ASSUME NAssumption == N \in Nat \ {0} /\ TIMES \in Nat
ASSUME NoThreadAssumption == NoThread \notin 0 .. N - 1

VARIABLES
  phil,       \* state_sema
  iter,
  pc,         \* where the thread goes on when it has the CPU
  todo        \* the philosophers that phi_test_sema is still to be called for

vars == << semVars, phil, iter, pc, todo >>

Phil == 0 .. N - 1
Left(i) == (i + N - 1) % N
Right(i) == (i + 1) % N

mutex == << "mutex", 0 >>
s(i) == << "s", i >>

Sem == {mutex} \cup { s(i) : i \in Phil }

At(i, point) == running = i /\ pc[i] = point

Goto(i, point) == pc' = [pc EXCEPT ![i] = point]

Init ==
  /\ SemInit([x \in Sem |-> IF x = mutex THEN 1 ELSE 0])
  /\ phil = [i \in Phil |-> "THINKING"]
  /\ iter = [i \in Phil |-> 0]
  /\ pc = [i \in Phil |-> "loop"]
  /\ todo = [i \in Phil |-> << >>]

\* schedule(): a thread that is not blocked, its do_sleep having ended.
Dispatch(i) ==
  /\ running = NoThread
  /\ ~Blocked(i) /\ pc[i] # "quit"
  /\ running' = i
  /\ UNCHANGED << value, queue, phil, iter, pc, todo >>

OneMealMore(i) == iter[i] <= TIMES

HasMeal(i) == iter[i] < TIMES

\* The loop of philosopher_using_semaphore up to the do_sleep of thinking.
Think(i) ==
  /\ At(i, "loop")
  /\ IF HasMeal(i)
     THEN iter' = [iter EXCEPT ![i] = @ + 1] /\ Goto(i, "take")
     ELSE Goto(i, "quit") /\ UNCHANGED iter
  /\ running' = NoThread
  /\ UNCHANGED << value, queue, phil, todo >>

\* down(&mutex) of phi_take_forks_sema and of phi_put_forks_sema.
Enter(i) ==
  /\ running = i /\ pc[i] \in {"take", "put"}
  /\ Down(i, mutex)
  /\ Goto(i, IF pc[i] = "take" THEN "hungry" ELSE "finish")
  /\ UNCHANGED << phil, iter, todo >>

GetHungry(i) ==
  /\ At(i, "hungry")
  /\ phil' = [phil EXCEPT ![i] = "HUNGRY"]
  /\ todo' = [todo EXCEPT ![i] = << i >>]
  /\ Goto(i, "test")
  /\ UNCHANGED << semVars, iter >>

NeighboursLeft(i) == << Left(i) >>

\* The philosophers whose turn it may be when i puts its forks down.
Neighbours(i) == << Left(i), Right(i) >>

Finish(i) ==
  /\ At(i, "finish")
  /\ phil' = [phil EXCEPT ![i] = "THINKING"]
  /\ todo' = [todo EXCEPT ![i] = Neighbours(i)]
  /\ Goto(i, "test")
  /\ UNCHANGED << semVars, iter >>

MayEatByLeft(j) == phil[j] = "HUNGRY" /\ phil[Left(j)] # "EATING"

MayEat(j) ==
  /\ phil[j] = "HUNGRY"
  /\ phil[Left(j)] # "EATING" /\ phil[Right(j)] # "EATING"

\* phi_test_sema
Test(i) ==
  /\ At(i, "test") /\ todo[i] # << >>
  /\ LET j == Head(todo[i]) IN
     IF MayEat(j)
     THEN phil' = [phil EXCEPT ![j] = "EATING"] /\ Up(s(j))
     ELSE UNCHANGED << value, queue, phil >>
  /\ todo' = [todo EXCEPT ![i] = Tail(@)]
  /\ UNCHANGED << running, iter, pc >>

\* up(&mutex), behind which phi_take_forks_sema still waits for s[i].
Leave(i) ==
  /\ At(i, "test") /\ todo[i] = << >>
  /\ Up(mutex)
  /\ Goto(i, IF phil[i] = "THINKING" THEN "loop" ELSE "await")
  /\ UNCHANGED << running, phil, iter, todo >>

\* down(&s[i]) and the do_sleep of the meal.
AwaitForks(i) ==
  /\ At(i, "await")
  /\ Down(i, s(i))
  /\ Goto(i, "eat")
  /\ UNCHANGED << phil, iter, todo >>

Dine(i) ==
  /\ At(i, "eat")
  /\ Goto(i, "put")
  /\ running' = NoThread
  /\ UNCHANGED << value, queue, phil, iter, todo >>

Step(i) ==
  \/ Think(i) \/ Enter(i) \/ GetHungry(i) \/ Finish(i) \/ Test(i) \/ Leave(i)
  \/ AwaitForks(i) \/ Dine(i)

\* All philosophers have quit.
Done == (\A i \in Phil : pc[i] = "quit") /\ UNCHANGED vars

Next == (\E i \in Phil : Dispatch(i) \/ Step(i)) \/ Done

Spec == Init /\ [][Next]_vars

(***************************************************************************)
(* The CPU executes the thread it is with, and every sleep of a thread     *)
(* ends, whereupon the scheduler gets to it.                               *)
(***************************************************************************)
FairSpec ==
  /\ Spec
  /\ \A i \in Phil : WF_vars(Step(i)) /\ SF_vars(Dispatch(i))

-----------------------------------------------------------------------------
Point == {"loop", "take", "put", "hungry", "finish", "test", "await", "eat", "quit"}

\* The variables have the types of what they stand for.
TypeOK ==
  /\ SemTypeOK(Sem, Phil)
  /\ phil \in [Phil -> {"THINKING", "HUNGRY", "EATING"}]
  /\ iter \in [Phil -> 0..TIMES]
  /\ pc \in [Phil -> Point]
  /\ todo \in [Phil -> Seq(Phil)] /\ \A i \in Phil : Len(todo[i]) <= 2

(***************************************************************************)
(* up and down of s[i] balance: a unit is there, or i was handed it,       *)
(* exactly when i may eat and has not yet got past down(&s[i]).            *)
(***************************************************************************)
ForksAnnounced ==
  \A i \in Phil :
    /\ value[s(i)] = 1 <=> phil[i] = "EATING" /\ pc[i] \in {"test", "await"}
    /\ value[s(i)] \in {0, 1}

(***************************************************************************)
(* The program implements Dining, in which neighbours never eat together.  *)
(***************************************************************************)
D == INSTANCE Dining
ImplementsDining == D!Spec

\* Every philosopher gets its TIMES meals and quits: none is left waiting.
AllQuit == <>(\A i \in Phil : pc[i] = "quit")

=============================================================================
