------------------------------- MODULE Dining -------------------------------
(***************************************************************************)
(* What both programs of kern/sync/check_sync.c promise: philosophers      *)
(* think, get hungry and eat, and two neighbours never eat together.       *)
(***************************************************************************)
EXTENDS Naturals

CONSTANT N                   \* the number of philosophers

VARIABLE phil                \* the array state_sema or state_condvar

Phil == 0 .. N - 1

Left(i) == (i + N - 1) % N
Right(i) == (i + 1) % N

Init == phil = [i \in Phil |-> "THINKING"]

GetHungry(i) ==
  /\ phil[i] = "THINKING"
  /\ phil' = [phil EXCEPT ![i] = "HUNGRY"]

Eat(i) ==
  /\ phil[i] = "HUNGRY"
  /\ phil[Left(i)] # "EATING" /\ phil[Right(i)] # "EATING"
  /\ phil' = [phil EXCEPT ![i] = "EATING"]

Finish(i) ==
  /\ phil[i] = "EATING"
  /\ phil' = [phil EXCEPT ![i] = "THINKING"]

Next == \E i \in Phil : GetHungry(i) \/ Eat(i) \/ Finish(i)

Spec == Init /\ [][Next]_phil

\* Neighbours never eat at the same time.
NeighboursExclusive ==
  \A i \in Phil : phil[i] = "EATING" /\ Right(i) # i => phil[Right(i)] # "EATING"

=============================================================================
