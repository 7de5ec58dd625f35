---------------------------- MODULE SleepTimers ----------------------------
(***************************************************************************)
(* What do_sleep promises: a process sleeps for the number of ticks it     *)
(* asked for, no more and no fewer, unless a kill ends its wait.           *)
(***************************************************************************)
EXTENDS Naturals

CONSTANTS
  Sleeper,    \* the processes
  MaxTicks    \* bound on the argument of sleep()

VARIABLES
  called,     \* the processes in do_sleep
  asleep,     \* those that have not been woken yet
  left        \* ticks until the timer of a process expires, 0: no timer

vars == << called, asleep, left >>

Init ==
  /\ called = {} /\ asleep = {}
  /\ left = [p \in Sleeper |-> 0]

Sleep(p) ==
  /\ p \notin called
  /\ called' = called \cup {p} /\ asleep' = asleep \cup {p}
  /\ \E ticks \in 1..MaxTicks : left' = [left EXCEPT ![p] = ticks]

\* One tick passes for all; those whose time is over wake up.
Tick ==
  /\ left' = [p \in Sleeper |-> IF left[p] = 0 THEN 0 ELSE left[p] - 1]
  /\ asleep' = asleep \ { p \in Sleeper : left[p] = 1 }
  /\ UNCHANGED called

Interrupt(p) ==
  /\ p \in asleep
  /\ asleep' = asleep \ {p}
  /\ UNCHANGED << called, left >>

Return(p) ==
  /\ p \in called \ asleep
  /\ called' = called \ {p}
  /\ left' = [left EXCEPT ![p] = 0]
  /\ UNCHANGED asleep

Next == Tick \/ \E p \in Sleeper : Sleep(p) \/ Interrupt(p) \/ Return(p)

Spec == Init /\ [][Next]_vars

=============================================================================
