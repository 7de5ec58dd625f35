----------------------------- MODULE StridePool -----------------------------
(***************************************************************************)
(* What stride scheduling promises for the processes that compete for the  *)
(* CPU: the one with the least stride runs next, and its stride grows by   *)
(* at most BIG_STRIDE.  Strides are unsigned words that wrap around, so    *)
(* "least" is the sign of a difference (kern/schedule/default_sched.c).    *)
(***************************************************************************)
EXTENDS Integers

CONSTANTS
  Competing,  \* the processes in the pool, the running one included
  Half        \* half the number of values of a word: 2^31

VARIABLE stride

Word == 0 .. 2 * Half - 1

BIG_STRIDE == Half - 1

\* The unsigned difference a - b and the unsigned sum a + step.
Ahead(a, b) == IF a >= b THEN a - b ELSE a - b + 2 * Half
Advance(a, step) == IF a + step < 2 * Half THEN a + step ELSE a + step - 2 * Half

\* proc_stride_comp_f gives -1: the difference is negative as an int32_t.
Less(a, b) == Ahead(a, b) >= Half

\* No competing process has a lesser stride.
First(p) == \A q \in Competing : ~Less(stride[q], stride[p])

Init == stride = [p \in Competing |-> 0]

Pick(p) ==
  /\ First(p)
  /\ \E step \in 0 .. BIG_STRIDE : stride' = [stride EXCEPT ![p] = Advance(@, step)]

Next == \E p \in Competing : Pick(p)

Spec == Init /\ [][Next]_stride

(***************************************************************************)
(* All strides lie within BIG_STRIDE of each other, so that the sign of a  *)
(* difference orders them although they wrap around.                      *)
(***************************************************************************)
Window == \E b \in Word : \A p \in Competing : Ahead(stride[p], b) <= BIG_STRIDE

=============================================================================
