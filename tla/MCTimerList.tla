---------------------------- MODULE MCTimerList ----------------------------
(* The constants of TimerList for TLC. *)
EXTENDS TimerList

SleeperSymmetry == Permutations(Sleeper)

=============================================================================
