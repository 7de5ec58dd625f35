------------------------------ MODULE MCFork ------------------------------
(* The constants of Fork for TLC. *)
EXTENDS Fork, TLC

CONSTANTS p1, p2

MCSymmetry == Permutations(Proc)

=============================================================================
