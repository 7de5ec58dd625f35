------------------------------ MODULE MCFiles ------------------------------
(* The constants of Files for TLC. *)
EXTENDS Files, TLC

CONSTANTS p1, p2, f1, f2, stdin

MCFd == 0..2

MCSymmetry == Permutations(Proc) \cup Permutations(File)

=============================================================================
