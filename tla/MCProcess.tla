----------------------------- MODULE MCProcess -----------------------------
(* The constants of Process for TLC. *)
EXTENDS Process, TLC

CONSTANTS k1

MCKThread == {k1} \cap Proc

\* The user processes are interchangeable.
UserSymmetry == Permutations(Proc \ KThread)

=============================================================================
