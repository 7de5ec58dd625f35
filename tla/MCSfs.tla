------------------------------- MODULE MCSfs -------------------------------
(* The constants of Sfs for TLC. *)
EXTENDS Sfs, TLC

CONSTANTS f1, f2, d1, d2

MCBlock == 1..4
MCLen == {2}
MCPosition == {3, 7}

\* Files are interchangeable, and so are descriptors.
MCSymmetry == Permutations(File) \cup Permutations(Desc)

=============================================================================
