--------------------------- MODULE MCPhilosophers ---------------------------
(* The constants of Philosophers for TLC. *)
EXTENDS Philosophers

=============================================================================
