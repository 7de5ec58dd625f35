------------------------------ MODULE MCStride ------------------------------
(* The constants of Stride for TLC. *)
EXTENDS Stride

=============================================================================
