----------------------------- MODULE MCMonitor -----------------------------
(* The constants of Monitor for TLC. *)
EXTENDS Monitor

=============================================================================
