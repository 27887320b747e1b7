------------------------------- MODULE MCKeys -------------------------------
(* Keys instantiated for TLC. *)
EXTENDS Keys
=============================================================================
