----------------------------- MODULE MCDisplay ------------------------------
(* Display instantiated for TLC. *)
EXTENDS Display
=============================================================================
