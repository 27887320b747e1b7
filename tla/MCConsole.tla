----------------------------- MODULE MCConsole ------------------------------
(* Console instantiated for TLC. *)
EXTENDS Console

\* read_buffer influences no other variable and no property of this run.
NotRead == <<bufVars, histVars, return_switch, nbytes, pending, screen, owed, start, clean>>
=============================================================================
