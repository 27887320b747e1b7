------------------------------- MODULE MCRtc --------------------------------
(* Rtc instantiated for TLC. *)
EXTENDS Rtc
=============================================================================
