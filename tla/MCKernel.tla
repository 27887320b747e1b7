------------------------------ MODULE MCKernel ------------------------------
(* Kernel instantiated for TLC. *)
EXTENDS Kernel
=============================================================================
