-------------------------- MODULE MCFileDescriptors --------------------------
(* FileDescriptors instantiated for TLC. *)
EXTENDS FileDescriptors

FileSizes == [f \in {"shell", "frame0"} |-> IF f = "shell" THEN 2 ELSE 0]
=============================================================================
