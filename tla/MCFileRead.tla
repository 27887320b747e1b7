----------------------------- MODULE MCFileRead -----------------------------
(* FileRead instantiated for TLC: blocks of 3 bytes, scattered in the image. *)
EXTENDS FileRead

Scattered == [n \in 0 .. 2 |-> CASE n = 0 -> 7 [] n = 1 -> 2 [] n = 2 -> 5]
=============================================================================
