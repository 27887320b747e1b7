----------------------------- MODULE MCPrograms -----------------------------
(* Programs instantiated for TLC, with the sizes of files under fsdir/. *)
EXTENDS Programs

FileSizes == [prog \in Executables |->
                CASE prog = "shell"   -> 5605
                  [] prog = "sigtest" -> 6224
                  [] prog = "fish"    -> 36164]

\* No argument, a short one and a longer one.
Tails == {<< >>, <<1>>, <<2, 2>>}
NoTail == {<< >>}
=============================================================================
