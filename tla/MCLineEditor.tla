---------------------------- MODULE MCLineEditor ----------------------------
(* LineEditor instantiated for TLC. *)
EXTENDS LineEditor, TLC

\* The characters are interchangeable.
Symmetry == Permutations(Chars)

\* keyboard_read overwrites read_buffer up to the '\n' and nobody looks behind it, so
\* its contents count only from the release of a reader to the end of its read.
Observed == <<bufVars, histVars, return_switch, nbytes, pending,
              IF nbytes # 0 /\ ~return_switch THEN read_buffer ELSE Blank>>
=============================================================================
