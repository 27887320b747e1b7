------------------------------ MODULE ReadData ------------------------------
(***************************************************************************)
(* The outcome of read_data (filesystem_driver.c) for a file of num bytes  *)
(* read from file_position pos with a buffer of length bytes, as a         *)
(* formula.  FileRead runs the loop of the code and shows that it computes *)
(* this; FileDescriptors uses it for the read system call.                 *)
(***************************************************************************)
EXTENDS Integers

Least(a, b) == IF a <= b THEN a ELSE b

\* A read that starts at 0 stops at the end of the file; a later one succeeds only
\* when all it asks for is left, and otherwise returns 0.
ReadReturns(num, pos, length) ==
    IF pos = 0 THEN Least(num, length)
    ELSE IF pos + length <= num THEN length
    ELSE 0

\* The position advances by the value returned.
PositionAfter(num, pos, length) == pos + ReadReturns(num, pos, length)
=============================================================================
