------------------------------ MODULE FileRead ------------------------------
(***************************************************************************)
(* The copying loop of read_data (filesystem_driver.c): bytes are taken    *)
(* from data blocks that lie anywhere in the image, and a file descriptor  *)
(* is read again and again until the program has seen a 0.                 *)
(*                                                                         *)
(* A byte is identified by the block and the offset it lies at.            *)
(***************************************************************************)
EXTENDS ReadData, Sequences

CONSTANTS
    FILE_SIZE,      \* bytes in a block (4096)
    Sizes,          \* file sizes considered
    data_blocks,    \* the blocks of the inode, in file order (from index 0)
    Lengths         \* buffer lengths a program may use

ASSUME FileSizeAssumption == FILE_SIZE \in Nat \ {0}
ASSUME SizesAssumption == Sizes \subseteq Nat
ASSUME LengthsAssumption == Lengths \subseteq Nat
\* The inode names a block for every byte of the file.
ASSUME BlocksAssumption ==
    \A s \in Sizes : \A k \in 0 .. s - 1 : k \div FILE_SIZE \in DOMAIN data_blocks

VARIABLES
    num,             \* B_length of the inode
    pc,              \* "call": in the program; "loop": in the while loop
    file_position,
    offset, length,  \* arguments of the call in progress
    i, j, loop, block,
    buf,             \* what has been stored in the user's buffer by this call
    returned,        \* the value the last call returned
    seen             \* all bytes the program was told about, in order

vars == <<num, pc, file_position, offset, length, i, j, loop, block, buf, returned, seen>>
locals == <<offset, length, i, j, loop, block, buf>>

\* The k-th byte of the file.
Byte(k) == <<data_blocks[k \div FILE_SIZE], k % FILE_SIZE>>
Bytes(from, n) == [k \in 1 .. n |-> Byte(from + k - 1)]

\* Past the last block of the file the inode's array holds no block of it.
BlockAt(n) == IF n \in DOMAIN data_blocks THEN data_blocks[n] ELSE -1

Init == /\ num \in Sizes
        /\ pc = "call" /\ file_position = 0 /\ returned = -1 /\ seen = << >>
        /\ offset = 0 /\ length = 0 /\ i = 0 /\ j = 0 /\ loop = 0 /\ block = 0 /\ buf = << >>

\* The code before the loop; file_read passes the position as the offset.
Call(n) ==
    /\ pc = "call"
    /\ IF num = 0 \/ file_position > num
       THEN returned' = 0 /\ UNCHANGED <<pc, locals>>
       ELSE /\ pc' = "loop"
            /\ offset' = file_position
            /\ length' = n
            /\ i' = 0
            /\ j' = file_position % FILE_SIZE
            /\ loop' = file_position \div FILE_SIZE
            /\ block' = BlockAt(file_position \div FILE_SIZE)
            /\ buf' = << >>
            /\ UNCHANGED returned
    /\ UNCHANGED <<num, file_position, seen>>

\* Mutants: the position is not moved, or set to the count.
Return_unmoved(r) ==
    pc' = "call" /\ returned' = r /\ UNCHANGED file_position /\ seen' = seen \o SubSeq(buf, 1, r)
Return_absolute(r) ==
    pc' = "call" /\ returned' = r /\ file_position' = r /\ seen' = seen \o SubSeq(buf, 1, r)

\* Leaving the loop with a count: the position moves, the program has r more bytes.
Return(r) ==
    /\ pc' = "call"
    /\ returned' = r
    /\ file_position' = file_position + r
    /\ seen' = seen \o SubSeq(buf, 1, r)

\* Mutant: the block is not reloaded.
NextByte_same_block == j' = (j + 1) % FILE_SIZE /\ UNCHANGED <<loop, block>>

\* The next byte of the block, or the first one of the next block.
NextByte ==
    IF (j + 1) % FILE_SIZE = 0
    THEN j' = 0 /\ loop' = loop + 1 /\ block' = BlockAt(loop + 1)
    ELSE j' = j + 1 /\ UNCHANGED <<loop, block>>

\* One evaluation of the loop head and body.
Iterate ==
    /\ pc = "loop"
    /\ \/ /\ length = i
          /\ Return(i)
          /\ UNCHANGED locals
       \/ /\ length # i /\ i = num
          /\ Return(i)
          /\ buf' = Append(buf, <<block, j>>)      \* one byte too many is stored
          /\ UNCHANGED <<offset, length, i, j, loop, block>>
       \/ /\ length # i /\ i # num
          /\ file_position + i >= num
          /\ Return(0)
          /\ UNCHANGED locals
       \/ /\ length # i /\ i # num
          /\ file_position + i < num
          /\ buf' = Append(buf, <<block, j>>)
          /\ i' = i + 1
          /\ NextByte
          /\ UNCHANGED <<pc, file_position, offset, length, returned, seen>>
    /\ UNCHANGED num

Next == Iterate \/ \E n \in Lengths : Call(n)

Spec == Init /\ [][Next]_vars

-----------------------------------------------------------------------------
\* The range of each variable.
TypeOK ==
    /\ num \in Nat
    /\ pc \in {"call", "loop"}
    /\ file_position \in Nat /\ offset \in Nat /\ length \in Nat
    /\ i \in Nat /\ j \in 0 .. FILE_SIZE - 1 /\ loop \in Nat
    /\ returned \in Nat \cup {-1}

\* Whatever the blocks and the lengths of the earlier reads, the bytes copied so far
\* are the bytes of the file from the position on, across block borders.
CopiesFile == pc = "loop" => buf = Bytes(file_position, i)

\* All the program was told about is exactly the first file_position bytes: nothing
\* is skipped, repeated or invented between calls.
SeenIsPrefix == seen = Bytes(0, file_position)

\* Each call returns what ReadData says.
LoopComputesReadData ==
    [][pc = "loop" /\ pc' = "call" =>
         /\ returned' = ReadReturns(num, offset, length)
         /\ file_position' = PositionAfter(num, offset, length)]_vars

\* read: "RETURN VALUE: number of bytes read on success": a read returns 0 only when
\* the program has been given the whole file (or asked for nothing).
ZeroMeansEnd ==
    [][pc = "loop" /\ pc' = "call" /\ returned' = 0 => length = 0 \/ file_position = num]_vars
=============================================================================
