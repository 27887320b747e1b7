-------------------------- MODULE FileRead_proofs ---------------------------
(***************************************************************************)
(* Proofs about FileRead, for every block size, every placing of the       *)
(* blocks in the image, every file size and every sequence of buffer       *)
(* lengths: the loop of read_data copies the file and computes what        *)
(* ReadData says.                                                          *)
(***************************************************************************)
EXTENDS FileRead, SequenceTheorems, TLAPS

-----------------------------------------------------------------------------
(* The inductive invariant.                                                *)

\* The place of the next byte, split into block and offset without division.
Cursor == file_position + i = FILE_SIZE * loop + j

\* Inside the loop: the call began at the position, nothing beyond the buffer or the end
\* of the file has been copied, and block is the one under the cursor.
InLoop ==
    pc = "loop" =>
        /\ offset = file_position
        /\ num # 0
        /\ i <= length /\ file_position + i <= num
        /\ Cursor
        /\ block = BlockAt(loop)

IInv ==
    /\ TypeOK
    /\ num \in Sizes
    /\ file_position <= num
    /\ InLoop
    /\ CopiesFile
    /\ SeenIsPrefix

-----------------------------------------------------------------------------
(* Lemmas about the operators.                                             *)

\* Quotient and remainder are the only such pair.
LEMMA DivisionUnique ==
    ASSUME NEW F \in Nat \ {0}, NEW q \in Nat, NEW r \in 0 .. F - 1
    PROVE  (F * q + r) \div F = q /\ (F * q + r) % F = r
  OBVIOUS

LEMMA Division ==
    ASSUME NEW F \in Nat \ {0}, NEW x \in Nat
    PROVE  /\ x \div F \in Nat
           /\ x % F \in 0 .. F - 1
           /\ x = F * (x \div F) + (x % F)
OBVIOUS

\* Stretches of the file are sequences; they grow at the end, and follow each other.
LEMMA BytesSeq ==
    ASSUME NEW from \in Nat, NEW n \in Nat
    PROVE  /\ Bytes(from, n) = [k \in 1 .. n |-> Byte(from + k - 1)]
           /\ DOMAIN Bytes(from, n) = 1 .. n
           /\ Bytes(from, n) \in Seq({Byte(k) : k \in Nat})
           /\ Len(Bytes(from, n)) = n
<1>1. \A k \in 1 .. n : from + k - 1 \in Nat
  OBVIOUS
<1>2. Bytes(from, n) \in [1 .. n -> {Byte(k) : k \in Nat}]
  BY <1>1 DEF Bytes
<1> QED BY <1>2 DEF Bytes

LEMMA BytesGrow ==
    ASSUME NEW from \in Nat, NEW n \in Nat
    PROVE  Append(Bytes(from, n), Byte(from + n)) = Bytes(from, n + 1)
<1>1. Bytes(from, n) \in Seq({Byte(k) : k \in Nat}) /\ Len(Bytes(from, n)) = n
  BY BytesSeq
<1>2. Byte(from + n) \in {Byte(k) : k \in Nat}
  OBVIOUS
<1> DEFINE a == Append(Bytes(from, n), Byte(from + n))
<1>3. DOMAIN a = 1 .. n + 1
  BY <1>1, <1>2
<1>4. \A k \in 1 .. n + 1 : a[k] = Byte(from + k - 1)
  <2> SUFFICES ASSUME NEW k \in 1 .. n + 1
               PROVE  a[k] = Byte(from + k - 1)
    OBVIOUS
  <2>1. CASE k = n + 1
    <3>1. from + k - 1 = from + n
      BY <2>1
    <3> QED BY <1>1, <1>2, <2>1, <3>1
  <2>2. CASE k \in 1 .. n
    <3>1. a[k] = Bytes(from, n)[k]
      BY <1>1, <1>2, <2>2
    <3> QED BY <2>2, <3>1 DEF Bytes
  <2>3. k = n + 1 \/ k \in 1 .. n
    OBVIOUS
  <2> QED BY <2>1, <2>2, <2>3, Zenon
<1>5. a = [k \in 1 .. n + 1 |-> Byte(from + k - 1)]
  <2>1. a = [k \in DOMAIN a |-> a[k]]
    BY <1>1, <1>2
  <2> QED BY <1>3, <1>4, <2>1
<1> QED BY <1>5 DEF Bytes

LEMMA BytesFollow ==
    ASSUME NEW p \in Nat, NEW n \in Nat, NEW r \in 0 .. n
    PROVE  Bytes(0, p) \o SubSeq(Bytes(p, n), 1, r) = Bytes(0, p + r)
<1> DEFINE s == SubSeq(Bytes(p, n), 1, r)
           c == Bytes(0, p) \o s
           B == {Byte(k) : k \in Nat}
<1>1. Bytes(0, p) \in Seq(B) /\ Len(Bytes(0, p)) = p
  BY BytesSeq
<1>2. Bytes(p, n) \in Seq(B) /\ Len(Bytes(p, n)) = n
  BY BytesSeq
<1>3. s \in Seq(B) /\ Len(s) = r /\ \A k \in 1 .. r : s[k] = Bytes(p, n)[k]
  <2>1. \A k \in 1 .. r : Bytes(p, n)[k] \in B
    BY <1>2
  <2> QED BY <2>1, SubSeqProperties
<1> HIDE DEF s
<1>4. /\ c \in Seq(B) /\ Len(c) = p + r
      /\ \A k \in 1 .. p + r : c[k] = IF k <= p THEN Bytes(0, p)[k] ELSE s[k - p]
  BY <1>1, <1>3, ConcatProperties
<1> HIDE DEF c, B
<1>5. \A k \in 1 .. p + r : c[k] = Byte(0 + k - 1)
  <2> SUFFICES ASSUME NEW k \in 1 .. p + r
               PROVE  c[k] = Byte(0 + k - 1)
    OBVIOUS
  <2>1. CASE k \in 1 .. p
    <3>1. c[k] = Bytes(0, p)[k]
      BY <1>4, <2>1
    <3> QED BY <2>1, <3>1 DEF Bytes
  <2>2. CASE k \in p + 1 .. p + r
    <3>1. c[k] = s[k - p]
      BY <1>4, <2>2
    <3>2. k - p \in 1 .. r /\ k - p \in 1 .. n /\ p + (k - p) - 1 = 0 + k - 1
      BY <2>2
    <3>3. s[k - p] = Bytes(p, n)[k - p]
      BY <1>3, <3>2
    <3>4. Bytes(p, n)[k - p] = Byte(p + (k - p) - 1)
      BY <3>2 DEF Bytes
    <3> QED BY <3>1, <3>2, <3>3, <3>4
  <2> QED BY <2>1, <2>2
<1>6. c = [k \in 1 .. p + r |-> Byte(0 + k - 1)]
  <2>1. c = [k \in 1 .. Len(c) |-> c[k]]
    BY <1>4
  <2> QED BY <1>4, <1>5, <2>1
<1> QED BY <1>6 DEF Bytes, s, c
-----------------------------------------------------------------------------
LEMMA InitIInv == Init => IInv
<1> SUFFICES ASSUME Init PROVE IInv
  OBVIOUS
<1>1. Bytes(0, 0) = << >>
  BY DEF Bytes
<1>2. TypeOK
  BY FileSizeAssumption, SizesAssumption DEF Init, TypeOK
<1>3. file_position <= num
  BY SizesAssumption DEF Init
<1> QED BY <1>1, <1>2, <1>3 DEF Init, IInv, InLoop, CopiesFile, SeenIsPrefix

\* The code before the loop.
LEMMA CallStep ==
    ASSUME IInv, NEW n \in Lengths, Call(n)
    PROVE  IInv'
<1>0. /\ num \in Nat /\ file_position \in Nat /\ file_position <= num
      /\ n \in Nat /\ FILE_SIZE \in Nat \ {0}
  BY LengthsAssumption, FileSizeAssumption DEF IInv, TypeOK
<1>1. CASE num = 0
  <2>1. UNCHANGED <<num, pc, file_position, offset, length, i, j, loop, block, buf, seen>> /\ returned' = 0
    BY <1>1 DEF Call, locals
  <2> QED BY <2>1 DEF IInv, TypeOK, InLoop, Cursor, CopiesFile, SeenIsPrefix
<1>2. CASE num # 0
  <2>1. /\ pc' = "loop" /\ offset' = file_position /\ length' = n /\ i' = 0
        /\ j' = file_position % FILE_SIZE /\ loop' = file_position \div FILE_SIZE
        /\ block' = BlockAt(loop') /\ buf' = << >>
        /\ UNCHANGED <<num, file_position, seen, returned>>
    BY <1>0, <1>2 DEF Call
  <2>2. /\ loop' \in Nat
        /\ j' \in 0 .. FILE_SIZE - 1
        /\ file_position = FILE_SIZE * loop' + j'
    BY <1>0, <2>1, Division
  <2>3. TypeOK'
    BY <1>0, <2>1, <2>2 DEF IInv, TypeOK
  <2>4. Cursor'
    <3>1. file_position + 0 = file_position
      BY <1>0
    <3> QED BY <2>1, <2>2, <3>1 DEF Cursor
  <2>5. InLoop'
    BY <1>0, <1>2, <2>1, <2>4 DEF InLoop
  <2>6. CopiesFile'
    BY <2>1 DEF CopiesFile, Bytes
  <2> QED BY <1>0, <2>1, <2>3, <2>5, <2>6 DEF IInv, SeenIsPrefix
<1> QED BY <1>1, <1>2

\* Leaving the loop with a count of bytes that were copied.
LEMMA ReturnStep ==
    ASSUME IInv, pc = "loop", NEW r \in 0 .. i, Return(r), UNCHANGED <<num, offset, length, i, j, loop, block>>
    PROVE  IInv'
<1>1. /\ num \in Nat /\ file_position \in Nat /\ i \in Nat
      /\ file_position + i <= num /\ buf = Bytes(file_position, i)
      /\ seen = Bytes(0, file_position)
  BY DEF IInv, TypeOK, InLoop, CopiesFile, SeenIsPrefix
<1>2. /\ pc' = "call" /\ returned' = r /\ file_position' = file_position + r
      /\ seen' = seen \o SubSeq(buf, 1, r)
  BY DEF Return
<1>3. seen' = Bytes(0, file_position + r)
  BY <1>1, <1>2, BytesFollow
<1>4. file_position + r \in Nat /\ file_position + r <= num /\ r \in Nat
  BY <1>1
<1>5. TypeOK'
  BY <1>2, <1>4 DEF IInv, TypeOK
<1> QED BY <1>2, <1>3, <1>4, <1>5 DEF IInv, InLoop, CopiesFile, SeenIsPrefix

\* The byte under the cursor is the next byte of the file.
LEMMA ByteUnderCursor ==
    ASSUME IInv, pc = "loop", file_position + i < num
    PROVE  <<block, j>> = Byte(file_position + i)
<1>1. /\ FILE_SIZE \in Nat \ {0} /\ loop \in Nat /\ j \in 0 .. FILE_SIZE - 1
      /\ num \in Nat /\ num \in Sizes /\ file_position \in Nat /\ i \in Nat
      /\ file_position + i = FILE_SIZE * loop + j
      /\ block = BlockAt(loop)
  BY FileSizeAssumption DEF IInv, TypeOK, InLoop, Cursor
<1>2. (file_position + i) \div FILE_SIZE = loop /\ (file_position + i) % FILE_SIZE = j
  BY <1>1, DivisionUnique
<1>3. file_position + i \in 0 .. num - 1
  BY <1>1
<1>4. loop \in DOMAIN data_blocks
  BY <1>1, <1>2, <1>3, BlocksAssumption
<1> QED BY <1>1, <1>2, <1>4 DEF Byte, BlockAt

\* One byte is copied.
LEMMA CopyStep ==
    ASSUME IInv, pc = "loop", length # i, file_position + i < num,
           buf' = Append(buf, <<block, j>>), i' = i + 1, NextByte,
           UNCHANGED <<num, pc, file_position, offset, length, returned, seen>>
    PROVE  IInv'
<1>1. /\ FILE_SIZE \in Nat \ {0} /\ loop \in Nat /\ j \in 0 .. FILE_SIZE - 1
      /\ num \in Nat /\ file_position \in Nat /\ i \in Nat /\ length \in Nat /\ i <= length
      /\ file_position + i = FILE_SIZE * loop + j
      /\ buf = Bytes(file_position, i)
  BY FileSizeAssumption DEF IInv, TypeOK, InLoop, Cursor, CopiesFile
<1>2. buf' = Bytes(file_position, i + 1)
  BY <1>1, ByteUnderCursor, BytesGrow
<1>3. /\ loop' \in Nat /\ j' \in 0 .. FILE_SIZE - 1
      /\ file_position + i + 1 = FILE_SIZE * loop' + j'
      /\ block' = BlockAt(loop')
  <2>1. CASE j + 1 = FILE_SIZE
    <3>1. (j + 1) % FILE_SIZE = 0
      BY <1>1, <2>1
    <3>2. j' = 0 /\ loop' = loop + 1 /\ block' = BlockAt(loop')
      BY <3>1 DEF NextByte
    <3>3. FILE_SIZE * (loop + 1) = FILE_SIZE * loop + FILE_SIZE
      BY <1>1
    <3>4. FILE_SIZE * (loop + 1) + 0 = file_position + i + 1
      BY <1>1, <2>1, <3>3
    <3> QED BY <1>1, <3>2, <3>4
  <2>2. CASE j + 1 # FILE_SIZE
    <3>1. (j + 1) % FILE_SIZE = j + 1
      BY <1>1, <2>2
    <3>2. j' = j + 1 /\ loop' = loop /\ block' = block
      BY <1>1, <3>1 DEF NextByte
    <3>3. block = BlockAt(loop)
      BY DEF IInv, InLoop
    <3>4. j + 1 \in 0 .. FILE_SIZE - 1 /\ FILE_SIZE * loop + (j + 1) = file_position + i + 1
      BY <1>1, <2>2
    <3> QED BY <1>1, <3>2, <3>3, <3>4
  <2> QED BY <2>1, <2>2
<1>4. i + 1 \in Nat /\ i + 1 <= length /\ file_position + (i + 1) <= num
  BY <1>1
<1>5. TypeOK'
  BY <1>1, <1>3, <1>4 DEF IInv, TypeOK
<1>6. Cursor'
  <2>1. file_position + (i + 1) = file_position + i + 1
    BY <1>1
  <2> QED BY <1>3, <2>1 DEF Cursor
<1>7. InLoop'
  BY <1>3, <1>4, <1>6 DEF IInv, InLoop
<1>8. CopiesFile'
  BY <1>2 DEF CopiesFile
<1> QED BY <1>5, <1>7, <1>8 DEF IInv, SeenIsPrefix

\* A return of all that was copied stores one byte beyond it at most, which the program is
\* not told about.
LEMMA IterateStep ==
    ASSUME IInv, Iterate
    PROVE  IInv'
<1>0. i \in Nat /\ num \in Nat /\ file_position \in Nat /\ length \in Nat /\ pc = "loop"
  BY DEF IInv, TypeOK, Iterate
<1>1. CASE length = i /\ Return(i) /\ UNCHANGED locals /\ UNCHANGED num
  BY <1>0, <1>1, ReturnStep DEF locals
<1>2. CASE /\ Return(i) /\ UNCHANGED <<offset, length, i, j, loop, block>> /\ UNCHANGED num
  BY <1>0, <1>2, ReturnStep
<1>3. CASE Return(0) /\ UNCHANGED locals /\ UNCHANGED num
  BY <1>0, <1>3, ReturnStep DEF locals
<1>4. CASE /\ length # i /\ file_position + i < num /\ buf' = Append(buf, <<block, j>>)
           /\ i' = i + 1 /\ NextByte
           /\ UNCHANGED <<pc, file_position, offset, length, returned, seen>> /\ UNCHANGED num
  BY <1>0, <1>4, CopyStep
<1> QED BY <1>1, <1>2, <1>3, <1>4 DEF Iterate

LEMMA NextIInv == IInv /\ [Next]_vars => IInv'
<1> SUFFICES ASSUME IInv, [Next]_vars PROVE IInv'
  OBVIOUS
<1>1. CASE UNCHANGED vars
  BY <1>1 DEF vars, IInv, TypeOK, InLoop, Cursor, CopiesFile, SeenIsPrefix
<1> QED BY <1>1, IterateStep, CallStep DEF Next

-----------------------------------------------------------------------------
\* The variables of read_data keep their ranges; j stays inside a block.
THEOREM TypeCorrect == Spec => []TypeOK
<1>1. IInv => TypeOK
  BY DEF IInv
<1> QED BY <1>1, InitIInv, NextIInv, PTL DEF Spec

\* read_data: the bytes stored so far are those of the file from the position on, whatever
\* the block size and wherever the blocks lie.
THEOREM CopyCorrect == Spec => []CopiesFile
<1>1. IInv => CopiesFile
  BY DEF IInv
<1> QED BY <1>1, InitIInv, NextIInv, PTL DEF Spec

\* file_read: all the program was told about by any sequence of reads is the first
\* file_position bytes of the file.
THEOREM PrefixCorrect == Spec => []SeenIsPrefix
<1>1. IInv => SeenIsPrefix
  BY DEF IInv
<1> QED BY <1>1, InitIInv, NextIInv, PTL DEF Spec

\* Every call of read_data returns what the formula of ReadData says, which FileDescriptors
\* uses for the read system call.
THEOREM LoopCorrect == Spec => LoopComputesReadData
<1>1. IInv /\ [Next]_vars =>
        [pc = "loop" /\ pc' = "call" =>
           /\ returned' = ReadReturns(num, offset, length)
           /\ file_position' = PositionAfter(num, offset, length)]_vars
  <2> SUFFICES ASSUME IInv, Next, pc = "loop", pc' = "call"
               PROVE  /\ returned' = ReadReturns(num, offset, length)
                      /\ file_position' = PositionAfter(num, offset, length)
    BY DEF vars
  <2>1. Iterate
    BY DEF Next, Call
  <2>2. /\ i \in Nat /\ num \in Nat /\ file_position \in Nat /\ length \in Nat
        /\ offset = file_position /\ i <= length /\ file_position + i <= num /\ num # 0
    BY DEF IInv, TypeOK, InLoop
  <2>3. CASE length = i /\ Return(i)
    <3>1. ReadReturns(num, offset, length) = i
      BY <2>2, <2>3 DEF ReadReturns, Least
    <3> QED BY <2>2, <2>3, <3>1 DEF Return, PositionAfter
  <2>4. CASE length # i /\ i = num /\ Return(i)
    <3>1. ReadReturns(num, offset, length) = i
      BY <2>2, <2>4 DEF ReadReturns, Least
    <3> QED BY <2>2, <2>4, <3>1 DEF Return, PositionAfter
  <2>5. CASE length # i /\ i # num /\ file_position + i >= num /\ Return(0)
    <3>1. ReadReturns(num, offset, length) = 0
      BY <2>2, <2>5 DEF ReadReturns, Least
    <3> QED BY <2>2, <2>5, <3>1 DEF Return, PositionAfter
  <2> QED BY <2>1, <2>3, <2>4, <2>5 DEF Iterate
<1> QED BY <1>1, InitIInv, NextIInv, PTL DEF Spec, LoopComputesReadData
=============================================================================
