--------------------------- MODULE Console_proofs ---------------------------
(***************************************************************************)
(* Proofs about LineEditor and Console when no key handler is interrupted  *)
(* (MaxPending = 0).  The first part is about the line editor alone, for   *)
(* every alphabet, buffer size and number of history rows: its invariants, *)
(* and that it implements EditLine.  The second part is about the screen   *)
(* it echoes on, for every size of the screen.                             *)
(***************************************************************************)
EXTENDS Console, FiniteSetTheorems, SequenceTheorems, WellFoundedInduction, TLAPS

-----------------------------------------------------------------------------
(* The inductive invariant.                                                *)

\* A row that holds n characters and then '\0' only.
IsLine(row, n) ==
    \A i \in Cells : (i < n => row[i] \in Chars) /\ (i >= n => row[i] = NUL)

OneHandler == Len(pending) <= 1

\* Every row of the history holds a line that fits, so that TextLen has a value.
HistoryLines == \A r \in Rows : \E n \in 0 .. MAX_CHARACTERS : IsLine(history[r], n)

\* The rows that hold past lines, without modular arithmetic.
PastRows == {r \in Rows : \/ r < historyBASE
                          \/ historySIZE = NUM_HISTORY_BUFFERS /\ r # historyBASE}

RingIndices ==
    /\ historySIZE < NUM_HISTORY_BUFFERS => historyBASE = historySIZE /\ historyIDX <= historyBASE
    /\ \A r \in PastRows : history[r][0] \in Chars

IInv ==
    /\ TypeOK
    /\ OneHandler
    /\ LineFits
    /\ LineText
    /\ HistoryLines
    /\ RingIndices
    /\ DeliveredLine

-----------------------------------------------------------------------------
(* Lemmas about the operators.                                             *)

\* With at most one unfinished handler, what it still adds to the indices.
LEMMA PendingCounts ==
    ASSUME pending \in Seq({"insert", "backspace"}), OneHandler
    PROVE  /\ pending = << >> => Ahead = 0 /\ Behind = 0
           /\ pending = <<"insert">> => Ahead = 1 /\ Behind = 0
           /\ pending = <<"backspace">> => Ahead = 0 /\ Behind = 1
           /\ pending = << >> \/ pending = <<"insert">> \/ pending = <<"backspace">>
<1>1. pending = << >> => Ahead = 0 /\ Behind = 0
  <2>1. ASSUME pending = << >>
        PROVE  /\ {k \in 1 .. Len(pending) : pending[k] = "insert"} = {}
               /\ {k \in 1 .. Len(pending) : pending[k] = "backspace"} = {}
    BY <2>1
  <2> QED BY <2>1, FS_EmptySet DEF Ahead, Behind
<1>2. pending = <<"insert">> => Ahead = 1 /\ Behind = 0
  <2>1. ASSUME pending = <<"insert">>
        PROVE  /\ {k \in 1 .. Len(pending) : pending[k] = "insert"} = {1}
               /\ {k \in 1 .. Len(pending) : pending[k] = "backspace"} = {}
    BY <2>1
  <2> QED BY <2>1, FS_EmptySet, FS_Singleton DEF Ahead, Behind
<1>3. pending = <<"backspace">> => Ahead = 0 /\ Behind = 1
  <2>1. ASSUME pending = <<"backspace">>
        PROVE  /\ {k \in 1 .. Len(pending) : pending[k] = "insert"} = {}
               /\ {k \in 1 .. Len(pending) : pending[k] = "backspace"} = {1}
    BY <2>1
  <2> QED BY <2>1, FS_EmptySet, FS_Singleton DEF Ahead, Behind
<1>4. pending = << >> \/ pending = <<"insert">> \/ pending = <<"backspace">>
  <2>1. CASE Len(pending) = 0
    BY <2>1
  <2>2. CASE Len(pending) = 1
    BY <2>2
  <2>3. Len(pending) \in Nat
    OBVIOUS
  <2> QED BY <2>1, <2>2, <2>3 DEF OneHandler
<1> QED BY <1>1, <1>2, <1>3, <1>4

\* The loops that look for '\0' or '\n' stop at the end of the characters.
LEMMA TextLenValue ==
    ASSUME NEW row \in [Cells -> Bytes], NEW n \in 0 .. MAX_CHARACTERS,
           \A i \in 0 .. n - 1 : row[i] \in Chars,
           row[n] \in {NUL, NL}
    PROVE  TextLen(row) = n
<1> DEFINE P(m) == /\ \A i \in 0 .. m - 1 : row[i] \notin {NUL, NL}
                   /\ m < MAX_BUFFER_SIZE => row[m] \in {NUL, NL}
<1>1. n \in 0 .. MAX_BUFFER_SIZE /\ P(n)
  BY BufferAssumption, CharsAssumption DEF MAX_CHARACTERS
<1>2. ASSUME NEW m \in 0 .. MAX_BUFFER_SIZE, P(m) PROVE m = n
  <2>1. CASE m < n
    BY <1>1, <1>2, <2>1, BufferAssumption DEF MAX_CHARACTERS
  <2>2. CASE n < m
    BY <1>2, <2>2
  <2> QED BY <2>1, <2>2, BufferAssumption DEF MAX_CHARACTERS
<1>3. TextLen(row) = CHOOSE m \in 0 .. MAX_BUFFER_SIZE : P(m)
  BY DEF TextLen
<1> HIDE DEF P
<1> QED BY <1>1, <1>2, <1>3

\* The same for a row of the history or of the line buffer.
LEMMA TextLenOfLine ==
    ASSUME NEW row \in [Cells -> Bytes], NEW n \in 0 .. MAX_CHARACTERS, IsLine(row, n)
    PROVE  TextLen(row) = n
BY TextLenValue, BufferAssumption DEF IsLine, MAX_CHARACTERS, Cells

\* What the line buffer holds between two keys.
LEMMA QuietLine ==
    ASSUME TypeOK, OneHandler, LineFits, LineText, pending = << >>
    PROVE  /\ bufferSIZE \in 0 .. MAX_CHARACTERS
           /\ bufferIDX \in 0 .. bufferSIZE
           /\ IsLine(buffer, bufferSIZE)
BY PendingCounts, BufferAssumption
   DEF TypeOK, LineFits, LineText, EndIDX, EndSIZE, IsLine, MAX_CHARACTERS, Cells

\* Where the indices will be once the handler in pending' has finished.
LEMMA EndIndices ==
    ASSUME NEW n \in Nat, NEW k \in Nat, NEW h, NEW d,
           \/ h = << >> /\ d = 0
           \/ h = <<"insert">> /\ d = 1
           \/ h = <<"backspace">> /\ d = -1,
           pending' = h, bufferSIZE' = n - d, bufferIDX' = k - d
    PROVE  EndIDX' = k /\ EndSIZE' = n
<1> DEFINE I == {j \in 1 .. Len(h) : h[j] = "insert"}
           B == {j \in 1 .. Len(h) : h[j] = "backspace"}
<1>1. Ahead' = Cardinality(I) /\ Behind' = Cardinality(B)
  BY DEF Ahead, Behind
<1>2. Cardinality(I) - Cardinality(B) = d /\ Cardinality(I) \in Nat /\ Cardinality(B) \in Nat
  <2>1. CASE h = << >> /\ d = 0
    <3>1. I = {} /\ B = {}
      BY <2>1
    <3>2. Cardinality(I) = 0 /\ Cardinality(B) = 0
      BY <3>1, FS_EmptySet
    <3> QED BY <2>1, <3>2
  <2>2. CASE h = <<"insert">> /\ d = 1
    <3>1. I = {1} /\ B = {}
      BY <2>2
    <3>2. Cardinality(I) = 1 /\ Cardinality(B) = 0
      BY <3>1, FS_EmptySet, FS_Singleton
    <3> QED BY <2>2, <3>2
  <2>3. CASE h = <<"backspace">> /\ d = -1
    <3>1. I = {} /\ B = {1}
      BY <2>3
    <3>2. Cardinality(I) = 0 /\ Cardinality(B) = 1
      BY <3>1, FS_EmptySet, FS_Singleton
    <3> QED BY <2>3, <3>2
  <2> QED BY <2>1, <2>2, <2>3
<1> HIDE DEF I, B
<1>3. PICK a \in Nat, b \in Nat : a = Cardinality(I) /\ b = Cardinality(B) /\ a - b = d
  BY <1>2
<1>4. EndIDX' = (k - d) + a - b /\ EndSIZE' = (n - d) + a - b
  BY <1>1, <1>3 DEF EndIDX, EndSIZE
<1> QED BY <1>3, <1>4

\* The line after a step, from where the indices will be once the handler in
\* pending' has finished.
LEMMA EstablishLine ==
    ASSUME NEW n \in 0 .. MAX_CHARACTERS, NEW k \in 0 .. n, NEW row, IsLine(row, n),
           NEW h, NEW d,
           \/ h = << >> /\ d = 0
           \/ h = <<"insert">> /\ d = 1
           \/ h = <<"backspace">> /\ d = -1,
           pending' = h, bufferSIZE' = n - d, bufferIDX' = k - d, buffer' = row
    PROVE  LineFits' /\ LineText'
<1>1. MAX_CHARACTERS \in Nat /\ n \in Nat /\ k \in Nat
  BY BufferAssumption DEF MAX_CHARACTERS
<1>2. EndIDX' = k /\ EndSIZE' = n
  BY <1>1, EndIndices
<1>3. LineFits'
  BY <1>1, <1>2 DEF LineFits
<1>4. LineText'
  BY <1>2 DEF LineText, IsLine
<1> QED BY <1>3, <1>4

\* The parts of the invariant that a step leaves alone.
LEMMA KeepLine ==
    ASSUME LineFits, LineText, UNCHANGED <<bufVars, pending>>
    PROVE  LineFits' /\ LineText'
BY DEF LineFits, LineText, EndIDX, EndSIZE, Ahead, Behind, bufVars

\* A step that leaves the rows and the ring alone keeps what is known of them.
LEMMA KeepHistory ==
    ASSUME HistoryLines, RingIndices, UNCHANGED histVars
    PROVE  HistoryLines' /\ RingIndices'
BY DEF HistoryLines, RingIndices, PastRows, IsLine, histVars

\* A step that leaves the read buffer alone keeps the delivered line.
LEMMA KeepDelivered ==
    ASSUME DeliveredLine, UNCHANGED readVars
    PROVE  DeliveredLine'
BY DEF DeliveredLine, ReadCount, Terminated, readVars

\* clear_keyboard_buffer leaves an empty line.
LEMMA ClearedLine ==
    ASSUME clear_keyboard_buffer, pending' = << >>
    PROVE  /\ LineFits' /\ LineText'
           /\ buffer' \in [Cells -> Bytes]
           /\ bufferIDX' \in 0 .. MAX_BUFFER_SIZE /\ bufferSIZE' \in 0 .. MAX_BUFFER_SIZE
<1>1. IsLine(Blank, 0)
  BY BufferAssumption DEF IsLine, Blank, Cells
<1>2. 0 \in 0 .. MAX_CHARACTERS /\ 0 \in 0 .. MAX_BUFFER_SIZE /\ 0 \in 0 .. 0 /\ 0 = 0 - 0
  BY BufferAssumption DEF MAX_CHARACTERS
<1>3. buffer' = Blank /\ bufferIDX' = 0 /\ bufferSIZE' = 0
  BY DEF clear_keyboard_buffer
<1>4. LineFits' /\ LineText'
  BY <1>1, <1>2, <1>3, EstablishLine
<1>5. Blank \in [Cells -> Bytes]
  BY DEF Blank, Bytes
<1> QED BY <1>2, <1>3, <1>4, <1>5

\* A quiet buffer copied to a row of the history is a line.
LEMMA CopiedLine ==
    ASSUME TypeOK, OneHandler, LineFits, LineText, HistoryLines, pending = << >>
    PROVE  /\ copy_to_history \in [Rows -> [Cells -> Bytes]]
           /\ copy_to_history[historyBASE] = buffer
           /\ \A r \in Rows : r # historyBASE => copy_to_history[r] = history[r]
           /\ \A r \in Rows : \E n \in 0 .. MAX_CHARACTERS : IsLine(copy_to_history[r], n)
<1>1. IsLine(buffer, bufferSIZE) /\ bufferSIZE \in 0 .. MAX_CHARACTERS
  BY QuietLine
<1> DEFINE row == [i \in Cells |-> IF buffer[i] = NL THEN NUL ELSE buffer[i]]
<1>2. row = buffer
  <2>1. \A i \in Cells : buffer[i] # NL
    BY <1>1, BufferAssumption, CharsAssumption DEF IsLine, Cells, MAX_CHARACTERS
  <2> QED BY <2>1 DEF TypeOK
<1>3. copy_to_history = [history EXCEPT ![historyBASE] = row]
  BY DEF copy_to_history
<1> HIDE DEF row
<1>4. /\ copy_to_history[historyBASE] = buffer
      /\ \A r \in Rows : r # historyBASE => copy_to_history[r] = history[r]
      /\ copy_to_history \in [Rows -> [Cells -> Bytes]]
  BY <1>2, <1>3 DEF TypeOK
<1>5. ASSUME NEW r \in Rows PROVE \E n \in 0 .. MAX_CHARACTERS : IsLine(copy_to_history[r], n)
  BY <1>1, <1>4 DEF HistoryLines
<1> QED BY <1>4, <1>5

\* The copying loop of up_history and down_history shows a row of the history.
LEMMA LoadedLine ==
    ASSUME NEW row \in [Cells -> Bytes], NEW n \in 0 .. MAX_CHARACTERS, IsLine(row, n),
           LoadLine(row), pending' = << >>
    PROVE  /\ LineFits' /\ LineText'
           /\ buffer' \in [Cells -> Bytes]
           /\ bufferIDX' \in 0 .. MAX_BUFFER_SIZE /\ bufferSIZE' \in 0 .. MAX_BUFFER_SIZE
<1>1. TextLen(row) = n
  BY TextLenOfLine
<1> DEFINE shown == [i \in Cells |-> IF i < n THEN row[i] ELSE NUL]
<1>2. buffer' = shown /\ bufferIDX' = n /\ bufferSIZE' = n
  BY <1>1 DEF LoadLine
<1>3. IsLine(shown, n) /\ shown \in [Cells -> Bytes]
  BY BufferAssumption DEF IsLine, Bytes, Cells, MAX_CHARACTERS
<1>4. n \in 0 .. n /\ n = n - 0 /\ n \in 0 .. MAX_BUFFER_SIZE
  BY BufferAssumption DEF MAX_CHARACTERS
<1> HIDE DEF shown
<1>5. LineFits' /\ LineText'
  BY <1>2, <1>3, <1>4, EstablishLine
<1> QED BY <1>2, <1>3, <1>4, <1>5
-----------------------------------------------------------------------------
(* The inductive step, one lemma for each kind of action.                  *)

\* keyboard_insert, up to its echo.
LEMMA InsertPreserves ==
    ASSUME MaxPending = 0, IInv, NEW c \in Chars, InsertBegin(c)
    PROVE  IInv'
<1>1. pending = << >>
  BY PendingCounts DEF IInv, InsertBegin, CanInterrupt, TypeOK
<1>2. /\ bufferSIZE \in 0 .. MAX_CHARACTERS /\ bufferIDX \in 0 .. bufferSIZE
      /\ IsLine(buffer, bufferSIZE)
  BY <1>1, QuietLine DEF IInv
<1>3. bufferSIZE # MAX_CHARACTERS /\ UNCHANGED <<bufferIDX, bufferSIZE, histVars, readVars>>
  BY DEF InsertBegin, LineFull
<1> DEFINE row == [i \in Cells |->
                     IF i = bufferIDX THEN c
                     ELSE IF bufferIDX < i /\ i <= bufferSIZE + 1 THEN buffer[i - 1]
                     ELSE buffer[i]]
<1>4. buffer' = row /\ pending' = <<"insert">>
  BY <1>1 DEF InsertBegin
<1>5. bufferSIZE + 1 \in 0 .. MAX_CHARACTERS /\ bufferIDX + 1 \in 0 .. bufferSIZE + 1
      /\ bufferSIZE = bufferSIZE + 1 - 1 /\ bufferIDX = bufferIDX + 1 - 1
  BY <1>2, <1>3, BufferAssumption DEF MAX_CHARACTERS
<1>6. IsLine(row, bufferSIZE + 1) /\ row \in [Cells -> Bytes]
  <2>1. ASSUME NEW i \in Cells
        PROVE  /\ i < bufferSIZE + 1 => row[i] \in Chars
               /\ i >= bufferSIZE + 1 => row[i] = NUL
    BY <1>2, <1>3, BufferAssumption DEF IsLine, Cells, MAX_CHARACTERS
  <2>2. ASSUME NEW i \in Cells PROVE row[i] \in Bytes
    BY <1>2, <2>1, BufferAssumption DEF Cells, Bytes, MAX_CHARACTERS
  <2> QED BY <2>1, <2>2 DEF IsLine
<1> HIDE DEF row
<1>7. LineFits' /\ LineText'
  <2>1. PICK n \in 0 .. MAX_CHARACTERS : n = bufferSIZE + 1
    BY <1>5
  <2>2. PICK k \in 0 .. n : k = bufferIDX + 1
    BY <1>5, <2>1
  <2>3. bufferSIZE' = n - 1 /\ bufferIDX' = k - 1
    BY <1>2, <1>3, <2>1, <2>2, BufferAssumption DEF MAX_CHARACTERS
  <2>4. IsLine(row, n)
    BY <1>6, <2>1
  <2> QED BY <1>4, <2>3, <2>4, EstablishLine
<1>8. TypeOK' /\ OneHandler'
  BY <1>3, <1>4, <1>6 DEF IInv, TypeOK, OneHandler, histVars, readVars
<1> QED BY <1>3, <1>7, <1>8, KeepHistory, KeepDelivered DEF IInv

\* keyboard_backspace, up to its echo.
LEMMA BackspacePreserves ==
    ASSUME MaxPending = 0, IInv, BackspaceBegin
    PROVE  IInv'
<1>1. pending = << >>
  BY PendingCounts DEF IInv, BackspaceBegin, CanInterrupt, TypeOK
<1>2. /\ bufferSIZE \in 0 .. MAX_CHARACTERS /\ bufferIDX \in 0 .. bufferSIZE
      /\ IsLine(buffer, bufferSIZE)
  BY <1>1, QuietLine DEF IInv
<1>3. bufferIDX # 0 /\ UNCHANGED <<bufferIDX, bufferSIZE, histVars, readVars>>
  BY DEF BackspaceBegin
<1> DEFINE row == [i \in Cells |->
                     IF i = bufferSIZE THEN NUL
                     ELSE IF bufferIDX - 1 <= i /\ i < bufferSIZE THEN buffer[i + 1]
                     ELSE buffer[i]]
<1>4. buffer' = row /\ pending' = <<"backspace">>
  BY <1>1 DEF BackspaceBegin
<1>5. bufferSIZE - 1 \in 0 .. MAX_CHARACTERS /\ bufferIDX - 1 \in 0 .. bufferSIZE - 1
      /\ bufferSIZE = bufferSIZE - 1 - (-1) /\ bufferIDX = bufferIDX - 1 - (-1)
  BY <1>2, <1>3, BufferAssumption DEF MAX_CHARACTERS
<1>6. IsLine(row, bufferSIZE - 1) /\ row \in [Cells -> Bytes]
  <2>1. ASSUME NEW i \in Cells
        PROVE  /\ i < bufferSIZE - 1 => row[i] \in Chars
               /\ i >= bufferSIZE - 1 => row[i] = NUL
    BY <1>2, <1>3, BufferAssumption DEF IsLine, Cells, MAX_CHARACTERS
  <2>2. ASSUME NEW i \in Cells PROVE row[i] \in Bytes
    BY <1>2, <2>1, BufferAssumption DEF Cells, Bytes, MAX_CHARACTERS
  <2> QED BY <2>1, <2>2 DEF IsLine
<1> HIDE DEF row
<1>7. LineFits' /\ LineText'
  BY <1>3, <1>4, <1>5, <1>6, EstablishLine
<1>8. TypeOK' /\ OneHandler'
  BY <1>3, <1>4, <1>6 DEF IInv, TypeOK, OneHandler, histVars, readVars
<1> QED BY <1>3, <1>7, <1>8, KeepHistory, KeepDelivered DEF IInv

\* The indices move to where they were bound to, after the echo.
LEMMA HandlerFinishes ==
    ASSUME IInv, HandlerEnd
    PROVE  /\ EndSIZE \in 0 .. MAX_CHARACTERS /\ EndIDX \in 0 .. EndSIZE /\ IsLine(buffer, EndSIZE)
           /\ bufferSIZE' = EndSIZE /\ bufferIDX' = EndIDX /\ pending' = << >>
<1>1. UNCHANGED <<buffer, histVars, readVars>> /\ pending # << >>
  BY DEF HandlerEnd
<1> DEFINE n == EndSIZE
           k == EndIDX
<1>2. n \in 0 .. MAX_CHARACTERS /\ k \in 0 .. n /\ MAX_CHARACTERS \in 1 .. 255
      /\ IsLine(buffer, n)
  BY PendingCounts, BufferAssumption
     DEF IInv, TypeOK, LineFits, LineText, IsLine, EndSIZE, EndIDX, MAX_CHARACTERS
<1>3. bufferSIZE' = n /\ bufferIDX' = k /\ pending' = << >>
  <2>1. CASE pending = <<"insert">>
    <3>1. n = bufferSIZE + 1 /\ k = bufferIDX + 1
      BY <2>1, PendingCounts DEF IInv, TypeOK, EndSIZE, EndIDX
    <3>2. bufferSIZE' = n % 256 /\ bufferIDX' = k % 256 /\ pending' = << >>
      BY <2>1, <3>1 DEF HandlerEnd
    <3> HIDE DEF n, k
    <3> QED BY <1>2, <3>2
  <2>2. CASE pending = <<"backspace">>
    <3>1. n = bufferSIZE + -1 /\ k = bufferIDX + -1
      BY <2>2, PendingCounts DEF IInv, TypeOK, EndSIZE, EndIDX
    <3>2. bufferSIZE' = n % 256 /\ bufferIDX' = k % 256 /\ pending' = << >>
      BY <2>2, <3>1 DEF HandlerEnd
    <3> HIDE DEF n, k
    <3> QED BY <1>2, <3>2
  <2> QED BY <1>1, <2>1, <2>2, PendingCounts DEF IInv, TypeOK
<1> QED BY <1>2, <1>3

\* The rest of the handler, after the echo.
LEMMA HandlerEndPreserves ==
    ASSUME IInv, HandlerEnd
    PROVE  IInv'
<1>1. UNCHANGED <<buffer, histVars, readVars>>
  BY DEF HandlerEnd
<1> DEFINE n == EndSIZE
           k == EndIDX
<1>2. n \in 0 .. MAX_CHARACTERS /\ k \in 0 .. n /\ IsLine(buffer, n)
  BY HandlerFinishes
<1>3. bufferSIZE' = n /\ bufferIDX' = k /\ pending' = << >>
  BY HandlerFinishes
<1> HIDE DEF n, k
<1>4. LineFits' /\ LineText'
  <2>1. n = n - 0 /\ k = k - 0
    BY <1>2, BufferAssumption DEF MAX_CHARACTERS
  <2> QED BY <1>1, <1>2, <1>3, <2>1, EstablishLine
<1>5. n \in 0 .. MAX_BUFFER_SIZE /\ k \in 0 .. MAX_BUFFER_SIZE
  BY <1>2, BufferAssumption DEF MAX_CHARACTERS
<1>6. TypeOK' /\ OneHandler'
  BY <1>1, <1>3, <1>5 DEF IInv, TypeOK, OneHandler, histVars, readVars
<1> QED BY <1>1, <1>4, <1>6, KeepHistory, KeepDelivered DEF IInv

\* The left and right arrows.
LEMMA ArrowsPreserve ==
    ASSUME MaxPending = 0, IInv, keyboard_left_arrow \/ keyboard_right_arrow
    PROVE  IInv'
<1>1. pending = << >>
  BY PendingCounts DEF IInv, keyboard_left_arrow, keyboard_right_arrow, CanInterrupt, TypeOK
<1>2. /\ bufferSIZE \in 0 .. MAX_CHARACTERS /\ bufferIDX \in 0 .. bufferSIZE
      /\ IsLine(buffer, bufferSIZE)
  BY <1>1, QuietLine DEF IInv
<1>3. UNCHANGED <<buffer, bufferSIZE, histVars, readVars, pending>>
  BY DEF keyboard_left_arrow, keyboard_right_arrow
<1>4. PICK k \in 0 .. bufferSIZE : bufferIDX' = k
  BY <1>2, BufferAssumption DEF keyboard_left_arrow, keyboard_right_arrow, MAX_CHARACTERS
<1>5. bufferSIZE = bufferSIZE - 0 /\ k = k - 0 /\ k \in 0 .. MAX_BUFFER_SIZE
  BY <1>2, BufferAssumption DEF MAX_CHARACTERS
<1>6. LineFits' /\ LineText'
  BY <1>1, <1>2, <1>3, <1>4, <1>5, EstablishLine
<1>7. TypeOK' /\ OneHandler'
  BY <1>3, <1>4, <1>5 DEF IInv, TypeOK, OneHandler, histVars, readVars
<1> QED BY <1>3, <1>6, <1>7, KeepHistory, KeepDelivered DEF IInv

\* The clear key and the start of a program empty the line.
LEMMA ClearPreserves ==
    ASSUME MaxPending = 0, IInv, ClearKey \/ StartProgram
    PROVE  IInv'
<1>1. pending = << >> /\ pending' = << >> /\ clear_keyboard_buffer /\ UNCHANGED readVars
  BY PendingCounts DEF IInv, ClearKey, StartProgram, CanInterrupt, TypeOK
<1>2. CASE ClearKey
  <2>1. UNCHANGED histVars
    BY <1>2 DEF ClearKey
  <2>2. TypeOK' /\ OneHandler'
    BY <1>1, <2>1, ClearedLine DEF IInv, TypeOK, OneHandler, histVars, readVars
  <2> QED BY <1>1, <2>1, <2>2, ClearedLine, KeepHistory, KeepDelivered DEF IInv
<1>3. CASE StartProgram
  <2> DEFINE h == [r \in Rows |-> Blank]
  <2>1. history' = h /\ historyIDX' = 0 /\ historyBASE' = 0 /\ historySIZE' = 0
    BY <1>3 DEF StartProgram
  <2>2. h \in [Rows -> [Cells -> Bytes]] /\ 0 \in Rows /\ 0 \in 0 .. NUM_HISTORY_BUFFERS
    BY HistoryAssumption DEF Rows, Blank, Bytes
  <2>3. IsLine(Blank, 0) /\ 0 \in 0 .. MAX_CHARACTERS
    BY BufferAssumption DEF IsLine, Blank, Cells, MAX_CHARACTERS
  <2>4. HistoryLines'
    BY <2>1, <2>3 DEF HistoryLines, IsLine
  <2>5. PastRows' = {}
    BY <2>1, HistoryAssumption DEF PastRows, Rows
  <2>6. RingIndices'
    BY <2>1, <2>5 DEF RingIndices
  <2> HIDE DEF h
  <2>7. TypeOK' /\ OneHandler'
    BY <1>1, <2>1, <2>2, ClearedLine DEF IInv, TypeOK, OneHandler, readVars
  <2> QED BY <1>1, <2>4, <2>6, <2>7, ClearedLine, KeepDelivered DEF IInv
<1> QED BY <1>2, <1>3
-----------------------------------------------------------------------------
(* The history ring and the return key.                                    *)

\* Arithmetic modulo the number of rows.
LEMMA NextRow ==
    ASSUME NEW i \in Rows
    PROVE  (i + 1) % NUM_HISTORY_BUFFERS = IF i = NUM_HISTORY_BUFFERS - 1 THEN 0 ELSE i + 1
BY HistoryAssumption, SMT DEF Rows

\* The distance between two rows of the ring, without the remainder.
LEMMA RowDistance ==
    ASSUME NEW i \in Rows, NEW j \in Rows
    PROVE  (i - j) % NUM_HISTORY_BUFFERS = IF i >= j THEN i - j ELSE i - j + NUM_HISTORY_BUFFERS
BY HistoryAssumption, SMT DEF Rows

\* Recalling a later line.
LEMMA DownPreserves ==
    ASSUME MaxPending = 0, IInv, down_history
    PROVE  IInv'
<1>1. pending = << >> /\ pending' = << >> /\ UNCHANGED readVars
      /\ UNCHANGED <<history, historyBASE, historySIZE>> /\ historyIDX # historyBASE
  BY PendingCounts DEF IInv, down_history, CanInterrupt, TypeOK
<1>2. historyIDX \in Rows /\ historyBASE \in Rows /\ historySIZE \in 0 .. NUM_HISTORY_BUFFERS
      /\ history \in [Rows -> [Cells -> Bytes]]
  BY DEF IInv, TypeOK
<1>3. PICK r \in Rows : historyIDX' = r /\ r = (historyIDX + 1) % NUM_HISTORY_BUFFERS
  BY <1>2, NextRow, HistoryAssumption DEF down_history, Rows
<1>4. historySIZE < NUM_HISTORY_BUFFERS => r <= historyBASE
  BY <1>1, <1>2, <1>3, NextRow, HistoryAssumption DEF IInv, RingIndices, Rows
<1>5. LoadLine(history[r])
  BY <1>3 DEF down_history
<1>6. PICK n \in 0 .. MAX_CHARACTERS : IsLine(history[r], n)
  BY DEF IInv, HistoryLines
<1>7. /\ LineFits' /\ LineText'
      /\ buffer' \in [Cells -> Bytes]
      /\ bufferIDX' \in 0 .. MAX_BUFFER_SIZE /\ bufferSIZE' \in 0 .. MAX_BUFFER_SIZE
  BY <1>1, <1>2, <1>5, <1>6, LoadedLine
<1>8. HistoryLines'
  BY <1>1 DEF IInv, HistoryLines, IsLine
<1>9. PastRows' = PastRows
  BY <1>1 DEF PastRows
<1>10. RingIndices'
  BY <1>1, <1>3, <1>4, <1>9 DEF IInv, RingIndices
<1>11. TypeOK' /\ OneHandler'
  BY <1>1, <1>3, <1>7 DEF IInv, TypeOK, OneHandler, readVars
<1> QED BY <1>1, <1>7, <1>8, <1>10, <1>11, KeepDelivered DEF IInv

\* Recalling an earlier line.
LEMMA UpPreserves ==
    ASSUME MaxPending = 0, IInv, up_history
    PROVE  IInv'
<1>1. pending = << >> /\ pending' = << >> /\ UNCHANGED readVars
      /\ UNCHANGED <<historyBASE, historySIZE>>
      /\ ~(historySIZE < NUM_HISTORY_BUFFERS /\ historyIDX = 0)
  BY PendingCounts DEF IInv, up_history, NoHistory, CanInterrupt, TypeOK
<1>2. historyIDX \in Rows /\ historyBASE \in Rows /\ historySIZE \in 0 .. NUM_HISTORY_BUFFERS
      /\ history \in [Rows -> [Cells -> Bytes]]
  BY DEF IInv, TypeOK
<1>3. PICK h : h = (IF historyIDX = historyBASE THEN copy_to_history ELSE history)
  OBVIOUS
<1>4. /\ h \in [Rows -> [Cells -> Bytes]]
      /\ \A r \in Rows : r # historyBASE => h[r] = history[r]
      /\ \A r \in Rows : \E n \in 0 .. MAX_CHARACTERS : IsLine(h[r], n)
  BY <1>1, <1>2, <1>3, CopiedLine DEF IInv, HistoryLines
<1>5. history' = h
  BY <1>3 DEF up_history
<1>6. HistoryLines'
  BY <1>4, <1>5 DEF HistoryLines, IsLine
<1>7. \A r \in PastRows' : history'[r][0] \in Chars
  <2>1. PastRows' = PastRows /\ \A r \in PastRows : r \in Rows /\ r # historyBASE
    BY <1>1, <1>2, HistoryAssumption DEF PastRows, Rows
  <2> QED BY <2>1, <1>4, <1>5 DEF IInv, RingIndices
<1>8. CASE Previous(historyIDX) = historyBASE
  <2>1. UNCHANGED <<bufVars, historyIDX>>
    BY <1>8 DEF up_history
  <2>2. RingIndices'
    BY <1>1, <1>7, <2>1 DEF IInv, RingIndices
  <2>3. TypeOK' /\ OneHandler'
    BY <1>1, <1>4, <1>5, <2>1 DEF IInv, TypeOK, OneHandler, readVars, bufVars
  <2> QED BY <1>1, <1>6, <2>1, <2>2, <2>3, KeepLine, KeepDelivered DEF IInv
<1>9. CASE Previous(historyIDX) # historyBASE
  <2>1. PICK r \in Rows : r = Previous(historyIDX)
    BY <1>2, HistoryAssumption DEF Previous, Rows
  <2>2. historyIDX' = r /\ LoadLine(h[r])
    BY <1>5, <1>9, <2>1 DEF up_history
  <2>3. PICK n \in 0 .. MAX_CHARACTERS : IsLine(h[r], n)
    BY <1>4
  <2>4. /\ LineFits' /\ LineText'
        /\ buffer' \in [Cells -> Bytes]
        /\ bufferIDX' \in 0 .. MAX_BUFFER_SIZE /\ bufferSIZE' \in 0 .. MAX_BUFFER_SIZE
    BY <1>1, <1>4, <2>2, <2>3, LoadedLine
  <2>5. historySIZE < NUM_HISTORY_BUFFERS => r <= historyBASE
    BY <1>1, <1>2, <2>1, HistoryAssumption DEF IInv, RingIndices, Previous, Rows
  <2>6. RingIndices'
    BY <1>1, <1>7, <2>2, <2>5 DEF IInv, RingIndices
  <2>7. TypeOK' /\ OneHandler'
    BY <1>1, <1>4, <1>5, <2>2, <2>4 DEF IInv, TypeOK, OneHandler, readVars
  <2> QED BY <1>1, <1>6, <2>4, <2>6, <2>7, KeepDelivered DEF IInv
<1> QED BY <1>8, <1>9

\* The return key remembers the line.
LEMMA RememberPreserves ==
    ASSUME TypeOK, OneHandler, LineFits, LineText, HistoryLines, RingIndices,
           pending = << >>, buffer[0] # NUL, Remember
    PROVE  /\ HistoryLines' /\ RingIndices'
           /\ history' \in [Rows -> [Cells -> Bytes]]
           /\ historyIDX' \in Rows /\ historyBASE' \in Rows
           /\ historySIZE' \in 0 .. NUM_HISTORY_BUFFERS
<1>1. historyBASE \in Rows /\ historySIZE \in 0 .. NUM_HISTORY_BUFFERS
  BY DEF TypeOK
<1>2. PICK h : h = copy_to_history
  OBVIOUS
<1>3. history' = h /\ h \in [Rows -> [Cells -> Bytes]]
  BY <1>2, CopiedLine DEF Remember
<1>4. PICK b \in Rows : historyBASE' = b /\ historyIDX' = b
                        /\ b = (historyBASE + 1) % NUM_HISTORY_BUFFERS
  BY <1>1, NextRow, HistoryAssumption DEF Remember, Rows
<1>5. PICK z \in 0 .. NUM_HISTORY_BUFFERS :
        /\ historySIZE' = z
        /\ z = IF historySIZE < NUM_HISTORY_BUFFERS THEN historySIZE + 1 ELSE historySIZE
  BY <1>1, HistoryAssumption DEF Remember
<1>6. HistoryLines'
  BY <1>2, <1>3, CopiedLine DEF HistoryLines, IsLine
<1>7. z < NUM_HISTORY_BUFFERS => b = z
  BY <1>1, <1>4, <1>5, NextRow, HistoryAssumption DEF RingIndices, Rows
<1>8. ASSUME NEW r \in Rows, r < b \/ (z = NUM_HISTORY_BUFFERS /\ r # b)
      PROVE  h[r][0] \in Chars
  <2>1. CASE r = historyBASE
    <3>1. buffer[0] \in Chars
      <4>1. IsLine(buffer, bufferSIZE) /\ bufferSIZE \in 0 .. MAX_CHARACTERS
        BY QuietLine
      <4>2. 0 \in Cells /\ (0 < bufferSIZE \/ 0 >= bufferSIZE)
        BY <4>1, BufferAssumption DEF Cells, MAX_CHARACTERS
      <4> QED BY <4>1, <4>2 DEF IsLine
    <3> QED BY <1>2, <2>1, <3>1, CopiedLine
  <2>2. CASE r # historyBASE
    <3>1. r < historyBASE \/ (historySIZE = NUM_HISTORY_BUFFERS /\ r # historyBASE)
      BY <1>1, <1>4, <1>5, <1>8, <2>2, NextRow, HistoryAssumption DEF RingIndices, Rows
    <3> QED BY <1>2, <2>2, <3>1, CopiedLine DEF RingIndices, PastRows
  <2> QED BY <2>1, <2>2
<1>9. RingIndices'
  <2>1. \A r \in PastRows' : history'[r][0] \in Chars
    BY <1>3, <1>4, <1>5, <1>8 DEF PastRows
  <2>2. z < NUM_HISTORY_BUFFERS => b <= b
    BY <1>4 DEF Rows
  <2> QED BY <1>4, <1>5, <1>7, <2>1, <2>2 DEF RingIndices
<1> QED BY <1>3, <1>4, <1>5, <1>6, <1>9

\* The scan of terminal_read stops at the '\n' of the line, if that was not overwritten.
LEMMA CountedLine ==
    ASSUME NEW rb \in [Cells -> Bytes], NEW n \in Cells, rb[n] = NL,
           \A i \in 0 .. n - 1 : rb[i] \in Chars,
           NEW nb \in Nat, n # nb - 1, read_buffer' = rb, nbytes' = nb
    PROVE  ReadCount' = n + 1
<1> DEFINE tm == IF nb \in 1 .. MAX_BUFFER_SIZE THEN [rb EXCEPT ![nb - 1] = NUL] ELSE rb
           P(i) == tm[i] = NL /\ \A j \in 0 .. i - 1 : tm[j] # NL
<1>1. Terminated' = tm
  BY DEF Terminated
<1>2. tm[n] = NL /\ \A j \in 0 .. n - 1 : tm[j] # NL
  BY CharsAssumption, BufferAssumption DEF Cells
<1> HIDE DEF tm
<1>3. \A i \in Cells : P(i) => i = n
  BY <1>2, BufferAssumption DEF Cells
<1>4. ReadCount' = IF \E i \in Cells : tm[i] = NL THEN 1 + CHOOSE i \in Cells : P(i)
                  ELSE MAX_BUFFER_SIZE + 1
  BY <1>1 DEF ReadCount
<1>5. P(n)
  BY <1>2
<1> HIDE DEF P
<1>6. (CHOOSE i \in Cells : P(i)) = n
  BY <1>3, <1>5
<1>7. ReadCount' = 1 + n
  BY <1>2, <1>4, <1>6
<1> QED BY <1>7, BufferAssumption DEF Cells

\* The return key: the line is remembered and handed over.
LEMMA EnterPreserves ==
    ASSUME MaxPending = 0, IInv, EnterKey
    PROVE  IInv'
<1>1. pending = << >> /\ pending' = << >> /\ clear_keyboard_buffer /\ nbytes' = nbytes
  BY PendingCounts DEF IInv, EnterKey, CanInterrupt, TypeOK
<1>2. /\ bufferSIZE \in 0 .. MAX_CHARACTERS
      /\ IsLine(buffer, bufferSIZE)
      /\ buffer \in [Cells -> Bytes] /\ read_buffer \in [Cells -> Bytes]
  BY <1>1, QuietLine DEF IInv, TypeOK
<1>3. /\ HistoryLines' /\ RingIndices'
      /\ history' \in [Rows -> [Cells -> Bytes]]
      /\ historyIDX' \in Rows /\ historyBASE' \in Rows
      /\ historySIZE' \in 0 .. NUM_HISTORY_BUFFERS
  <2>1. CASE buffer[0] # NUL
    BY <1>1, <2>1, RememberPreserves DEF IInv, EnterKey
  <2>2. CASE buffer[0] = NUL
    <3>1. UNCHANGED histVars
      BY <2>2 DEF EnterKey
    <3> QED BY <3>1, KeepHistory DEF IInv, TypeOK, histVars
  <2> QED BY <2>1, <2>2
<1>4. /\ read_buffer' \in [Cells -> Bytes] /\ return_switch' \in BOOLEAN
      /\ DeliveredLine'
  <2>1. CASE return_switch
    <3> DEFINE line == [buffer EXCEPT ![bufferSIZE] = NL]
               n == bufferSIZE
               rb == [i \in Cells |-> IF i <= n THEN line[i] ELSE read_buffer[i]]
    <3>1. /\ line \in [Cells -> Bytes] /\ n \in Cells
          /\ line[n] = NL /\ \A i \in 0 .. n - 1 : i \in Cells /\ line[i] \in Chars
      BY <1>2, BufferAssumption DEF Cells, Bytes, IsLine, MAX_CHARACTERS
    <3>2. TextLen(line) = n
      <4> HIDE DEF line, n
      <4>1. n \in 0 .. MAX_CHARACTERS
        BY <1>2 DEF n
      <4> QED BY <3>1, <4>1, TextLenValue
    <3>3. read_buffer' = rb /\ return_switch' = FALSE
      <4>1. read_buffer' = keyboard_read(line, read_buffer) /\ return_switch' = FALSE
        BY <2>1 DEF EnterKey
      <4> HIDE DEF line, n
      <4> QED BY <3>2, <4>1 DEF keyboard_read
    <3>4. rb \in [Cells -> Bytes] /\ rb[n] = NL /\ \A i \in 0 .. n - 1 : rb[i] \in Chars
      <4> HIDE DEF line
      <4> QED BY <1>2, <3>1, BufferAssumption DEF Cells, MAX_CHARACTERS
    <3> HIDE DEF rb, n, line
    <3>5. ASSUME nbytes # 0, n # nbytes - 1 PROVE ReadCount' = n + 1
      <4>1. nbytes \in Nat
        BY ReadSizesAssumption DEF IInv, TypeOK
      <4> QED BY <1>1, <3>1, <3>3, <3>4, <3>5, <4>1, CountedLine
    <3> QED BY <1>1, <3>1, <3>3, <3>4, <3>5 DEF DeliveredLine
  <2>2. CASE ~return_switch
    <3>1. UNCHANGED <<read_buffer, return_switch>>
      BY <2>2 DEF EnterKey
    <3> QED BY <1>1, <3>1, KeepDelivered DEF IInv, TypeOK, readVars
  <2> QED BY <2>1, <2>2
<1>5. TypeOK' /\ OneHandler'
  BY <1>1, <1>3, <1>4, ClearedLine DEF IInv, TypeOK, OneHandler
<1> QED BY <1>1, <1>3, <1>4, <1>5, ClearedLine DEF IInv

\* terminal_read starts or returns.
LEMMA ReadPreserves ==
    ASSUME IInv, (\E n \in ReadSizes : ReadBegin(n)) \/ ReadEnd
    PROVE  IInv'
<1>1. UNCHANGED <<bufVars, histVars, pending>>
  BY DEF ReadBegin, ReadEnd
<1>2. /\ read_buffer' \in [Cells -> Bytes] /\ return_switch' \in BOOLEAN
      /\ nbytes' \in ReadSizes \cup {0} /\ DeliveredLine'
  <2>1. CASE \E n \in ReadSizes : ReadBegin(n)
    BY <2>1 DEF ReadBegin, IInv, TypeOK, DeliveredLine
  <2>2. CASE ReadEnd
    <3>1. Terminated \in [Cells -> Bytes]
      BY DEF IInv, TypeOK, Terminated, Bytes
    <3> QED BY <2>2, <3>1 DEF ReadEnd, IInv, TypeOK, DeliveredLine
  <2> QED BY <2>1, <2>2
<1>3. TypeOK' /\ OneHandler'
  BY <1>1, <1>2 DEF IInv, TypeOK, OneHandler, bufVars, histVars
<1> QED BY <1>1, <1>2, <1>3, KeepLine, KeepHistory DEF IInv
-----------------------------------------------------------------------------
(* The theorems.                                                           *)

\* The state at boot.
LEMMA InitEstablishes == Init => IInv
<1> SUFFICES ASSUME Init PROVE IInv
  OBVIOUS
<1>1. TypeOK /\ OneHandler
  <2>1. Blank \in [Cells -> Bytes]
    BY DEF Blank, Bytes
  <2>2. 0 \in 0 .. MAX_BUFFER_SIZE /\ 0 \in Rows /\ 0 \in 0 .. NUM_HISTORY_BUFFERS
    BY BufferAssumption, HistoryAssumption DEF Rows
  <2>3. pending \in Seq({"insert", "backspace"}) /\ Len(pending) <= 1
    BY DEF Init
  <2>4. return_switch \in BOOLEAN
    BY DEF Init
  <2> QED BY <2>1, <2>2, <2>3, <2>4 DEF Init, TypeOK, OneHandler
<1>2. IsLine(Blank, 0) /\ 0 \in 0 .. MAX_CHARACTERS
  BY BufferAssumption DEF IsLine, Blank, Cells, MAX_CHARACTERS
<1>3. LineFits /\ LineText
  <2>1. EndIDX = 0 /\ EndSIZE = 0
    BY <1>1, PendingCounts DEF Init, TypeOK, EndIDX, EndSIZE
  <2> QED BY <1>2, <2>1, BufferAssumption DEF Init, LineFits, LineText, IsLine, MAX_CHARACTERS
<1>4. HistoryLines
  BY <1>2 DEF Init, HistoryLines
<1>5. RingIndices
  BY HistoryAssumption DEF Init, RingIndices, PastRows, Rows
<1>6. DeliveredLine
  BY DEF Init, DeliveredLine
<1> QED BY <1>1, <1>3, <1>4, <1>5, <1>6 DEF IInv

\* Every action keeps the invariant.
LEMMA StepPreserves ==
    ASSUME MaxPending = 0, IInv, [Next]_vars
    PROVE  IInv'
<1>1. CASE \E c \in Chars : InsertBegin(c)
  BY <1>1, InsertPreserves
<1>2. CASE BackspaceBegin
  BY <1>2, BackspacePreserves
<1>3. CASE HandlerEnd
  BY <1>3, HandlerEndPreserves
<1>4. CASE keyboard_left_arrow \/ keyboard_right_arrow
  BY <1>4, ArrowsPreserve
<1>5. CASE ClearKey \/ StartProgram
  BY <1>5, ClearPreserves
<1>6. CASE up_history
  BY <1>6, UpPreserves
<1>7. CASE down_history
  BY <1>7, DownPreserves
<1>8. CASE EnterKey
  BY <1>8, EnterPreserves
<1>9. CASE (\E n \in ReadSizes : ReadBegin(n)) \/ ReadEnd
  BY <1>9, ReadPreserves
<1>10. CASE UNCHANGED vars
  <2>1. UNCHANGED <<bufVars, pending>> /\ UNCHANGED histVars /\ UNCHANGED readVars
    BY <1>10 DEF vars
  <2>2. TypeOK' /\ OneHandler'
    BY <2>1 DEF IInv, TypeOK, OneHandler, bufVars, histVars, readVars
  <2> QED BY <2>1, <2>2, KeepLine, KeepHistory, KeepDelivered DEF IInv
<1> QED BY <1>1, <1>2, <1>3, <1>4, <1>5, <1>6, <1>7, <1>8, <1>9, <1>10 DEF Next

\* The invariant of the line editor (keyboard.c) between its interruptions.
THEOREM Invariance ==
    ASSUME MaxPending = 0
    PROVE  Spec => []IInv
BY InitEstablishes, StepPreserves, PTL DEF Spec

\* Keys and reads leave every variable of keyboard.c and terminal_read in its range.
THEOREM TypeCorrect ==
    ASSUME MaxPending = 0
    PROVE  Spec => []TypeOK
<1>1. IInv => TypeOK
  BY DEF IInv
<1> QED BY <1>1, Invariance, PTL

\* The line always fits its buffer with the cursor in it (the test against
\* MAX_CHARACTERS suffices), and buffer holds exactly that line.
THEOREM LineCorrect ==
    ASSUME MaxPending = 0
    PROVE  Spec => [](LineFits /\ LineText)
<1>1. IInv => LineFits /\ LineText
  BY DEF IInv
<1> QED BY <1>1, Invariance, PTL

\* terminal_return hands a whole line with its '\n' to the reader it releases, and
\* nothing disturbs it before terminal_read has copied it.
THEOREM DeliveryCorrect ==
    ASSUME MaxPending = 0
    PROVE  Spec => []DeliveredLine
<1>1. IInv => DeliveredLine
  BY DEF IInv
<1> QED BY <1>1, Invariance, PTL

\* The index arithmetic of up_history, down_history and increment_history_indices
\* only ever shows rows that hold a line, for every number of rows.
THEOREM HistoryCorrect ==
    ASSUME MaxPending = 0
    PROVE  Spec => []HistoryRing
<1>1. IInv => HistoryRing
  <2> SUFFICES ASSUME IInv PROVE HistoryRing
    OBVIOUS
  <2>1. historyIDX \in Rows /\ historyBASE \in Rows /\ historySIZE \in 0 .. NUM_HISTORY_BUFFERS
        /\ history \in [Rows -> [Cells -> Bytes]]
    BY DEF IInv, TypeOK
  <2>2. Back <= Visible
    BY <2>1, RowDistance, HistoryAssumption DEF IInv, RingIndices, Back, Visible, Rows
  <2>3. ASSUME NEW b \in 1 .. Visible
        PROVE  PastRow(b)[0] \in Chars /\ TextLen(PastRow(b)) < MAX_BUFFER_SIZE
    <3>1. b \in Rows
      BY <2>1, HistoryAssumption DEF Visible, Rows
    <3>2. PICK r \in Rows : r = (historyBASE - b) % NUM_HISTORY_BUFFERS
      BY <2>1, <3>1, RowDistance, HistoryAssumption DEF Rows
    <3>3. r \in PastRows
      BY <2>1, <3>1, <3>2, RowDistance, HistoryAssumption DEF IInv, RingIndices, PastRows, Visible, Rows
    <3>4. PICK n \in 0 .. MAX_CHARACTERS : IsLine(history[r], n)
      BY DEF IInv, HistoryLines
    <3>5. TextLen(history[r]) = n
      BY <2>1, <3>4, TextLenOfLine
    <3>6. n < MAX_BUFFER_SIZE
      BY BufferAssumption DEF MAX_CHARACTERS
    <3> QED BY <3>2, <3>3, <3>5, <3>6 DEF PastRow, IInv, RingIndices
  <2> QED BY <2>2, <2>3 DEF HistoryRing, IInv, RingIndices
<1> QED BY <1>1, Invariance, PTL
-----------------------------------------------------------------------------
(* The refinement: what the steps do to the variables of EditLine.         *)

\* The text of a row that holds a line.
LEMMA TextOfLine ==
    ASSUME NEW row \in [Cells -> Bytes], NEW n \in 0 .. MAX_CHARACTERS, IsLine(row, n)
    PROVE  /\ Text(row) \in Seq(Chars) /\ Len(Text(row)) = n
           /\ \A i \in 1 .. n : Text(row)[i] = row[i - 1]
<1>1. Text(row) = [i \in 1 .. n |-> row[i - 1]]
  BY TextLenOfLine DEF Text
<1>2. \A i \in 1 .. n : row[i - 1] \in Chars
  BY BufferAssumption DEF IsLine, Cells, MAX_CHARACTERS
<1>3. n \in Nat
  OBVIOUS
<1> QED BY <1>1, <1>2, <1>3

\* A line is its characters.
LEMMA SameText ==
    ASSUME NEW row \in [Cells -> Bytes], NEW n \in 0 .. MAX_CHARACTERS, IsLine(row, n),
           NEW s \in Seq(Chars), Len(s) = n, \A i \in 1 .. n : s[i] = row[i - 1]
    PROVE  Text(row) = s
<1>1. /\ Text(row) \in Seq(Chars) /\ Len(Text(row)) = Len(s)
      /\ \A i \in 1 .. Len(Text(row)) : Text(row)[i] = s[i]
  BY TextOfLine
<1> QED BY <1>1, SeqEqual

\* The empty line.
LEMMA BlankText == Text(Blank) = << >> /\ Blank \in [Cells -> Bytes] /\ IsLine(Blank, 0)
<1>1. Blank \in [Cells -> Bytes] /\ IsLine(Blank, 0) /\ 0 \in 0 .. MAX_CHARACTERS
  BY BufferAssumption DEF Blank, Bytes, IsLine, Cells, MAX_CHARACTERS
<1>2. Text(Blank) \in Seq(Chars) /\ Len(Text(Blank)) = 0
  BY <1>1, TextOfLine
<1> QED BY <1>1, <1>2, EmptySeq

\* A character put into a line, and one taken out, as EditLine does it.
Inserted(s, k, c) == SubSeq(s, 1, k) \o <<c>> \o SubSeq(s, k + 1, Len(s))
Removed(s, k) == SubSeq(s, 1, k - 1) \o SubSeq(s, k + 1, Len(s))

\* The row of a line that a character was put into.
LEMMA InsertedText ==
    ASSUME NEW s \in Seq(Chars), NEW m \in Nat, Len(s) = m, m < MAX_CHARACTERS,
           NEW c \in Chars, NEW k \in 0 .. m,
           NEW row \in [Cells -> Bytes], IsLine(row, m + 1),
           \A i \in 1 .. k : row[i - 1] = s[i],
           row[k] = c,
           \A i \in k + 1 .. m : row[i] = s[i]
    PROVE  Text(row) = Inserted(s, k, c)
<1>0. PICK t : t = Inserted(s, k, c)
  OBVIOUS
<1>1. m \in Nat /\ \A i \in 1 .. m : s[i] \in Chars
  BY ElementOfSeq
<1>2. PICK a : a = SubSeq(s, 1, k)
  OBVIOUS
<1>3. PICK b : b = SubSeq(s, k + 1, m)
  OBVIOUS
<1>4. a \in Seq(Chars) /\ Len(a) = k /\ \A i \in 1 .. k : a[i] = s[i]
  <2>1. /\ a \in Seq(Chars) /\ Len(a) = IF 1 <= k THEN k - 1 + 1 ELSE 0
        /\ \A i \in 1 .. k - 1 + 1 : a[i] = s[1 + i - 1]
    BY <1>1, <1>2, SubSeqProperties
  <2> QED BY <1>1, <2>1
<1>5. /\ b \in Seq(Chars) /\ Len(b) = m - k
      /\ \A i \in 1 .. m - k : b[i] = s[k + i]
  <2>1. /\ b \in Seq(Chars) /\ Len(b) = IF k + 1 <= m THEN m - (k + 1) + 1 ELSE 0
        /\ \A i \in 1 .. m - (k + 1) + 1 : b[i] = s[(k + 1) + i - 1]
    BY <1>1, <1>3, SubSeqProperties
  <2>2. Len(b) = m - k
    BY <2>1
  <2>3. ASSUME NEW i \in 1 .. m - k PROVE b[i] = s[k + i]
    <3>1. i \in 1 .. m - (k + 1) + 1 /\ (k + 1) + i - 1 = k + i
      OBVIOUS
    <3> QED BY <2>1, <3>1
  <2> QED BY <2>1, <2>2, <2>3
<1>6. PICK u : u = a \o <<c>>
  OBVIOUS
<1>7. u \in Seq(Chars) /\ Len(u) = k + 1 /\ \A i \in 1 .. k + 1 : u[i] = IF i <= k THEN s[i] ELSE c
  <2>1. <<c>> \in Seq(Chars) /\ Len(<<c>>) = 1 /\ <<c>>[1] = c
    OBVIOUS
  <2>2. /\ u \in Seq(Chars) /\ Len(u) = k + 1
        /\ \A i \in 1 .. k + 1 : u[i] = IF i <= k THEN a[i] ELSE <<c>>[i - k]
    BY <1>4, <1>6, <2>1, ConcatProperties
  <2>3. ASSUME NEW i \in 1 .. k + 1 PROVE u[i] = IF i <= k THEN s[i] ELSE c
    <3>1. CASE i <= k
      BY <1>4, <2>2, <3>1
    <3>2. CASE i = k + 1
      <4>1. i - k = 1 /\ ~(i <= k)
        BY <3>2
      <4> QED BY <2>1, <2>2, <4>1
    <3> QED BY <3>1, <3>2
  <2> QED BY <2>2, <2>3
<1>8. /\ t \in Seq(Chars) /\ Len(t) = m + 1
      /\ \A i \in 1 .. m + 1 : t[i] = IF i <= k + 1 THEN u[i] ELSE b[i - (k + 1)]
  <2>1. t = u \o b
    BY <1>0, <1>2, <1>3, <1>6, Zenon DEF Inserted
  <2>2. /\ t \in Seq(Chars) /\ Len(t) = Len(u) + Len(b)
        /\ \A i \in 1 .. Len(u) + Len(b) : t[i] = IF i <= Len(u) THEN u[i] ELSE b[i - Len(u)]
    <3>1. u \in Seq(Chars) /\ b \in Seq(Chars)
      BY <1>5, <1>7
    <3>2. u \o b \in Seq(Chars) /\ Len(u \o b) = Len(u) + Len(b)
      BY <3>1, ConcatProperties
    <3>3. \A i \in 1 .. Len(u) + Len(b) :
            (u \o b)[i] = IF i <= Len(u) THEN u[i] ELSE b[i - Len(u)]
      BY <3>1, ConcatProperties
    <3> QED BY <2>1, <3>2, <3>3, Zenon
  <2>3. Len(u) + Len(b) = m + 1
    BY <1>5, <1>7
  <2> QED BY <1>7, <2>2, <2>3
<1>9. ASSUME NEW i \in 1 .. k PROVE t[i] = s[i]
  BY <1>7, <1>8
<1>10. t[k + 1] = c
  BY <1>7, <1>8
<1>11. ASSUME NEW i \in k + 1 .. m PROVE t[i + 1] = s[i]
  <2>1. PICK j \in 1 .. m - k : j = (i + 1) - (k + 1) /\ k + j = i
    OBVIOUS
  <2>2. i + 1 \in 1 .. m + 1 /\ ~(i + 1 <= k + 1)
    OBVIOUS
  <2>3. t[i + 1] = b[j]
    BY <1>8, <2>1, <2>2, Zenon
  <2> QED BY <1>5, <2>1, <2>3
<1>12. ASSUME NEW i \in 1 .. m + 1 PROVE t[i] = row[i - 1]
  <2>1. CASE i <= k
    BY <1>9, <2>1
  <2>2. CASE i = k + 1
    <3>1. i - 1 = k
      BY <2>2
    <3> QED BY <1>10, <2>2, <3>1
  <2>3. CASE i > k + 1
    <3>1. PICK j \in k + 1 .. m : j = i - 1 /\ i = j + 1
      BY <2>3
    <3> QED BY <1>11, <3>1
  <2> QED BY <2>1, <2>2, <2>3
<1>13. m + 1 \in 0 .. MAX_CHARACTERS
  BY BufferAssumption DEF MAX_CHARACTERS
<1>14. Text(row) = t
  BY <1>8, <1>12, <1>13, SameText
<1> QED BY <1>0, <1>14

\* The row of a line that a character was taken out of.
LEMMA RemovedText ==
    ASSUME NEW s \in Seq(Chars), NEW m \in Nat, Len(s) = m, m <= MAX_CHARACTERS,
           NEW k \in 1 .. m,
           NEW row \in [Cells -> Bytes], IsLine(row, m - 1),
           \A i \in 1 .. k - 1 : row[i - 1] = s[i],
           \A i \in k .. m - 1 : row[i - 1] = s[i + 1]
    PROVE  Text(row) = Removed(s, k)
<1>0. PICK t : t = Removed(s, k)
  OBVIOUS
<1>1. m \in Nat /\ \A i \in 1 .. m : s[i] \in Chars
  BY ElementOfSeq
<1>2. PICK a : a = SubSeq(s, 1, k - 1)
  OBVIOUS
<1>3. PICK b : b = SubSeq(s, k + 1, m)
  OBVIOUS
<1>4. a \in Seq(Chars) /\ Len(a) = k - 1 /\ \A i \in 1 .. k - 1 : a[i] = s[i]
  <2>1. /\ a \in Seq(Chars) /\ Len(a) = IF 1 <= k - 1 THEN (k - 1) - 1 + 1 ELSE 0
        /\ \A i \in 1 .. (k - 1) - 1 + 1 : a[i] = s[1 + i - 1]
    BY <1>1, <1>2, SubSeqProperties
  <2> QED BY <1>1, <2>1
<1>5. /\ b \in Seq(Chars) /\ Len(b) = m - k
      /\ \A i \in 1 .. m - k : b[i] = s[k + i]
  <2>1. /\ b \in Seq(Chars) /\ Len(b) = IF k + 1 <= m THEN m - (k + 1) + 1 ELSE 0
        /\ \A i \in 1 .. m - (k + 1) + 1 : b[i] = s[(k + 1) + i - 1]
    BY <1>1, <1>3, SubSeqProperties
  <2>2. Len(b) = m - k
    BY <2>1
  <2>3. ASSUME NEW i \in 1 .. m - k PROVE b[i] = s[k + i]
    <3>1. i \in 1 .. m - (k + 1) + 1 /\ (k + 1) + i - 1 = k + i
      OBVIOUS
    <3> QED BY <2>1, <3>1
  <2> QED BY <2>1, <2>2, <2>3
<1>6. /\ t \in Seq(Chars) /\ Len(t) = m - 1
      /\ \A i \in 1 .. m - 1 : t[i] = IF i <= k - 1 THEN a[i] ELSE b[i - (k - 1)]
  <2>1. t = a \o b
    BY <1>0, <1>2, <1>3, Zenon DEF Removed
  <2>2. /\ t \in Seq(Chars) /\ Len(t) = Len(a) + Len(b)
        /\ \A i \in 1 .. Len(a) + Len(b) : t[i] = IF i <= Len(a) THEN a[i] ELSE b[i - Len(a)]
    <3>1. a \in Seq(Chars) /\ b \in Seq(Chars)
      BY <1>4, <1>5
    <3>2. a \o b \in Seq(Chars) /\ Len(a \o b) = Len(a) + Len(b)
      BY <3>1, ConcatProperties
    <3>3. \A i \in 1 .. Len(a) + Len(b) :
            (a \o b)[i] = IF i <= Len(a) THEN a[i] ELSE b[i - Len(a)]
      BY <3>1, ConcatProperties
    <3> QED BY <2>1, <3>2, <3>3, Zenon
  <2>3. Len(a) + Len(b) = m - 1
    BY <1>4, <1>5
  <2> QED BY <1>4, <2>2, <2>3
<1>7. ASSUME NEW i \in 1 .. k - 1 PROVE t[i] = s[i]
  BY <1>4, <1>6
<1>8. ASSUME NEW i \in k .. m - 1 PROVE t[i] = s[i + 1]
  <2>1. PICK j \in 1 .. m - k : j = i - (k - 1) /\ k + j = i + 1
    OBVIOUS
  <2>2. i \in 1 .. m - 1 /\ ~(i <= k - 1)
    OBVIOUS
  <2>3. t[i] = b[j]
    BY <1>6, <2>1, <2>2, Zenon
  <2> QED BY <1>5, <2>1, <2>3
<1>9. ASSUME NEW i \in 1 .. m - 1 PROVE t[i] = row[i - 1]
  <2>1. CASE i < k
    BY <1>7, <2>1
  <2>2. CASE i >= k
    BY <1>8, <2>2
  <2> QED BY <2>1, <2>2
<1>10. m - 1 \in 0 .. MAX_CHARACTERS
  BY BufferAssumption DEF MAX_CHARACTERS
<1>11. Text(row) = t
  BY <1>6, <1>9, <1>10, SameText
<1> QED BY <1>0, <1>11

\* Steps that leave the history alone show the same past lines.
LEMMA KeepPast ==
    ASSUME UNCHANGED histVars
    PROVE  Past' = Past /\ Back' = Back /\ Draft' = Draft
BY DEF histVars, Past, Back, Draft, Visible, PastRow

\* Steps that leave the read buffer alone hand nothing over.
LEMMA KeepMail ==
    ASSUME UNCHANGED readVars
    PROVE  Mail' = Mail /\ nbytes' = nbytes
BY DEF readVars, Mail

\* What is shown of the line buffer between two keys.
LEMMA QuietText ==
    ASSUME IInv, pending = << >>
    PROVE  /\ EndIDX = bufferIDX /\ bufferSIZE \in 0 .. MAX_CHARACTERS /\ bufferIDX \in 0 .. bufferSIZE
           /\ buffer \in [Cells -> Bytes] /\ IsLine(buffer, bufferSIZE)
           /\ Text(buffer) \in Seq(Chars) /\ Len(Text(buffer)) = bufferSIZE
           /\ \A i \in 1 .. bufferSIZE : Text(buffer)[i] = buffer[i - 1]
<1>1. /\ bufferSIZE \in 0 .. MAX_CHARACTERS /\ bufferIDX \in 0 .. bufferSIZE
      /\ IsLine(buffer, bufferSIZE) /\ buffer \in [Cells -> Bytes]
  BY QuietLine DEF IInv, TypeOK
<1>2. EndIDX = bufferIDX
  BY <1>1, PendingCounts, BufferAssumption DEF EndIDX, IInv, TypeOK, MAX_CHARACTERS
<1> QED BY <1>1, <1>2, TextOfLine

\* keyboard_insert puts its character in at the cursor.
LEMMA InsertRefines ==
    ASSUME MaxPending = 0, IInv, NEW c \in Chars, InsertBegin(c)
    PROVE  Abstract!Insert(c)
<1>1. pending = << >>
  BY PendingCounts DEF IInv, InsertBegin, CanInterrupt, TypeOK
<1>2. bufferSIZE # MAX_CHARACTERS /\ UNCHANGED <<bufferIDX, bufferSIZE, histVars, readVars>>
  BY DEF InsertBegin, LineFull
<1>3. PICK m \in 0 .. MAX_CHARACTERS, k \in 0 .. MAX_CHARACTERS :
        m = bufferSIZE /\ k = bufferIDX /\ k <= m
  BY <1>1, QuietText, BufferAssumption DEF MAX_CHARACTERS
<1>4. m < MAX_CHARACTERS /\ m \in Nat /\ k \in 0 .. m /\ MAX_CHARACTERS \in Nat
  BY <1>2, <1>3, BufferAssumption DEF MAX_CHARACTERS
<1>5. PICK s : s = Text(buffer)
  OBVIOUS
<1>6. /\ EndIDX = k /\ s \in Seq(Chars) /\ Len(s) = m
      /\ buffer \in [Cells -> Bytes] /\ IsLine(buffer, m) /\ \A i \in 1 .. m : s[i] = buffer[i - 1]
  BY <1>1, <1>3, <1>5, QuietText
<1>7. PICK row : row = [i \in Cells |->
                     IF i = k THEN c
                     ELSE IF k < i /\ i <= m + 1 THEN buffer[i - 1]
                     ELSE buffer[i]]
  OBVIOUS
<1>8. buffer' = row /\ pending' = <<"insert">>
  BY <1>1, <1>3, <1>7 DEF InsertBegin
<1>9. EndIDX' = k + 1
  <2>1. bufferSIZE' = (m + 1) - 1 /\ bufferIDX' = (k + 1) - 1 /\ m + 1 \in Nat /\ k + 1 \in Nat
    BY <1>2, <1>3, <1>4
  <2> QED BY <1>8, <2>1, EndIndices
<1>10. row \in [Cells -> Bytes] /\ IsLine(row, m + 1)
  <2>1. ASSUME NEW i \in Cells
        PROVE  /\ i < m + 1 => row[i] \in Chars
               /\ i >= m + 1 => row[i] = NUL
    BY <1>4, <1>6, <1>7, BufferAssumption DEF IsLine, Cells, MAX_CHARACTERS
  <2>2. ASSUME NEW i \in Cells PROVE row[i] \in Bytes
    BY <1>4, <2>1, BufferAssumption DEF Cells, Bytes, MAX_CHARACTERS
  <2>3. row = [i \in Cells |-> row[i]]
    BY <1>7
  <2> QED BY <2>1, <2>2, <2>3 DEF IsLine
<1>11. ASSUME NEW i \in 1 .. k PROVE row[i - 1] = s[i]
  BY <1>4, <1>6, <1>7, BufferAssumption DEF Cells, MAX_CHARACTERS
<1>12. ASSUME NEW i \in k + 1 .. m PROVE row[i] = s[i]
  BY <1>4, <1>6, <1>7, BufferAssumption DEF Cells, MAX_CHARACTERS
<1>13. Text(buffer)' = Inserted(Text(buffer), EndIDX, c)
  <2>1. k \in Cells /\ row[k] = c
    BY <1>4, <1>7, BufferAssumption DEF Cells, MAX_CHARACTERS
  <2>2. Text(row) = Inserted(s, k, c)
    BY <1>4, <1>6, <1>10, <1>11, <1>12, <2>1, InsertedText
  <2>3. Text(buffer)' = Text(row)
    BY <1>8
  <2> QED BY <1>5, <1>6, <2>2, <2>3
<1>14. EndIDX' = EndIDX + 1 /\ Len(Text(buffer)) < MAX_CHARACTERS
  BY <1>4, <1>5, <1>6, <1>9
<1>15. UNCHANGED <<Past, Back, Draft, nbytes # 0, Mail>>
  BY <1>2, KeepPast, KeepMail
<1> QED BY <1>13, <1>14, <1>15 DEF Abstract!Insert, Inserted

\* keyboard_backspace takes out the character before the cursor.
LEMMA BackspaceRefines ==
    ASSUME MaxPending = 0, IInv, BackspaceBegin
    PROVE  Abstract!Backspace
<1>1. pending = << >>
  BY PendingCounts DEF IInv, BackspaceBegin, CanInterrupt, TypeOK
<1>2. bufferIDX # 0 /\ UNCHANGED <<bufferIDX, bufferSIZE, histVars, readVars>>
  BY DEF BackspaceBegin
<1>3. PICK m \in 0 .. MAX_CHARACTERS, k \in 0 .. MAX_CHARACTERS :
        m = bufferSIZE /\ k = bufferIDX /\ k <= m
  BY <1>1, QuietText, BufferAssumption DEF MAX_CHARACTERS
<1>4. m <= MAX_CHARACTERS /\ m \in Nat /\ k \in 1 .. m /\ MAX_CHARACTERS \in Nat
  BY <1>2, <1>3, BufferAssumption DEF MAX_CHARACTERS
<1>5. PICK s : s = Text(buffer)
  OBVIOUS
<1>6. /\ EndIDX = k /\ s \in Seq(Chars) /\ Len(s) = m
      /\ buffer \in [Cells -> Bytes] /\ IsLine(buffer, m) /\ \A i \in 1 .. m : s[i] = buffer[i - 1]
  BY <1>1, <1>3, <1>5, QuietText
<1>7. PICK row : row = [i \in Cells |->
                     IF i = m THEN NUL
                     ELSE IF k - 1 <= i /\ i < m THEN buffer[i + 1]
                     ELSE buffer[i]]
  OBVIOUS
<1>8. buffer' = row /\ pending' = <<"backspace">>
  BY <1>1, <1>3, <1>7 DEF BackspaceBegin
<1>9. EndIDX' = k - 1
  <2>1. /\ bufferSIZE' = (m - 1) - (-1) /\ bufferIDX' = (k - 1) - (-1)
        /\ m - 1 \in Nat /\ k - 1 \in Nat
    BY <1>2, <1>3, <1>4
  <2> QED BY <1>8, <2>1, EndIndices
<1>10. row \in [Cells -> Bytes] /\ IsLine(row, m - 1)
  <2>1. ASSUME NEW i \in Cells
        PROVE  /\ i < m - 1 => row[i] \in Chars
               /\ i >= m - 1 => row[i] = NUL
    BY <1>4, <1>6, <1>7, BufferAssumption DEF IsLine, Cells, MAX_CHARACTERS
  <2>2. ASSUME NEW i \in Cells PROVE row[i] \in Bytes
    BY <1>4, <2>1, BufferAssumption DEF Cells, Bytes, MAX_CHARACTERS
  <2>3. row = [i \in Cells |-> row[i]]
    BY <1>7
  <2> QED BY <2>1, <2>2, <2>3 DEF IsLine
<1>11. ASSUME NEW i \in 1 .. k - 1 PROVE row[i - 1] = s[i]
  BY <1>4, <1>6, <1>7, BufferAssumption DEF Cells, MAX_CHARACTERS
<1>12. ASSUME NEW i \in k .. m - 1 PROVE row[i - 1] = s[i + 1]
  <2>1. PICK j \in Cells : j = i - 1 /\ j + 1 = i
    BY <1>4, BufferAssumption DEF Cells, MAX_CHARACTERS
  <2>2. row[j] = buffer[i]
    BY <1>4, <1>7, <2>1
  <2>3. PICK l \in 1 .. m : l = i + 1 /\ l - 1 = i
    BY <1>4
  <2> QED BY <1>6, <2>1, <2>2, <2>3
<1>13. Text(buffer)' = Removed(Text(buffer), EndIDX)
  <2>1. Text(row) = Removed(s, k)
    BY <1>4, <1>6, <1>10, <1>11, <1>12, RemovedText
  <2>2. Text(buffer)' = Text(row)
    BY <1>8
  <2> QED BY <1>5, <1>6, <2>1, <2>2
<1>14. EndIDX' = EndIDX - 1 /\ EndIDX > 0
  BY <1>4, <1>6, <1>9
<1>15. UNCHANGED <<Past, Back, Draft, nbytes # 0, Mail>>
  BY <1>2, KeepPast, KeepMail
<1> QED BY <1>13, <1>14, <1>15 DEF Abstract!Backspace, Removed

\* The end of a handler changes nothing that is shown.
LEMMA HandlerEndRefines ==
    ASSUME IInv, HandlerEnd
    PROVE  UNCHANGED Abstract!vars
<1>1. UNCHANGED <<buffer, histVars, readVars>>
  BY DEF HandlerEnd
<1>2. PICK n \in 0 .. MAX_CHARACTERS, k \in 0 .. MAX_CHARACTERS :
        n = EndSIZE /\ k = EndIDX /\ bufferSIZE' = n - 0 /\ bufferIDX' = k - 0 /\ pending' = << >>
  BY HandlerFinishes, BufferAssumption DEF MAX_CHARACTERS
<1>3. n \in Nat /\ k \in Nat
  BY BufferAssumption DEF MAX_CHARACTERS
<1>4. EndIDX' = EndIDX
  BY <1>2, <1>3, EndIndices
<1>5. Text(buffer)' = Text(buffer)
  BY <1>1
<1> QED BY <1>1, <1>4, <1>5, KeepPast, KeepMail DEF Abstract!vars

\* The arrows move the cursor within the line.
LEMMA ArrowsRefine ==
    ASSUME MaxPending = 0, IInv, keyboard_left_arrow \/ keyboard_right_arrow
    PROVE  Abstract!Move
<1>1. pending = << >>
  BY PendingCounts DEF IInv, keyboard_left_arrow, keyboard_right_arrow, CanInterrupt, TypeOK
<1>2. UNCHANGED <<buffer, bufferSIZE, histVars, readVars, pending>>
  BY DEF keyboard_left_arrow, keyboard_right_arrow
<1>3. PICK m \in 0 .. MAX_CHARACTERS, k \in 0 .. MAX_CHARACTERS :
        m = bufferSIZE /\ k = bufferIDX /\ k <= m /\ EndIDX = k /\ Len(Text(buffer)) = m
  BY <1>1, QuietText, BufferAssumption DEF MAX_CHARACTERS
<1>4. PICK l \in 0 .. m : bufferIDX' = l /\ (l = k - 1 \/ l = k + 1)
  BY <1>3, BufferAssumption DEF keyboard_left_arrow, keyboard_right_arrow, MAX_CHARACTERS
<1>5. EndIDX' = l
  <2>1. bufferSIZE' = m - 0 /\ bufferIDX' = l - 0 /\ m \in Nat /\ l \in Nat /\ pending' = << >>
    BY <1>1, <1>2, <1>3, <1>4, BufferAssumption DEF MAX_CHARACTERS
  <2> QED BY <2>1, EndIndices
<1>6. Text(buffer)' = Text(buffer)
  BY <1>2
<1>7. EndIDX' \in {EndIDX - 1, EndIDX + 1} \cap 0 .. Len(Text(buffer))
  BY <1>3, <1>4, <1>5
<1>8. UNCHANGED <<Past, Back, Draft, nbytes # 0, Mail>>
  BY <1>2, KeepPast, KeepMail
<1> QED BY <1>6, <1>7, <1>8 DEF Abstract!Move

\* clear_keyboard_buffer shows an empty line.
LEMMA ClearedText ==
    ASSUME clear_keyboard_buffer, pending' = << >>
    PROVE  Text(buffer)' = << >> /\ EndIDX' = 0
<1>1. buffer' = Blank /\ bufferIDX' = 0 - 0 /\ bufferSIZE' = 0 - 0
  BY DEF clear_keyboard_buffer
<1>2. EndIDX' = 0
  BY <1>1, EndIndices
<1>3. Text(buffer)' = Text(Blank)
  BY <1>1 DEF Text, TextLen, Blank
<1> QED BY <1>2, <1>3, BlankText

\* Ctrl-L.
LEMMA ClearRefines ==
    ASSUME MaxPending = 0, IInv, ClearKey
    PROVE  Abstract!Clear
<1>1. pending = << >> /\ pending' = << >> /\ clear_keyboard_buffer /\ UNCHANGED <<histVars, readVars>>
  BY PendingCounts DEF IInv, ClearKey, CanInterrupt, TypeOK
<1>2. UNCHANGED <<Past, Back, Draft, nbytes # 0, Mail>>
  BY <1>1, KeepPast, KeepMail
<1> QED BY <1>1, <1>2, ClearedText DEF Abstract!Clear

\* terminal_read starts to wait.
LEMMA ReadBeginRefines ==
    ASSUME IInv, NEW n \in ReadSizes, ReadBegin(n)
    PROVE  Abstract!StartRead
<1>1. nbytes = 0 /\ nbytes' = n /\ return_switch' = TRUE
      /\ UNCHANGED <<bufVars, histVars, read_buffer, pending>>
  BY DEF ReadBegin
<1>2. n # 0
  BY ReadSizesAssumption
<1>3. Mail = {} /\ Mail' = {}
  BY <1>1 DEF Mail
<1>4. Text(buffer)' = Text(buffer) /\ EndIDX' = EndIDX
  BY <1>1 DEF bufVars, EndIDX, Ahead, Behind
<1>5. ~(nbytes # 0) /\ (nbytes # 0)' = TRUE
  BY <1>1, <1>2
<1> QED BY <1>1, <1>3, <1>4, <1>5, KeepPast DEF Abstract!StartRead

\* terminal_read returns with the line that was handed over.
LEMMA ReadEndRefines ==
    ASSUME IInv, ReadEnd
    PROVE  Abstract!FinishRead
<1>1. nbytes # 0 /\ ~return_switch /\ nbytes' = 0 /\ UNCHANGED <<bufVars, histVars, pending>>
  BY DEF ReadEnd
<1>2. Mail # {} /\ Mail' = {}
  BY <1>1 DEF Mail
<1>3. Text(buffer)' = Text(buffer) /\ EndIDX' = EndIDX
  BY <1>1 DEF bufVars, EndIDX, Ahead, Behind
<1>4. (nbytes # 0)' = FALSE
  BY <1>1
<1> QED BY <1>1, <1>2, <1>3, <1>4, KeepPast DEF Abstract!FinishRead, Abstract!NoMail

-----------------------------------------------------------------------------
(* The refinement of the history: rows counted backwards from a row.       *)

RowBack(i, b) == (i - b) % NUM_HISTORY_BUFFERS
PastOf(h, i, v) == [j \in 1 .. v |-> Text(h[RowBack(i, v - j + 1)])]
SameElsewhere(g, h, i) == \A r \in Rows : r # i => h[r] = g[r]
Extended(a, h, k, v) == /\ v < NUM_HISTORY_BUFFERS - 1 => PastOf(h, k, v + 1) = a
                        /\ v = NUM_HISTORY_BUFFERS - 1 => PastOf(h, k, v) = Tail(a)
AllLines(h) == \A r \in Rows : \E n \in 0 .. MAX_CHARACTERS : IsLine(h[r], n)

\* RowBack without the remainder.
LEMMA RowBackValue ==
    ASSUME NEW i \in Rows, NEW b \in Rows
    PROVE  /\ RowBack(i, b) = IF i >= b THEN i - b ELSE i - b + NUM_HISTORY_BUFFERS
           /\ RowBack(i, b) \in Rows
           /\ RowBack(i, b) = i <=> b = 0
<1>1. RowBack(i, b) = IF i >= b THEN i - b ELSE i - b + NUM_HISTORY_BUFFERS
  BY RowDistance DEF RowBack
<1> QED BY <1>1, HistoryAssumption DEF Rows

\* The same row counted from the next one.
LEMMA RowBackNext ==
    ASSUME NEW i \in Rows, NEW b \in Rows, b + 1 \in Rows, NEW k \in Rows,
           k = (i + 1) % NUM_HISTORY_BUFFERS
    PROVE  RowBack(k, b + 1) = RowBack(i, b)
<1>1. k = IF i = NUM_HISTORY_BUFFERS - 1 THEN 0 ELSE i + 1
  BY NextRow
<1>2. RowBack(i, b) = IF i >= b THEN i - b ELSE i - b + NUM_HISTORY_BUFFERS
  BY RowBackValue
<1>3. PICK c \in Rows : c = b + 1
  OBVIOUS
<1>4. RowBack(k, c) = IF k >= c THEN k - c ELSE k - c + NUM_HISTORY_BUFFERS
  BY RowBackValue
<1>5. RowBack(k, c) = RowBack(i, b)
  BY <1>1, <1>2, <1>3, <1>4, HistoryAssumption DEF Rows
<1> QED BY <1>3, <1>5

\* The distance to the row after one that is not the start.
LEMMA RowBackStep ==
    ASSUME NEW d \in Rows, NEW i \in Rows, i # d, NEW r \in Rows,
           r = (i + 1) % NUM_HISTORY_BUFFERS
    PROVE  RowBack(d, i) = RowBack(d, r) + 1
<1>1. r = IF i = NUM_HISTORY_BUFFERS - 1 THEN 0 ELSE i + 1
  BY NextRow
<1>2. RowBack(d, i) = IF d >= i THEN d - i ELSE d - i + NUM_HISTORY_BUFFERS
  BY RowBackValue
<1>3. RowBack(d, r) = IF d >= r THEN d - r ELSE d - r + NUM_HISTORY_BUFFERS
  BY RowBackValue
<1> QED BY <1>1, <1>2, <1>3, HistoryAssumption DEF Rows

\* The row at a row's own distance.
LEMMA RowBackTwice ==
    ASSUME NEW d \in Rows, NEW r \in Rows, NEW c \in Rows, c = RowBack(d, r)
    PROVE  RowBack(d, c) = r
<1>1. c = IF d >= r THEN d - r ELSE d - r + NUM_HISTORY_BUFFERS
  BY RowBackValue
<1>2. RowBack(d, c) = IF d >= c THEN d - c ELSE d - c + NUM_HISTORY_BUFFERS
  BY RowBackValue
<1> QED BY <1>1, <1>2, HistoryAssumption DEF Rows

\* The past lines as a sequence.
LEMMA PastOfLines ==
    ASSUME NEW h \in [Rows -> [Cells -> Bytes]], AllLines(h), NEW i \in Rows, NEW v \in Rows
    PROVE  /\ PastOf(h, i, v) \in Seq(Seq(Chars)) /\ Len(PastOf(h, i, v)) = v
           /\ \A j \in 1 .. v : PastOf(h, i, v)[j] = Text(h[RowBack(i, v - j + 1)])
<1>1. v \in Nat
  BY HistoryAssumption DEF Rows
<1>2. ASSUME NEW j \in 1 .. v PROVE Text(h[RowBack(i, v - j + 1)]) \in Seq(Chars)
  <2>1. v - j + 1 \in Rows
    BY <1>1, HistoryAssumption DEF Rows
  <2>2. PICK r \in Rows : r = RowBack(i, v - j + 1)
    BY <2>1, RowBackValue
  <2>3. PICK n \in 0 .. MAX_CHARACTERS : IsLine(h[r], n)
    BY DEF AllLines
  <2> QED BY <2>2, <2>3, TextOfLine
<1>3. PICK f : f = PastOf(h, i, v)
  OBVIOUS
<1>4. f \in [1 .. v -> Seq(Chars)] /\ \A j \in 1 .. v : f[j] = Text(h[RowBack(i, v - j + 1)])
  BY <1>2, <1>3 DEF PastOf
<1>5. f \in Seq(Seq(Chars)) /\ Len(f) = v
  BY <1>1, <1>4
<1> QED BY <1>3, <1>4, <1>5

\* The past lines depend on the rows other than historyBASE only.
LEMMA PastOfSame ==
    ASSUME NEW g, NEW h, NEW i \in Rows, NEW v \in Rows,
           \A r \in Rows : r # i => g[r] = h[r]
    PROVE  PastOf(g, i, v) = PastOf(h, i, v)
<1>1. ASSUME NEW j \in 1 .. v PROVE g[RowBack(i, v - j + 1)] = h[RowBack(i, v - j + 1)]
  <2>1. PICK b \in Rows : b = v - j + 1 /\ b # 0
    BY HistoryAssumption DEF Rows
  <2>2. RowBack(i, b) \in Rows /\ RowBack(i, b) # i
    BY <2>1, RowBackValue
  <2> QED BY <2>1, <2>2
<1> QED BY <1>1 DEF PastOf

\* The state seen through PastOf, before and after a step.
LEMMA RingNow ==
    ASSUME IInv
    PROVE  /\ Visible \in Rows /\ Back \in Rows /\ Back <= Visible
           /\ history \in [Rows -> [Cells -> Bytes]] /\ AllLines(history)
           /\ historyBASE \in Rows /\ historyIDX \in Rows
           /\ Past = PastOf(history, historyBASE, Visible)
           /\ Back = RowBack(historyBASE, historyIDX)
<1>1. /\ historyIDX \in Rows /\ historyBASE \in Rows /\ historySIZE \in 0 .. NUM_HISTORY_BUFFERS
      /\ history \in [Rows -> [Cells -> Bytes]] /\ AllLines(history)
  BY DEF IInv, TypeOK, HistoryLines, AllLines
<1>2. Back = RowBack(historyBASE, historyIDX) /\ Past = PastOf(history, historyBASE, Visible)
  BY DEF Back, RowBack, Past, PastOf, PastRow
<1>3. Visible \in Rows
  BY <1>1, HistoryAssumption DEF Visible, Rows
<1>4. Back \in Rows
  BY <1>1, <1>2, RowBackValue
<1>5. Back <= Visible
  BY <1>1, RowDistance, HistoryAssumption DEF IInv, RingIndices, Back, Visible, Rows
<1> QED BY <1>1, <1>2, <1>3, <1>4, <1>5

\* The same after a step, from the values of the variables.
LEMMA RingNext ==
    ASSUME NEW h, NEW i, NEW b, NEW z,
           history' = h, historyIDX' = i, historyBASE' = b, historySIZE' = z
    PROVE  /\ Visible' = (IF z < NUM_HISTORY_BUFFERS THEN b ELSE NUM_HISTORY_BUFFERS - 1)
           /\ Back' = RowBack(b, i)
           /\ Draft' = (IF RowBack(b, i) = 0 THEN << >> ELSE Text(h[b]))
           /\ \A v : Visible' = v => Past' = PastOf(h, b, v)
<1>1. Visible' = (IF z < NUM_HISTORY_BUFFERS THEN b ELSE NUM_HISTORY_BUFFERS - 1)
  BY DEF Visible
<1>2. Back' = RowBack(b, i)
  BY DEF Back, RowBack
<1>3. Draft' = (IF RowBack(b, i) = 0 THEN << >> ELSE Text(h[b]))
  BY <1>2 DEF Draft
<1>4. ASSUME NEW v, Visible' = v PROVE Past' = PastOf(h, b, v)
  BY <1>4 DEF Past, PastOf, PastRow, RowBack
<1> QED BY <1>1, <1>2, <1>3, <1>4

\* increment_history_indices appends the line, and drops the oldest of a full ring.
LEMMA RememberedPast ==
    ASSUME NEW g \in [Rows -> [Cells -> Bytes]], AllLines(g),
           NEW h \in [Rows -> [Cells -> Bytes]], AllLines(h),
           NEW i \in Rows, NEW v \in Rows, NEW k \in Rows,
           SameElsewhere(g, h, i),
           k = (i + 1) % NUM_HISTORY_BUFFERS
    PROVE  Extended(Append(PastOf(g, i, v), Text(h[i])), h, k, v)
<1>1. PICK p : p = PastOf(h, i, v)
  OBVIOUS
<1>2. /\ p \in Seq(Seq(Chars)) /\ Len(p) = v
      /\ \A j \in 1 .. v : p[j] = Text(h[RowBack(i, v - j + 1)])
  BY <1>1, PastOfLines
<1>3. p = PastOf(g, i, v)
  BY <1>1, PastOfSame DEF SameElsewhere
<1>4. PICK t : t = Text(h[i])
  OBVIOUS
<1>5. t \in Seq(Chars)
  <2>1. PICK n \in 0 .. MAX_CHARACTERS : IsLine(h[i], n)
    BY DEF AllLines
  <2> QED BY <1>4, <2>1, TextOfLine
<1>6. PICK a : a = Append(p, t)
  OBVIOUS
<1>7. a \in Seq(Seq(Chars)) /\ a # << >> /\ Len(a) = v + 1
  BY <1>2, <1>5, <1>6, AppendProperties
<1>8. v \in Nat /\ NUM_HISTORY_BUFFERS \in Nat \ {0}
  BY HistoryAssumption DEF Rows
<1>9. ASSUME NEW j \in 1 .. v + 1 PROVE a[j] = Text(h[RowBack(i, v + 1 - j)])
  <2>1. CASE j = v + 1
    <3>1. v + 1 - j = 0 /\ 0 \in Rows
      BY <1>8, <2>1 DEF Rows
    <3>2. RowBack(i, v + 1 - j) = i
      BY <3>1, RowBackValue
    <3>3. a[j] = t
      BY <1>2, <1>5, <1>6, <2>1, AppendProperties
    <3> QED BY <1>4, <3>2, <3>3
  <2>2. CASE j \in 1 .. v
    <3>1. a[j] = p[j]
      BY <1>2, <1>5, <1>6, <2>2, AppendProperties
    <3>2. v - j + 1 = v + 1 - j
      BY <1>8
    <3> QED BY <1>2, <2>2, <3>1, <3>2
  <2> QED BY <1>8, <2>1, <2>2
<1>10. ASSUME v < NUM_HISTORY_BUFFERS - 1 PROVE PastOf(h, k, v + 1) = a
  <2>1. PICK w \in Rows : w = v + 1 /\ w \in Nat
    BY <1>8, <1>10 DEF Rows
  <2>2. PICK q : q = PastOf(h, k, w)
    OBVIOUS
  <2>3. /\ q \in Seq(Seq(Chars)) /\ Len(q) = w
        /\ \A j \in 1 .. w : q[j] = Text(h[RowBack(k, w - j + 1)])
    BY <2>2, PastOfLines
  <2>4. ASSUME NEW j \in 1 .. w PROVE q[j] = a[j]
    <3>1. PICK x \in Rows : x = v + 1 - j /\ x + 1 = w - j + 1 /\ x + 1 \in Rows
      BY <1>8, <2>1 DEF Rows
    <3>2. RowBack(k, x + 1) = RowBack(i, x)
      BY <3>1, RowBackNext
    <3>3. a[j] = Text(h[RowBack(i, x)])
      BY <1>9, <2>1, <3>1
    <3> QED BY <2>3, <3>1, <3>2, <3>3
  <2>5. Len(a) = w
    BY <1>7, <2>1
  <2>6. q = a
    BY <1>7, <2>3, <2>4, <2>5, SeqEqual
  <2> QED BY <2>1, <2>2, <2>6
<1>11. ASSUME v = NUM_HISTORY_BUFFERS - 1 PROVE PastOf(h, k, v) = Tail(a)
  <2>1. PICK q : q = PastOf(h, k, v)
    OBVIOUS
  <2>2. /\ q \in Seq(Seq(Chars)) /\ Len(q) = v
        /\ \A j \in 1 .. v : q[j] = Text(h[RowBack(k, v - j + 1)])
    BY <2>1, PastOfLines
  <2>3. PICK e : e = Tail(a)
    OBVIOUS
  <2>4. e \in Seq(Seq(Chars)) /\ Len(e) = v
    <3>1. e \in Seq(Seq(Chars)) /\ Len(e) = Len(a) - 1
      BY <1>7, <2>3, HeadTailProperties
    <3> QED BY <1>7, <1>8, <3>1
  <2>5. ASSUME NEW j \in 1 .. v PROVE q[j] = e[j]
    <3>1. e[j] = a[j + 1]
      BY <1>7, <2>3, <2>4, HeadTailProperties
    <3>2. PICK x \in Rows : x = v + 1 - (j + 1) /\ x + 1 = v - j + 1 /\ x + 1 \in Rows
      BY <1>8 DEF Rows
    <3>3. RowBack(k, x + 1) = RowBack(i, x)
      BY <3>2, RowBackNext
    <3>4. j + 1 \in 1 .. v + 1
      BY <1>8
    <3>5. a[j + 1] = Text(h[RowBack(i, x)])
      BY <1>9, <3>2, <3>4
    <3> QED BY <2>2, <3>1, <3>2, <3>3, <3>5
  <2> QED BY <2>1, <2>2, <2>3, <2>4, <2>5, SeqEqual
<1>12. Extended(a, h, k, v)
  BY <1>10, <1>11 DEF Extended
<1> QED BY <1>3, <1>4, <1>6, <1>12, Zenon

\* A new program starts with an empty line and no past lines.
LEMMA StartProgramRefines ==
    ASSUME MaxPending = 0, IInv, StartProgram
    PROVE  Abstract!StartProgram
<1>1. pending' = << >> /\ clear_keyboard_buffer /\ UNCHANGED readVars
  BY PendingCounts DEF IInv, StartProgram, CanInterrupt, TypeOK
<1>2. PICK h : h = [r \in Rows |-> Blank]
  OBVIOUS
<1>3. history' = h /\ historyIDX' = 0 /\ historyBASE' = 0 /\ historySIZE' = 0
  BY <1>2 DEF StartProgram
<1>4. 0 \in Rows /\ h \in [Rows -> [Cells -> Bytes]] /\ AllLines(h) /\ 0 < NUM_HISTORY_BUFFERS
  <2>1. 0 \in Rows /\ 0 \in 0 .. MAX_CHARACTERS /\ 0 < NUM_HISTORY_BUFFERS
    BY BufferAssumption, HistoryAssumption DEF Rows, MAX_CHARACTERS
  <2> QED BY <1>2, <2>1, BlankText DEF AllLines
<1>5. RowBack(0, 0) = 0
  BY <1>4, RowBackValue
<1>6. Visible' = 0 /\ Back' = 0 /\ Draft' = << >>
  BY <1>3, <1>4, <1>5, RingNext
<1>7. Past' = PastOf(h, 0, 0)
  BY <1>3, <1>6, RingNext
<1>8. PastOf(h, 0, 0) \in Seq(Seq(Chars)) /\ Len(PastOf(h, 0, 0)) = 0
  BY <1>4, PastOfLines
<1>9. Past' = << >>
  BY <1>7, <1>8, EmptySeq
<1> QED BY <1>1, <1>6, <1>9, ClearedText, KeepMail DEF Abstract!StartProgram

\* The copying loop shows the row it is given, with the cursor at its end.
LEMMA LoadedText ==
    ASSUME NEW row \in [Cells -> Bytes], NEW n \in 0 .. MAX_CHARACTERS, IsLine(row, n),
           LoadLine(row), pending' = << >>
    PROVE  Text(buffer)' = Text(row) /\ EndIDX' = Len(Text(row))
<1>1. TextLen(row) = n /\ Len(Text(row)) = n /\ n \in Nat
  BY TextLenOfLine, TextOfLine
<1>2. buffer' = row
  <2>1. buffer' = [i \in Cells |-> IF i < n THEN row[i] ELSE NUL]
    BY <1>1 DEF LoadLine
  <2>2. ASSUME NEW i \in Cells PROVE row[i] = IF i < n THEN row[i] ELSE NUL
    BY BufferAssumption DEF IsLine, Cells, MAX_CHARACTERS
  <2> QED BY <2>1, <2>2
<1>3. bufferIDX' = n - 0 /\ bufferSIZE' = n - 0
  BY <1>1 DEF LoadLine
<1>4. EndIDX' = n
  BY <1>1, <1>3, EndIndices
<1>5. Text(buffer)' = Text(row)
  BY <1>2
<1> QED BY <1>1, <1>4, <1>5

\* down_history shows the next later line, in the end the one that was set aside.
LEMMA DownRefines ==
    ASSUME MaxPending = 0, IInv, down_history
    PROVE  Abstract!Down
<1>1. pending' = << >> /\ UNCHANGED readVars
      /\ UNCHANGED <<history, historyBASE, historySIZE>> /\ historyIDX # historyBASE
  BY PendingCounts DEF IInv, down_history, CanInterrupt, TypeOK
<1>2. PICK v \in Rows, b \in Rows, i \in Rows, d \in Rows :
        v = Visible /\ b = Back /\ i = historyIDX /\ d = historyBASE /\ b <= v
  BY RingNow
<1>3. PICK h \in [Rows -> [Cells -> Bytes]] : h = history /\ AllLines(h)
  BY RingNow
<1>4. PICK r \in Rows : historyIDX' = r /\ r = (i + 1) % NUM_HISTORY_BUFFERS
  BY <1>2, NextRow, HistoryAssumption DEF down_history, Rows
<1>5. b = RowBack(d, i) /\ Past = PastOf(h, d, v)
  BY <1>2, <1>3, RingNow
<1>6. PICK c \in Rows : c = b - 1 /\ b = c + 1 /\ c = RowBack(d, r) /\ r = RowBack(d, c)
  <2>1. PICK c \in Rows : c = RowBack(d, r)
    BY RowBackValue
  <2>2. RowBack(d, i) = RowBack(d, r) + 1 /\ r = RowBack(d, c)
    BY <1>1, <1>2, <1>4, <2>1, RowBackStep, RowBackTwice
  <2>3. b = c + 1
    BY <1>5, <2>1, <2>2
  <2>4. c = b - 1
    BY <2>3, HistoryAssumption DEF Rows
  <2> QED BY <2>1, <2>2, <2>3, <2>4
<1>7. Back' = c /\ Draft' = (IF c = 0 THEN << >> ELSE Text(h[d]))
  <2>1. PICK z : z = historySIZE
    OBVIOUS
  <2>2. history' = h /\ historyIDX' = r /\ historyBASE' = d /\ historySIZE' = z
    BY <1>1, <1>2, <1>3, <1>4, <2>1
  <2> QED BY <1>6, <2>2, RingNext
<1>8. Draft = Text(h[d]) /\ Past' = Past
  <2>1. Back # 0
    BY <1>2, <1>6 DEF Rows
  <2> QED BY <1>1, <1>2, <1>3, <2>1 DEF Draft, Past, Visible, PastRow
<1>9. Text(buffer)' = Text(h[r]) /\ EndIDX' = Len(Text(h[r]))
  <2>1. PICK n \in 0 .. MAX_CHARACTERS : IsLine(h[r], n)
    BY <1>3 DEF AllLines
  <2>2. LoadLine(h[r])
    BY <1>3, <1>4 DEF down_history
  <2> QED BY <1>1, <2>1, <2>2, LoadedText
<1>10. Text(h[r]) = IF c = 0 THEN Draft ELSE Past[Len(Past) - c + 1]
  <2>1. CASE c = 0
    <3>1. r = d
      BY <1>6, <2>1, RowBackValue
    <3> QED BY <1>8, <2>1, <3>1
  <2>2. CASE c # 0
    <3>1. Len(Past) = v /\ \A j \in 1 .. v : Past[j] = Text(h[RowBack(d, v - j + 1)])
      BY <1>3, <1>5, PastOfLines
    <3>2. PICK j \in 1 .. v : j = v - c + 1 /\ v - j + 1 = c
      BY <1>2, <1>6, <2>2, HistoryAssumption DEF Rows
    <3>3. Past[j] = Text(h[r])
      BY <1>6, <3>1, <3>2
    <3> QED BY <2>2, <3>1, <3>2, <3>3
  <2> QED BY <2>1, <2>2
<1>11. Len(Past) = v
  BY <1>3, <1>5, PastOfLines
<1>12. Back > 0 /\ Back - 1 = c /\ c \in 0 .. Len(Past)
  BY <1>2, <1>6, <1>11, HistoryAssumption DEF Rows
<1>13. Abstract!Recall(c)
  <2>1. Back # 0 /\ EndIDX' = Len(Text(buffer)') /\ UNCHANGED <<Past, nbytes # 0, Mail>>
    BY <1>1, <1>8, <1>9, <1>12, KeepMail
  <2>2. Text(buffer)' = IF c = 0 THEN Draft ELSE Past[Len(Past) - c + 1]
    BY <1>9, <1>10
  <2>3. Draft' = IF c = 0 THEN << >> ELSE IF Back = 0 THEN Text(buffer) ELSE Draft
    BY <1>7, <1>8, <2>1
  <2> QED BY <1>7, <1>12, <2>1, <2>2, <2>3 DEF Abstract!Recall
<1> QED BY <1>12, <1>13 DEF Abstract!Down

\* up_history shows the next older line; the line under edit is set aside by the first.
\* With a full ring it stops at the row that takes the line under edit.
LEMMA UpRefines ==
    ASSUME MaxPending = 0, IInv, up_history
    PROVE  Abstract!Up \/ UNCHANGED Abstract!vars
<1>1. pending = << >> /\ pending' = << >> /\ UNCHANGED readVars
      /\ UNCHANGED <<historyBASE, historySIZE>>
      /\ ~(historySIZE < NUM_HISTORY_BUFFERS /\ historyIDX = 0)
  BY PendingCounts DEF IInv, up_history, NoHistory, CanInterrupt, TypeOK
<1>2. PICK v \in Rows, b \in Rows, i \in Rows, d \in Rows :
        v = Visible /\ b = Back /\ i = historyIDX /\ d = historyBASE /\ b <= v
  BY RingNow
<1>3. PICK g \in [Rows -> [Cells -> Bytes]] : g = history /\ AllLines(g)
  BY RingNow
<1>4. PICK h : h = (IF i = d THEN copy_to_history ELSE g)
  OBVIOUS
<1>5. /\ h \in [Rows -> [Cells -> Bytes]] /\ AllLines(h) /\ history' = h
      /\ \A x \in Rows : x # d => h[x] = g[x]
      /\ i = d => h[d] = buffer
      /\ i # d => h = g
  <2>1. history' = h
    BY <1>2, <1>3, <1>4 DEF up_history
  <2>2. CASE i = d
    BY <1>1, <1>2, <1>3, <1>4, <2>1, <2>2, CopiedLine DEF IInv, AllLines
  <2>3. CASE i # d
    BY <1>2, <1>3, <1>4, <2>1, <2>3
  <2> QED BY <2>2, <2>3
<1>6. b = RowBack(d, i) /\ Past = PastOf(g, d, v)
  BY <1>2, <1>3, RingNow
<1>7. b = 0 <=> i = d
  <2>1. b = IF d >= i THEN d - i ELSE d - i + NUM_HISTORY_BUFFERS
    BY <1>6, RowBackValue
  <2> QED BY <2>1, HistoryAssumption DEF Rows
<1>8. Visible' = v /\ Past' = Past
  <2>1. Visible' = v
    BY <1>1, <1>2 DEF Visible
  <2>2. Past' = PastOf(h, d, v)
    <3>1. PICK z, k : z = historySIZE' /\ k = historyIDX'
      OBVIOUS
    <3> QED BY <1>1, <1>2, <1>5, <2>1, <3>1, RingNext
  <2> QED BY <1>5, <1>6, <2>1, <2>2, PastOfSame
<1>9. CASE Previous(historyIDX) = historyBASE
  <2>1. UNCHANGED <<bufVars, historyIDX>>
    BY <1>9 DEF up_history
  <2>2. Back' = Back
    BY <1>1, <2>1 DEF Back
  <2>3. Draft' = Draft
    <3>1. CASE i = d
      BY <1>2, <1>7, <2>2, <3>1 DEF Draft
    <3>2. CASE i # d
      BY <1>1, <1>3, <1>5, <2>2, <3>2 DEF Draft
    <3> QED BY <3>1, <3>2
  <2>4. Text(buffer)' = Text(buffer) /\ EndIDX' = EndIDX
    BY <1>1, <2>1 DEF bufVars, EndIDX, Ahead, Behind
  <2> QED BY <1>1, <1>8, <2>2, <2>3, <2>4, KeepMail DEF Abstract!vars
<1>10. CASE Previous(historyIDX) # historyBASE
  <2>1. PICK r \in Rows : r = Previous(i) /\ r # d /\ historyIDX' = r /\ LoadLine(h[r])
    <3>1. Previous(i) \in Rows
      BY HistoryAssumption DEF Previous, Rows
    <3> QED BY <1>2, <1>5, <1>10, <3>1 DEF up_history
  <2>2. i = (r + 1) % NUM_HISTORY_BUFFERS
    BY <2>1, NextRow, HistoryAssumption DEF Previous, Rows
  <2>3. PICK c \in Rows : c = RowBack(d, r) /\ c = b + 1 /\ r = RowBack(d, c)
    <3>1. PICK c \in Rows : c = RowBack(d, r)
      BY RowBackValue
    <3>2. RowBack(d, r) = RowBack(d, i) + 1
      BY <2>1, <2>2, RowBackStep
    <3>3. r = RowBack(d, c)
      BY <3>1, RowBackTwice
    <3> QED BY <1>6, <3>1, <3>2, <3>3
  <2>4. Back' = c /\ Draft' = Text(h[d]) /\ c # 0
    <3>1. PICK z : z = historySIZE
      OBVIOUS
    <3>2. history' = h /\ historyIDX' = r /\ historyBASE' = d /\ historySIZE' = z
      BY <1>1, <1>2, <1>5, <2>1, <3>1
    <3>3. c # 0
      BY <2>3, HistoryAssumption DEF Rows
    <3>4. Back' = RowBack(d, r) /\ Draft' = (IF RowBack(d, r) = 0 THEN << >> ELSE Text(h[d]))
      BY <3>2, RingNext
    <3> QED BY <2>3, <3>3, <3>4
  <2>5. Draft' = IF Back = 0 THEN Text(buffer) ELSE Draft
    <3>1. CASE i = d
      BY <1>2, <1>5, <1>7, <2>4, <3>1
    <3>2. CASE i # d
      <4>1. Draft = Text(g[d]) /\ Back # 0
        BY <1>2, <1>3, <1>7, <3>2 DEF Draft
      <4> QED BY <1>5, <2>4, <3>2, <4>1
    <3> QED BY <3>1, <3>2
  <2>6. c <= v
    <3>1. RowBack(d, r) = IF d >= r THEN d - r ELSE d - r + NUM_HISTORY_BUFFERS
      BY RowBackValue
    <3>2. historySIZE \in 0 .. NUM_HISTORY_BUFFERS
      BY DEF IInv, TypeOK
    <3>3. CASE historySIZE < NUM_HISTORY_BUFFERS
      <4>1. v = d /\ i <= d /\ i # 0
        BY <1>1, <1>2, <3>3 DEF IInv, RingIndices, Visible
      <4>2. r = i - 1
        BY <2>1, <4>1 DEF Previous
      <4>3. r <= d /\ d - r <= d
        BY <4>1, <4>2, HistoryAssumption DEF Rows
      <4>4. RowBack(d, r) = d - r
        BY <3>1, <4>3, HistoryAssumption DEF Rows
      <4> QED BY <2>3, <4>1, <4>3, <4>4
    <3>4. CASE historySIZE = NUM_HISTORY_BUFFERS
      <4>1. v = NUM_HISTORY_BUFFERS - 1
        BY <1>2, <3>4, HistoryAssumption DEF Visible
      <4> QED BY <4>1, HistoryAssumption DEF Rows
    <3> QED BY <3>2, <3>3, <3>4, HistoryAssumption
  <2>7. Len(Past) = v /\ \A j \in 1 .. v : Past[j] = Text(g[RowBack(d, v - j + 1)])
    BY <1>3, <1>6, PastOfLines
  <2>8. Text(h[r]) = Past[Len(Past) - c + 1]
    <3>1. PICK j \in 1 .. v : j = v - c + 1 /\ v - j + 1 = c
      BY <2>4, <2>6, HistoryAssumption DEF Rows
    <3>2. Past[j] = Text(g[r])
      BY <2>3, <2>7, <3>1
    <3>3. h[r] = g[r]
      BY <1>5, <2>1
    <3> QED BY <2>7, <3>1, <3>2, <3>3
  <2>9. Text(buffer)' = Text(h[r]) /\ EndIDX' = Len(Text(h[r]))
    <3>1. PICK n \in 0 .. MAX_CHARACTERS : IsLine(h[r], n)
      BY <1>5 DEF AllLines
    <3> QED BY <1>1, <1>5, <2>1, <3>1, LoadedText
  <2>10. c = Back + 1 /\ c \in 0 .. Len(Past)
    BY <1>2, <2>3, <2>6, <2>7, HistoryAssumption DEF Rows
  <2>11. Abstract!Recall(c)
    <3>1. EndIDX' = Len(Text(buffer)') /\ UNCHANGED <<Past, nbytes # 0, Mail>>
      BY <1>1, <1>8, <2>9, KeepMail
    <3>2. Text(buffer)' = IF c = 0 THEN Draft ELSE Past[Len(Past) - c + 1]
      BY <2>4, <2>8, <2>9
    <3>3. Draft' = IF c = 0 THEN << >> ELSE IF Back = 0 THEN Text(buffer) ELSE Draft
      BY <2>4, <2>5
    <3> QED BY <2>4, <2>10, <3>1, <3>2, <3>3 DEF Abstract!Recall
  <2> QED BY <2>10, <2>11 DEF Abstract!Up
<1> QED BY <1>9, <1>10

\* The return key on a line that is not empty: it becomes the latest past line.
LEMMA EnterRemembers ==
    ASSUME IInv, pending = << >>, buffer[0] # NUL, Remember
    PROVE  /\ Back' = 0 /\ Draft' = << >>
           /\ Past' = IF Len(Append(Past, Text(buffer))) > NUM_HISTORY_BUFFERS - 1
                      THEN Tail(Append(Past, Text(buffer))) ELSE Append(Past, Text(buffer))
<1>1. PICK v \in Rows, d \in Rows : v = Visible /\ d = historyBASE
  BY RingNow
<1>2. PICK g \in [Rows -> [Cells -> Bytes]] : g = history /\ AllLines(g)
  BY RingNow
<1>3. PICK h \in [Rows -> [Cells -> Bytes]] : h = copy_to_history
  BY CopiedLine DEF IInv
<1>4. AllLines(h) /\ h[d] = buffer /\ \A r \in Rows : r # d => h[r] = g[r]
  BY <1>1, <1>2, <1>3, CopiedLine DEF IInv, AllLines
<1>5. PICK k \in Rows : k = (d + 1) % NUM_HISTORY_BUFFERS
  BY NextRow, HistoryAssumption DEF Rows
<1>6. PICK z : z = IF historySIZE < NUM_HISTORY_BUFFERS THEN historySIZE + 1 ELSE historySIZE
  OBVIOUS
<1>7. history' = h /\ historyIDX' = k /\ historyBASE' = k /\ historySIZE' = z
  BY <1>1, <1>3, <1>5, <1>6 DEF Remember
<1>8. RowBack(k, k) = 0
  BY RowBackValue, HistoryAssumption DEF Rows
<1>9. Back' = 0 /\ Draft' = << >>
  BY <1>7, <1>8, RingNext
<1>10. PICK p : p = Past
  OBVIOUS
<1>11. p = PastOf(g, d, v) /\ p \in Seq(Seq(Chars)) /\ Len(p) = v
  <2>1. p = PastOf(g, d, v)
    BY <1>1, <1>2, <1>10, RingNow
  <2> QED BY <1>2, <2>1, PastOfLines
<1>12. PICK t \in Seq(Chars) : t = Text(buffer)
  BY QuietText
<1>13. PICK a : a = Append(p, t)
  OBVIOUS
<1>14. Len(a) = v + 1
  BY <1>11, <1>13, AppendProperties
<1>15. /\ v < NUM_HISTORY_BUFFERS - 1 => PastOf(h, k, v + 1) = a
       /\ v = NUM_HISTORY_BUFFERS - 1 => PastOf(h, k, v) = Tail(a)
  <2>1. a = Append(PastOf(g, d, v), Text(h[d]))
    BY <1>4, <1>11, <1>12, <1>13
  <2>2. AllLines(g) /\ AllLines(h) /\ SameElsewhere(g, h, d)
    BY <1>2, <1>4 DEF SameElsewhere
  <2>3. k = (d + 1) % NUM_HISTORY_BUFFERS
    BY <1>5
  <2>4. Extended(Append(PastOf(g, d, v), Text(h[d])), h, k, v)
    BY <2>2, <2>3, RememberedPast
  <2>5. Extended(a, h, k, v)
    BY <2>1, <2>4, Zenon
  <2> QED BY <2>5 DEF Extended
<1>16. Visible' = (IF z < NUM_HISTORY_BUFFERS THEN k ELSE NUM_HISTORY_BUFFERS - 1)
  BY <1>7, RingNext
<1>17. Visible' = IF v < NUM_HISTORY_BUFFERS - 1 THEN v + 1 ELSE v
  <2>1. historySIZE \in 0 .. NUM_HISTORY_BUFFERS
    BY DEF IInv, TypeOK
  <2>2. CASE historySIZE < NUM_HISTORY_BUFFERS
    <3>1. v = historySIZE /\ v = d /\ z = v + 1
      BY <1>1, <1>6, <2>2 DEF IInv, RingIndices, Visible
    <3>2. k = IF d = NUM_HISTORY_BUFFERS - 1 THEN 0 ELSE d + 1
      BY <1>5, NextRow
    <3> QED BY <1>16, <3>1, <3>2, HistoryAssumption DEF Rows
  <2>3. CASE historySIZE = NUM_HISTORY_BUFFERS
    <3>1. z = NUM_HISTORY_BUFFERS /\ v = NUM_HISTORY_BUFFERS - 1
      BY <1>1, <1>6, <2>3, HistoryAssumption DEF Visible
    <3> QED BY <1>16, <3>1, HistoryAssumption
  <2> QED BY <2>1, <2>2, <2>3, HistoryAssumption
<1>18. Past' = IF Len(a) > NUM_HISTORY_BUFFERS - 1 THEN Tail(a) ELSE a
  <2>1. CASE v < NUM_HISTORY_BUFFERS - 1
    <3>1. Past' = PastOf(h, k, v + 1)
      BY <1>7, <1>17, <2>1, RingNext
    <3>2. ~(Len(a) > NUM_HISTORY_BUFFERS - 1)
      BY <1>14, <2>1, HistoryAssumption DEF Rows
    <3> QED BY <1>15, <2>1, <3>1, <3>2
  <2>2. CASE v = NUM_HISTORY_BUFFERS - 1
    <3>1. ~(v < NUM_HISTORY_BUFFERS - 1) /\ Len(a) > NUM_HISTORY_BUFFERS - 1
      BY <1>14, <2>2, HistoryAssumption
    <3>2. Past' = PastOf(h, k, v)
      BY <1>7, <1>17, <3>1, RingNext
    <3> QED BY <1>15, <2>2, <3>1, <3>2
  <2> QED BY <2>1, <2>2, HistoryAssumption DEF Rows
<1> QED BY <1>9, <1>10, <1>12, <1>13, <1>18, Zenon

\* The return key releases a waiting reader with the line.
LEMMA EnterDelivers ==
    ASSUME IInv, pending = << >>, EnterKey
    PROVE  Mail' = IF nbytes # 0 /\ Mail = {} THEN {Text(buffer)} ELSE Mail
<1>1. nbytes' = nbytes /\ return_switch \in BOOLEAN
  BY DEF EnterKey, IInv, TypeOK
<1>2. CASE ~return_switch
  <2>1. UNCHANGED <<read_buffer, return_switch>>
    BY <1>2 DEF EnterKey
  <2>2. Mail' = Mail
    BY <1>1, <2>1 DEF Mail
  <2>3. ~(nbytes # 0 /\ Mail = {})
    BY <1>2 DEF Mail
  <2> QED BY <2>2, <2>3
<1>3. CASE return_switch
  <2>1. PICK n \in 0 .. MAX_CHARACTERS : n = bufferSIZE
    BY QuietText
  <2>2. buffer \in [Cells -> Bytes] /\ IsLine(buffer, n) /\ read_buffer \in [Cells -> Bytes]
    BY <2>1, QuietText DEF IInv, TypeOK
  <2>3. PICK line : line = [buffer EXCEPT ![n] = NL]
    OBVIOUS
  <2>4. /\ line \in [Cells -> Bytes] /\ n \in Cells
        /\ line[n] = NL /\ \A i \in 0 .. n - 1 : i \in Cells /\ line[i] = buffer[i] /\ line[i] \in Chars
    BY <2>2, <2>3, BufferAssumption DEF Cells, Bytes, IsLine, MAX_CHARACTERS
  <2>5. TextLen(line) = n
    BY <2>4, TextLenValue
  <2>6. PICK rb : rb = [i \in Cells |-> IF i <= n THEN line[i] ELSE read_buffer[i]]
    OBVIOUS
  <2>7. read_buffer' = rb /\ return_switch' = FALSE
    <3>1. read_buffer' = keyboard_read(line, read_buffer) /\ return_switch' = FALSE
      BY <1>3, <2>1, <2>3 DEF EnterKey
    <3> QED BY <2>5, <2>6, <3>1 DEF keyboard_read
  <2>8. /\ rb \in [Cells -> Bytes] /\ rb[n] = NL
        /\ \A i \in 0 .. n - 1 : rb[i] = buffer[i] /\ rb[i] \in Chars
    BY <2>2, <2>4, <2>6, BufferAssumption DEF Cells, MAX_CHARACTERS
  <2>9. TextLen(rb) = n /\ TextLen(buffer) = n
    BY <2>2, <2>8, TextLenValue, TextLenOfLine
  <2>10. Text(rb) = Text(buffer)
    <3>1. Text(rb) = [i \in 1 .. n |-> rb[i - 1]] /\ Text(buffer) = [i \in 1 .. n |-> buffer[i - 1]]
      BY <2>9 DEF Text
    <3>2. \A i \in 1 .. n : rb[i - 1] = buffer[i - 1]
      BY <2>8
    <3> QED BY <3>1, <3>2
  <2>11. Mail = {}
    BY <1>3 DEF Mail
  <2>12. Mail' = IF nbytes # 0 THEN {Text(rb)} ELSE {}
    BY <1>1, <2>7 DEF Mail
  <2> QED BY <2>10, <2>11, <2>12
<1> QED BY <1>1, <1>2, <1>3

\* The return key.
LEMMA EnterRefines ==
    ASSUME MaxPending = 0, IInv, EnterKey
    PROVE  Abstract!Enter
<1>1. pending = << >> /\ pending' = << >> /\ clear_keyboard_buffer /\ nbytes' = nbytes
  BY PendingCounts DEF IInv, EnterKey, CanInterrupt, TypeOK
<1>2. Text(buffer)' = << >> /\ EndIDX' = 0
  BY <1>1, ClearedText
<1>3. Text(buffer) = << >> <=> buffer[0] = NUL
  <2>1. PICK n \in 0 .. MAX_CHARACTERS : n = bufferSIZE
    BY <1>1, QuietText
  <2>2. IsLine(buffer, n) /\ Text(buffer) \in Seq(Chars) /\ Len(Text(buffer)) = n
    BY <1>1, <2>1, QuietText
  <2>3. Text(buffer) = << >> <=> n = 0
    BY <2>2, EmptySeq
  <2>4. buffer[0] = NUL <=> n = 0
    BY <2>2, CharsAssumption, BufferAssumption DEF IsLine, Cells, MAX_CHARACTERS
  <2> QED BY <2>3, <2>4
<1>4. Mail' = IF nbytes # 0 /\ Mail = {} THEN {Text(buffer)} ELSE Mail
  BY <1>1, EnterDelivers
<1>5. (nbytes # 0)' = (nbytes # 0)
  BY <1>1
<1>6. CASE buffer[0] = NUL
  <2>1. UNCHANGED histVars
    BY <1>6 DEF EnterKey
  <2>2. UNCHANGED <<Past, Back, Draft>>
    BY <2>1, KeepPast
  <2> QED BY <1>2, <1>3, <1>4, <1>5, <1>6, <2>2 DEF Abstract!Enter, Abstract!NoMail
<1>7. CASE buffer[0] # NUL
  <2>1. Remember
    BY <1>7 DEF EnterKey
  <2>2. /\ Back' = 0 /\ Draft' = << >>
        /\ Past' = IF Len(Append(Past, Text(buffer))) > NUM_HISTORY_BUFFERS - 1
                   THEN Tail(Append(Past, Text(buffer))) ELSE Append(Past, Text(buffer))
    BY <1>1, <1>7, <2>1, EnterRemembers
  <2> QED BY <1>2, <1>3, <1>4, <1>5, <1>7, <2>2 DEF Abstract!Enter, Abstract!NoMail
<1> QED BY <1>6, <1>7

\* At boot the terminal shows an empty line and no past lines.
LEMMA InitRefines == Init => Abstract!Init
<1> SUFFICES ASSUME Init PROVE Abstract!Init
  OBVIOUS
<1>1. IInv /\ pending = << >>
  BY InitEstablishes DEF Init
<1>2. Text(buffer) = << >> /\ EndIDX = 0
  <2>1. buffer = Blank /\ bufferIDX = 0
    BY DEF Init
  <2> QED BY <1>1, <2>1, BlankText, QuietText
<1>3. 0 \in Rows /\ 0 < NUM_HISTORY_BUFFERS
  BY HistoryAssumption DEF Rows
<1>4. Visible = 0
  BY <1>3 DEF Init, Visible
<1>5. Back = 0
  <2>1. historyBASE = 0 /\ historyIDX = 0
    BY DEF Init
  <2>2. RowBack(0, 0) = 0
    BY <1>3, RowBackValue
  <2> QED BY <1>1, <2>1, <2>2, RingNow
<1>6. Past = << >>
  <2>1. PICK h \in [Rows -> [Cells -> Bytes]], d \in Rows, v \in Rows :
          h = history /\ d = historyBASE /\ v = Visible /\ AllLines(h) /\ Past = PastOf(h, d, v)
    BY <1>1, RingNow
  <2>2. Past \in Seq(Seq(Chars)) /\ Len(Past) = 0
    BY <1>4, <2>1, PastOfLines
  <2> QED BY <2>2, EmptySeq
<1>7. Draft = << >> /\ Mail = {} /\ (nbytes # 0) = FALSE
  BY <1>5 DEF Draft, Mail, Init
<1> QED BY <1>2, <1>5, <1>6, <1>7 DEF Abstract!Init, Abstract!NoMail

\* Every step of the editor is one of EditLine, or nothing that the user or the reader
\* sees.
LEMMA StepRefines ==
    ASSUME MaxPending = 0, IInv, [Next]_vars
    PROVE  Abstract!Next \/ UNCHANGED Abstract!vars
<1>1. CASE \E c \in Chars : InsertBegin(c)
  BY <1>1, InsertRefines DEF Abstract!Next
<1>2. CASE BackspaceBegin
  BY <1>2, BackspaceRefines DEF Abstract!Next
<1>3. CASE HandlerEnd
  BY <1>3, HandlerEndRefines
<1>4. CASE keyboard_left_arrow \/ keyboard_right_arrow
  BY <1>4, ArrowsRefine DEF Abstract!Next
<1>5. CASE ClearKey
  BY <1>5, ClearRefines DEF Abstract!Next
<1>6. CASE StartProgram
  BY <1>6, StartProgramRefines DEF Abstract!Next
<1>7. CASE up_history
  BY <1>7, UpRefines DEF Abstract!Next
<1>8. CASE down_history
  BY <1>8, DownRefines DEF Abstract!Next
<1>9. CASE EnterKey
  BY <1>9, EnterRefines DEF Abstract!Next
<1>10. CASE \E n \in ReadSizes : ReadBegin(n)
  BY <1>10, ReadBeginRefines DEF Abstract!Next
<1>11. CASE ReadEnd
  BY <1>11, ReadEndRefines DEF Abstract!Next
<1>12. CASE UNCHANGED vars
  <2>1. UNCHANGED <<bufVars, pending>> /\ UNCHANGED histVars /\ UNCHANGED readVars
    BY <1>12 DEF vars
  <2>2. Text(buffer)' = Text(buffer) /\ EndIDX' = EndIDX
    BY <2>1 DEF bufVars, EndIDX, Ahead, Behind
  <2> QED BY <2>1, <2>2, KeepPast, KeepMail DEF Abstract!vars
<1> QED BY <1>1, <1>2, <1>3, <1>4, <1>5, <1>6, <1>7, <1>8, <1>9, <1>10, <1>11, <1>12 DEF Next

\* keyboard.c and terminal_read implement EditLine: insertion and deletion at the cursor,
\* recall of past lines, and delivery of the line of the releasing return key, for every
\* alphabet, buffer size and number of history rows.
THEOREM RefinementCorrect ==
    ASSUME MaxPending = 0
    PROVE  Spec => ImplementsEditLine
<1>1. IInv /\ [Next]_vars => [Abstract!Next]_(Abstract!vars)
  BY StepRefines
<1> QED BY <1>1, InitRefines, Invariance, PTL DEF Spec, ImplementsEditLine, Abstract!Spec

-----------------------------------------------------------------------------
(* Induction over the steps of a loop.                                     *)

\* A set of naturals that is not empty has a least element.
LEMMA LeastElement ==
    ASSUME NEW T, T \subseteq Nat, T # {}
    PROVE  \E m \in T : \A k \in T : m <= k
<1> DEFINE R == OpToRel(<, Nat)
<1>1. IsWellFoundedOn(R, Nat)
  BY NatLessThanWellFounded
<1>2. PICK m \in T : \A k \in T : ~(<<k, m>> \in R)
  <2> HIDE DEF R
  <2> QED BY <1>1, WFMin
<1>3. \A k \in T : <<k, m>> \in R <=> k < m
  BY DEF OpToRel
<1> HIDE DEF R
<1>4. \A k \in T : ~(k < m)
  BY <1>2, <1>3
<1> QED BY <1>2, <1>4

\* Induction up to n, the property given by the set S of the numbers that have it.
LEMMA LoopInduction ==
    ASSUME NEW S, NEW n \in Nat, 0 \in S,
           \A m \in 0 .. n - 1 : m \in S => m + 1 \in S
    PROVE  \A m \in 0 .. n : m \in S
<1>1. SUFFICES ASSUME NEW bad \in 0 .. n, bad \notin S PROVE FALSE
  OBVIOUS
<1> DEFINE T == {k \in 0 .. n : k \notin S}
<1>2. PICK m \in T : \A k \in T : m <= k
  <2>1. T \subseteq Nat /\ T # {}
    BY <1>1
  <2> QED BY <2>1, LeastElement
<1>3. m # 0
  BY <1>2
<1>4. m - 1 \in 0 .. n - 1 /\ m - 1 \notin T
  BY <1>2, <1>3
<1> QED BY <1>2, <1>4

\* g lists the states of a loop of N iterations over S from s, F[n] being the n-th one.
IsRun(g, S, s, N, F) == /\ g \in [0 .. N -> S]
                        /\ g[0] = s
                        /\ \A n \in 1 .. N : g[n] = F[n][g[n - 1]]

\* There is one: the recursive functions that model loops are what their equations say.
LEMMA LoopRuns ==
    ASSUME NEW S, NEW s \in S, NEW N \in Nat, NEW F \in [1 .. N -> [S -> S]]
    PROVE  \E g : IsRun(g, S, s, N, F)
<1> DEFINE Run(g, n) == g[0] = s /\ \A k \in 1 .. n : g[k] = F[k][g[k - 1]]
           Good == {n \in 0 .. N : \E g \in [0 .. n -> S] : Run(g, n)}
<1>1. 0 \in Good
  <2>1. [k \in 0 .. 0 |-> s] \in [0 .. 0 -> S] /\ Run([k \in 0 .. 0 |-> s], 0)
    OBVIOUS
  <2> HIDE DEF Run
  <2> QED BY <2>1
<1>2. ASSUME NEW m \in 0 .. N - 1, m \in Good PROVE m + 1 \in Good
  <2>1. PICK g \in [0 .. m -> S] : Run(g, m)
    BY <1>2
  <2> DEFINE h == [k \in 0 .. m + 1 |-> IF k <= m THEN g[k] ELSE F[m + 1][g[m]]]
  <2>2. F[m + 1] \in [S -> S] /\ g[m] \in S
    OBVIOUS
  <2>3. h \in [0 .. m + 1 -> S]
    BY <2>2
  <2>4. h[0] = s
    BY <2>1
  <2>5. ASSUME NEW k \in 1 .. m + 1 PROVE h[k] = F[k][h[k - 1]]
    <3>1. CASE k <= m
      <4>1. g[k] = F[k][g[k - 1]]
        BY <2>1, <3>1
      <4> QED BY <3>1, <4>1
    <3>2. CASE k = m + 1
      BY <3>2
    <3> QED BY <3>1, <3>2
  <2> HIDE DEF h
  <2>6. Run(h, m + 1)
    BY <2>4, <2>5
  <2> HIDE DEF Run
  <2>7. \E f \in [0 .. m + 1 -> S] : Run(f, m + 1)
    BY <2>3, <2>6
  <2>8. m + 1 \in 0 .. N
    OBVIOUS
  <2> QED BY <2>7, <2>8
<1>3. N \in Good
  <2>1. \A m \in 0 .. N - 1 : m \in Good => m + 1 \in Good
    BY <1>2
  <2> HIDE DEF Good
  <2>2. \A m \in 0 .. N : m \in Good
    BY <1>1, <2>1, LoopInduction
  <2> QED BY <2>2
<1> QED BY <1>3 DEF IsRun

-----------------------------------------------------------------------------
(* The screen, one character at a time.                                    *)

\* What a cell can hold, the states of the screen, and columns counted across rows.
Ink == (Bytes \cup Output \cup {SPACE}) \ {RETURN}
Screens == [cells : [Places -> Ink], x : Int, y : 0 .. NUM_ROWS - 1, vga : Int]
Congruent(a, b) == \E k \in Int : a = b + k * NUM_COLS

\* No line end among them but '\n'.
LEMMA InkValue == SPACE \in Ink /\ Bytes \subseteq Ink /\ RETURN \notin Bytes
BY BlankAssumption, NewlineAssumption, ReturnAssumption DEF Ink, Bytes

\* The % of C by the width of the screen.
LEMMA RemValue ==
    ASSUME NEW a \in Int
    PROVE  /\ Rem(a, NUM_COLS) \in Int
           /\ -NUM_COLS < Rem(a, NUM_COLS) /\ Rem(a, NUM_COLS) < NUM_COLS
           /\ -NUM_COLS <= a /\ a < NUM_COLS /\ a # -NUM_COLS => Rem(a, NUM_COLS) = a
           /\ a = NUM_COLS \/ a = -NUM_COLS => Rem(a, NUM_COLS) = 0
           /\ a < NUM_COLS => Rem(a, NUM_COLS) >= a
           /\ Congruent(Rem(a, NUM_COLS), a)
<1>1. NUM_COLS \in Nat \ {0}
  BY ScreenAssumption
<1>2. CASE a >= 0
  <2>1. Rem(a, NUM_COLS) = a % NUM_COLS
    BY <1>2 DEF Rem
  <2>2. a % NUM_COLS = a - NUM_COLS * (a \div NUM_COLS) /\ a \div NUM_COLS \in Int
    BY <1>1
  <2>3. Congruent(Rem(a, NUM_COLS), a)
    <3>1. Rem(a, NUM_COLS) = a + (-(a \div NUM_COLS)) * NUM_COLS
      BY <1>1, <2>1, <2>2
    <3> QED BY <2>2, <3>1 DEF Congruent
  <2> QED BY <1>1, <1>2, <2>1, <2>3
<1>3. CASE a < 0
  <2>1. Rem(a, NUM_COLS) = -((-a) % NUM_COLS)
    BY <1>3 DEF Rem
  <2>2. (-a) % NUM_COLS = (-a) - NUM_COLS * ((-a) \div NUM_COLS) /\ (-a) \div NUM_COLS \in Int
    BY <1>1
  <2>3. Congruent(Rem(a, NUM_COLS), a)
    <3>1. Rem(a, NUM_COLS) = a + ((-a) \div NUM_COLS) * NUM_COLS
      BY <1>1, <2>1, <2>2
    <3> QED BY <2>2, <3>1 DEF Congruent
  <2> QED BY <1>1, <1>3, <2>1, <2>3
<1> QED BY <1>2, <1>3

\* Columns of the same place.
LEMMA CongruentTrans ==
    ASSUME NEW a \in Int, NEW b \in Int, NEW c \in Int, Congruent(a, b), Congruent(b, c)
    PROVE  Congruent(a, c)
<1>1. PICK k \in Int : a = b + k * NUM_COLS
  BY DEF Congruent
<1>2. PICK j \in Int : b = c + j * NUM_COLS
  BY DEF Congruent
<1>3. a = c + (k + j) * NUM_COLS
  BY <1>1, <1>2, ScreenAssumption
<1> QED BY <1>3 DEF Congruent

\* The remainder gives the column.
LEMMA CongruentMod ==
    ASSUME NEW a \in Int, NEW r \in 0 .. NUM_COLS - 1, Congruent(a, r)
    PROVE  a % NUM_COLS = r
BY ScreenAssumption DEF Congruent

\* The row part of a position.
LEMMA PosValue ==
    ASSUME NEW s \in Screens
    PROVE  /\ Pos(s) \in Int
           /\ Pos(s) = NUM_COLS * s.y + s.x
           /\ NUM_COLS * s.y >= 0
           /\ NUM_COLS * s.y + NUM_COLS <= NUM_ROWS * NUM_COLS
           /\ NUM_COLS * (s.y + 1) = NUM_COLS * s.y + NUM_COLS
BY ScreenAssumption DEF Pos, Screens

\* A store changes at most one cell.
LEMMA StoreValue ==
    ASSUME NEW s \in Screens, NEW p \in Int, NEW c \in Ink
    PROVE  /\ Store(s, p, c) \in [Places -> Ink]
           /\ \A q \in Places : Store(s, p, c)[q] = IF q = p THEN c ELSE s.cells[q]
BY DEF Store, Screens

\* putc stores and steps within the row.
LEMMA PutcValue ==
    ASSUME NEW s \in Screens, NEW c \in Ink, c # NEWLINE
    PROVE  /\ putc(s, c) \in Screens
           /\ putc(s, c).cells = Store(s, Pos(s), c)
           /\ putc(s, c).x = Rem(s.x + 1, NUM_COLS)
           /\ putc(s, c).y = s.y
<1>1. Rem(s.y, NUM_ROWS) = s.y
  BY ScreenAssumption DEF Rem, Screens
<1>2. Rem(s.x + 1, NUM_COLS) \in Int
  BY RemValue DEF Screens
<1>3. Store(s, Pos(s), c) \in [Places -> Ink]
  BY StoreValue, PosValue
<1>4. c \notin {NEWLINE, RETURN}
  BY DEF Ink
<1>5. PICK u : u = putc(s, c)
  OBVIOUS
<1>6. u = [cells |-> Store(s, Pos(s), c), x |-> Rem(s.x + 1, NUM_COLS), y |-> s.y, vga |-> s.vga]
  BY <1>1, <1>4, <1>5 DEF putc, Screens
<1> QED BY <1>2, <1>3, <1>5, <1>6 DEF Screens

\* next_line goes to the row below, or moves the rows up.
LEMMA NextLineValue ==
    ASSUME NEW s \in Screens, NEW t, t = next_line(s)
    PROVE  /\ t \in Screens
           /\ t.x = 0
           /\ \/ /\ s.y < NUM_ROWS - 1
                 /\ t.y = s.y + 1
                 /\ t.cells = s.cells
              \/ /\ s.y = NUM_ROWS - 1
                 /\ t.y = s.y
                 /\ \A p \in Places : t.cells[p] =
                        IF p + NUM_COLS \in Places THEN s.cells[p + NUM_COLS] ELSE SPACE
<1>1. CASE s.y >= NUM_ROWS - 1
  <2> DEFINE moved == [i \in Places |-> IF i + NUM_COLS \in Places
                                        THEN s.cells[i + NUM_COLS] ELSE SPACE]
  <2>1. moved \in [Places -> Ink]
    BY InkValue DEF Screens
  <2>2. t = [s EXCEPT !.cells = moved, !.x = 0]
    BY <1>1 DEF next_line, scroll
  <2>3. \A p \in Places : moved[p] = IF p + NUM_COLS \in Places THEN s.cells[p + NUM_COLS] ELSE SPACE
    OBVIOUS
  <2> HIDE DEF moved
  <2>4. s.y = NUM_ROWS - 1
    BY <1>1, ScreenAssumption DEF Screens
  <2>5. t \in Screens /\ t.x = 0 /\ t.y = s.y /\ t.cells = moved
    <3>1. PICK u : u = [s EXCEPT !.cells = moved, !.x = 0]
      OBVIOUS
    <3>2. u \in Screens
      <4>1. u = [cells |-> moved, x |-> 0, y |-> s.y, vga |-> s.vga]
        BY <3>1 DEF Screens
      <4> QED BY <2>1, <4>1 DEF Screens
    <3>3. u.x = 0 /\ u.y = s.y /\ u.cells = moved
      BY <3>1 DEF Screens
    <3> QED BY <2>2, <3>1, <3>2, <3>3
  <2> QED BY <2>3, <2>4, <2>5
<1>2. CASE s.y < NUM_ROWS - 1
  <2>1. t = [s EXCEPT !.x = 0, !.y = s.y + 1]
    BY <1>2, ScreenAssumption DEF next_line, Screens
  <2>2. s.y + 1 \in 0 .. NUM_ROWS - 1
    BY <1>2, ScreenAssumption DEF Screens
  <2>3. t \in Screens /\ t.x = 0 /\ t.y = s.y + 1 /\ t.cells = s.cells
    <3>1. PICK u : u = [s EXCEPT !.x = 0, !.y = s.y + 1]
      OBVIOUS
    <3>2. u \in Screens
      <4>1. u = [cells |-> s.cells, x |-> 0, y |-> s.y + 1, vga |-> s.vga]
        BY <3>1 DEF Screens
      <4> QED BY <2>2, <4>1 DEF Screens
    <3>3. u.x = 0 /\ u.y = s.y + 1 /\ u.cells = s.cells
      BY <3>1 DEF Screens
    <3> QED BY <2>1, <3>1, <3>2, <3>3
  <2> QED BY <1>2, <2>3
<1> QED BY <1>1, <1>2, ScreenAssumption DEF Screens

\* cursor_update and the moves of the arrow keys.
LEMMA CursorValue ==
    ASSUME NEW s \in Screens, NEW n \in Int, NEW t,
           \/ t = cursor_update(s) /\ n = 0
           \/ t = cursor_update_left(s, n)
           \/ t = cursor_update_right(s, -n)
    PROVE  /\ t \in Screens
           /\ t.x = s.x - n /\ t.y = s.y /\ t.cells = s.cells
           /\ Pos(t) = Pos(s) - n
           /\ t.vga = Pos(t)
<1> DEFINE p == NUM_COLS * s.y + (s.x - n)
<1>1. p \in Int
  BY ScreenAssumption DEF Screens
<1>2. t = [cells |-> s.cells, x |-> s.x - n, y |-> s.y, vga |-> p]
  <2>1. CASE t = cursor_update(s) /\ n = 0
    BY <2>1 DEF cursor_update, Pos, Screens
  <2>2. CASE t = cursor_update_left(s, n)
    BY <2>2 DEF cursor_update_left, cursor_update, Pos, Screens
  <2>3. CASE t = cursor_update_right(s, -n)
    BY <2>3 DEF cursor_update_right, cursor_update, Pos, Screens
  <2> QED BY <2>1, <2>2, <2>3
<1>3. Pos(t) = p
  BY <1>2 DEF Pos
<1>4. Pos(s) - n = p
  BY ScreenAssumption DEF Pos, Screens
<1> HIDE DEF p
<1>5. t \in Screens
  BY <1>1, <1>2 DEF Screens
<1>6. t.x = s.x - n /\ t.y = s.y /\ t.cells = s.cells /\ t.vga = p
  BY <1>2
<1> QED BY <1>3, <1>4, <1>5, <1>6

\* terminal_backspace erases the place before the cursor, across row ends too.
LEMMA BackspaceValue ==
    ASSUME NEW s \in Screens, NEW t, t = terminal_backspace(s)
    PROVE  /\ t \in Screens
           /\ Pos(s) >= 1 =>
                /\ t.x = IF s.x # 0 THEN s.x - 1 ELSE NUM_COLS - 1
                /\ t.cells = Store(s, Pos(s) - 1, SPACE)
                /\ Pos(t) = Pos(s) - 1
                /\ t.vga = Pos(t)
<1> DEFINE u == [cells |-> Store(s, Pos(s) - 1, SPACE),
                 x |-> IF s.x # 0 THEN s.x - 1 ELSE NUM_COLS - 1,
                 y |-> IF s.x # 0 THEN s.y ELSE s.y - 1,
                 vga |-> s.vga]
<1>1. CASE s.x = 0 /\ s.y = 0
  <2>1. backspace(s) = s
    BY <1>1 DEF backspace
  <2>2. t = cursor_update(s)
    BY <2>1 DEF terminal_backspace
  <2>3. ~(Pos(s) >= 1)
    BY <1>1, ScreenAssumption DEF Pos
  <2> QED BY <2>2, <2>3, CursorValue
<1>2. CASE ~(s.x = 0 /\ s.y = 0)
  <2>1. backspace(s) = u
    BY <1>2 DEF backspace, Screens
  <2>2. Store(s, Pos(s) - 1, SPACE) \in [Places -> Ink]
    BY StoreValue, PosValue, InkValue
  <2>3. u \in Screens
    BY <1>2, <2>2, ScreenAssumption DEF Screens
  <2>4. Pos(u) = Pos(s) - 1
    BY <1>2, ScreenAssumption DEF Pos, Screens
  <2>5. u.x = (IF s.x # 0 THEN s.x - 1 ELSE NUM_COLS - 1) /\ u.cells = Store(s, Pos(s) - 1, SPACE)
    OBVIOUS
  <2> HIDE DEF u
  <2>6. t = cursor_update(u)
    BY <2>1 DEF terminal_backspace
  <2>7. /\ t \in Screens
        /\ t.x = u.x - 0 /\ t.cells = u.cells
        /\ Pos(t) = Pos(u) - 0
        /\ t.vga = Pos(t)
    BY <2>3, <2>6, CursorValue
  <2>8. u.x \in Int /\ Pos(u) \in Int
    BY <2>3, PosValue DEF Screens
  <2> QED BY <2>4, <2>5, <2>7, <2>8
<1> QED BY <1>1, <1>2

\* Every character leaves a screen.
LEMMA WriteCharType ==
    ASSUME NEW s \in Screens, NEW c \in Ink
    PROVE  WriteChar(s, c) \in Screens
<1>1. Shown(s, c) \in Screens
  <2>1. c # NEWLINE => putc(s, c) \in Screens
    BY PutcValue
  <2> QED BY <2>1 DEF Shown
<1>2. next_line(Shown(s, c)) \in Screens
  BY <1>1, NextLineValue
<1> QED BY <1>1, <1>2 DEF WriteChar

\* A character moves the position on by one, to the next row at the end of a row; a screen
\* that scrolls takes the position with it.
LEMMA WriteCharPosition ==
    ASSUME NEW s \in Screens, NEW c \in Ink, c # NEWLINE, s.x <= NUM_COLS - 1,
           NEW t, t = WriteChar(s, c)
    PROVE  /\ t \in Screens
           /\ t.x <= NUM_COLS - 1
           /\ Congruent(t.x, s.x + 1)
           /\ \A i \in Int : Pos(s) >= i /\ i < (NUM_ROWS - 1) * NUM_COLS => Pos(t) >= i + 1
           /\ s.x >= -NUM_COLS =>
                 /\ t.x = IF s.x = NUM_COLS - 1 THEN 0 ELSE s.x + 1
                 /\ \/ /\ Pos(t) = Pos(s) + 1
                       /\ t.cells = Store(s, Pos(s), c)
                    \/ /\ Pos(t) = Pos(s) + 1 - NUM_COLS
                       /\ \A p \in Places : t.cells[p] =
                             IF p + NUM_COLS \in Places THEN Store(s, Pos(s), c)[p + NUM_COLS]
                             ELSE SPACE
<1> DEFINE u == putc(s, c)
<1>1. /\ u \in Screens
      /\ u.cells = Store(s, Pos(s), c)
      /\ u.x = Rem(s.x + 1, NUM_COLS)
      /\ u.y = s.y
  BY PutcValue
<1> HIDE DEF u
<1>2. s.x \in Int /\ s.y \in 0 .. NUM_ROWS - 1 /\ NUM_COLS \in Nat \ {0} /\ NUM_ROWS \in Nat \ {0}
  BY ScreenAssumption DEF Screens
<1>3. Pos(s) = NUM_COLS * s.y + s.x /\ NUM_COLS * (s.y + 1) = NUM_COLS * s.y + NUM_COLS
  BY PosValue
<1>4. CASE s.x = NUM_COLS - 1
  <2>1. t = next_line(u)
    BY <1>4 DEF WriteChar, EndsRow, Shown, u
  <2>2. /\ t \in Screens
        /\ t.x = 0
        /\ \/ /\ u.y < NUM_ROWS - 1
              /\ t.y = u.y + 1
              /\ t.cells = u.cells
           \/ /\ u.y = NUM_ROWS - 1
              /\ t.y = u.y
              /\ \A p \in Places : t.cells[p] =
                    IF p + NUM_COLS \in Places THEN u.cells[p + NUM_COLS] ELSE SPACE
    BY <1>1, <2>1, NextLineValue
  <2>3. Pos(t) = NUM_COLS * t.y + 0 /\ Pos(t) \in Int /\ Pos(s) \in Int
    BY <2>2, PosValue
  <2>4. Congruent(t.x, s.x + 1)
    <3>1. 0 = (s.x + 1) + (-1) * NUM_COLS
      BY <1>2, <1>4
    <3> QED BY <2>2, <3>1 DEF Congruent
  <2>5. CASE u.y < NUM_ROWS - 1 /\ t.y = u.y + 1 /\ t.cells = u.cells
    <3>1. Pos(t) = Pos(s) + 1
      BY <1>1, <1>2, <1>3, <1>4, <2>3, <2>5
    <3> QED BY <1>1, <1>2, <1>4, <2>2, <2>3, <2>4, <2>5, <3>1
  <2>6. CASE /\ u.y = NUM_ROWS - 1
             /\ t.y = u.y
             /\ \A p \in Places : t.cells[p] =
                   IF p + NUM_COLS \in Places THEN u.cells[p + NUM_COLS] ELSE SPACE
    <3>1. Pos(t) = Pos(s) + 1 - NUM_COLS
      BY <1>1, <1>2, <1>3, <1>4, <2>3, <2>6
    <3>2. Pos(t) = (NUM_ROWS - 1) * NUM_COLS /\ (NUM_ROWS - 1) * NUM_COLS \in Int
      BY <1>1, <1>2, <2>3, <2>6
    <3>3. \A i \in Int : Pos(s) >= i /\ i < (NUM_ROWS - 1) * NUM_COLS => Pos(t) >= i + 1
      BY <3>2
    <3> QED BY <1>1, <1>2, <1>4, <2>2, <2>4, <2>6, <3>1, <3>3
  <2> QED BY <2>2, <2>5, <2>6
<1>5. CASE s.x < NUM_COLS - 1
  <2>1. t = u
    BY <1>2, <1>5 DEF WriteChar, EndsRow, Shown, u
  <2>2. /\ u.x \in Int /\ u.x < NUM_COLS /\ u.x >= s.x + 1
        /\ s.x >= -NUM_COLS => u.x = s.x + 1
        /\ Congruent(u.x, s.x + 1)
    BY <1>1, <1>2, <1>5, RemValue
  <2>3. Pos(t) = NUM_COLS * s.y + u.x /\ NUM_COLS * s.y \in Int
    BY <1>1, <1>2, <2>1, PosValue
  <2>4. \A i \in Int : Pos(s) >= i => Pos(t) >= i + 1
    BY <1>2, <1>3, <2>2, <2>3
  <2>5. s.x >= -NUM_COLS => Pos(t) = Pos(s) + 1
    BY <1>2, <1>3, <2>2, <2>3
  <2> QED BY <1>1, <1>2, <1>5, <2>1, <2>2, <2>4, <2>5
<1> QED BY <1>2, <1>4, <1>5

\* terminal_write is its loop, one character at a time.
LEMMA WriteRuns ==
    ASSUME NEW s \in Screens, NEW text \in Seq(Ink), text # << >>
    PROVE  \E w \in [0 .. Len(text) -> Screens] :
              /\ w[0] = s
              /\ \A n \in 1 .. Len(text) : w[n] = WriteChar(w[n - 1], text[n])
              /\ terminal_write(s, text) = cursor_update(w[Len(text)])
<1> DEFINE N == Len(text)
           Is(w) == w = [n \in 0 .. N |-> IF n = 0 THEN s ELSE WriteChar(w[n - 1], text[n])]
           W == CHOOSE w : Is(w)
           F == [n \in 1 .. N |-> [t \in Screens |-> WriteChar(t, text[n])]]
<1>1. N \in Nat /\ \A n \in 1 .. N : text[n] \in Ink
  OBVIOUS
<1>2. F \in [1 .. N -> [Screens -> Screens]]
  BY <1>1, WriteCharType
<1>3. PICK g : IsRun(g, Screens, s, N, F)
  <2> HIDE DEF F, N
  <2> QED BY <1>1, <1>2, LoopRuns
<1>4. Is(g)
  <2>1. \A n \in 0 .. N : g[n] = IF n = 0 THEN s ELSE WriteChar(g[n - 1], text[n])
    BY <1>1, <1>3 DEF IsRun
  <2>2. g = [n \in 0 .. N |-> g[n]]
    BY <1>3 DEF IsRun
  <2> HIDE DEF F, N
  <2> QED BY <2>1, <2>2
<1>5. Is(W)
  <2> HIDE DEF Is
  <2> QED BY <1>4
<1>6. terminal_write(s, text) = cursor_update(W[N])
  BY DEF terminal_write
<1>7. W[0] = s /\ \A n \in 1 .. N : W[n] = WriteChar(W[n - 1], text[n])
  <2> HIDE DEF W
  <2> QED BY <1>1, <1>5
<1>8. W = [n \in 0 .. N |-> W[n]]
  <2> HIDE DEF W
  <2> QED BY <1>1, <1>5
<1>9. \A n \in 0 .. N : W[n] \in Screens
  <2> DEFINE Good == {n \in 0 .. N : W[n] \in Screens}
  <2>1. 0 \in Good
    BY <1>1, <1>7
  <2>2. ASSUME NEW m \in 0 .. N - 1, m \in Good PROVE m + 1 \in Good
    <3>1. W[m + 1] = WriteChar(W[m], text[m + 1])
      <4> HIDE DEF W, N
      <4>1. m + 1 \in 1 .. N /\ (m + 1) - 1 = m
        BY <1>1
      <4>2. W[m + 1] = WriteChar(W[(m + 1) - 1], text[m + 1])
        BY <1>7, <4>1
      <4> QED BY <4>1, <4>2
    <3>2. text[m + 1] \in Ink /\ m + 1 \in 0 .. N
      BY <1>1
    <3> QED BY <2>2, <3>1, <3>2, WriteCharType
  <2> HIDE DEF Good
  <2>3. \A m \in 0 .. N : m \in Good
    BY <1>1, <2>1, <2>2, LoopInduction
  <2> QED BY <2>3 DEF Good
<1> HIDE DEF W, N
<1>10. W \in [0 .. N -> Screens]
  BY <1>8, <1>9
<1> QED BY <1>6, <1>7, <1>10 DEF N
\* w lists the states of the loop of reset_terminal_keyboard_input.
IsErasure(w, s, index, N) ==
    /\ w \in [0 .. N -> Screens]
    /\ w[0] = cursor_update_right(s, N - index)
    /\ \A n \in 1 .. N : w[n] = terminal_backspace(w[n - 1])
    /\ reset_terminal_keyboard_input(s, index, N) = w[N]

\* reset_terminal_keyboard_input is its loop.
LEMMA EraseRuns ==
    ASSUME NEW s \in Screens, NEW index \in Int, NEW N \in Nat
    PROVE  \E w : IsErasure(w, s, index, N)
<1> DEFINE first == cursor_update_right(s, N - index)
           Is(w) == w = [n \in 0 .. N |-> IF n = 0 THEN first ELSE terminal_backspace(w[n - 1])]
           W == CHOOSE w : Is(w)
           F == [n \in 1 .. N |-> [t \in Screens |-> terminal_backspace(t)]]
<1>1. first \in Screens
  <2>1. -(-(N - index)) = N - index /\ -(N - index) \in Int
    OBVIOUS
  <2>2. first = cursor_update_right(s, -(-(N - index)))
    BY <2>1
  <2> HIDE DEF first
  <2> QED BY <2>1, <2>2, CursorValue
<1>2. F \in [1 .. N -> [Screens -> Screens]]
  BY BackspaceValue
<1>3. PICK g : IsRun(g, Screens, first, N, F)
  <2> HIDE DEF F, first
  <2> QED BY <1>1, <1>2, LoopRuns
<1>4. Is(g)
  <2>1. \A n \in 0 .. N : g[n] = IF n = 0 THEN first ELSE terminal_backspace(g[n - 1])
    <3>1. g[0] = first
      BY <1>3 DEF IsRun
    <3>2. ASSUME NEW n \in 1 .. N PROVE g[n] = terminal_backspace(g[n - 1])
      <4>1. g[n - 1] \in Screens /\ g[n] = F[n][g[n - 1]]
        BY <1>3 DEF IsRun
      <4> QED BY <4>1
    <3> HIDE DEF F, first
    <3> QED BY <3>1, <3>2
  <2>2. g = [n \in 0 .. N |-> g[n]]
    BY <1>3 DEF IsRun
  <2> HIDE DEF F, first
  <2> QED BY <2>1, <2>2
<1>5. Is(W)
  <2> HIDE DEF Is
  <2> QED BY <1>4
<1>6. reset_terminal_keyboard_input(s, index, N) = W[N]
  BY DEF reset_terminal_keyboard_input
<1>7. W[0] = first /\ \A n \in 1 .. N : W[n] = terminal_backspace(W[n - 1])
  <2> HIDE DEF W
  <2> QED BY <1>1, <1>5
<1>8. W = [n \in 0 .. N |-> W[n]]
  <2> HIDE DEF W
  <2> QED BY <1>1, <1>5
<1>9. \A n \in 0 .. N : W[n] \in Screens
  <2> DEFINE Good == {n \in 0 .. N : W[n] \in Screens}
  <2>1. 0 \in Good
    BY <1>1, <1>7
  <2>2. ASSUME NEW m \in 0 .. N - 1, m \in Good PROVE m + 1 \in Good
    <3>1. W[m + 1] = terminal_backspace(W[m])
      <4> HIDE DEF W, first
      <4>1. m + 1 \in 1 .. N /\ (m + 1) - 1 = m
        BY <1>1
      <4>2. W[m + 1] = terminal_backspace(W[(m + 1) - 1])
        BY <1>7, <4>1
      <4> QED BY <4>1, <4>2
    <3>2. m + 1 \in 0 .. N
      OBVIOUS
    <3> QED BY <2>2, <3>1, <3>2, BackspaceValue
  <2> HIDE DEF Good
  <2>3. \A m \in 0 .. N : m \in Good
    BY <1>1, <2>1, <2>2, LoopInduction
  <2> QED BY <2>3 DEF Good
<1> HIDE DEF W, first
<1>10. W \in [0 .. N -> Screens]
  BY <1>8, <1>9
<1> QED BY <1>6, <1>7, <1>10 DEF first, IsErasure

-----------------------------------------------------------------------------
(* Lines on the screen.                                                    *)

\* The position of s belongs to the character i of a line that began in column col.
Placed(s, col, i) == s.x <= NUM_COLS - 1 /\ Pos(s) >= i /\ Congruent(s.x, col + i)

\* ... with the row counted from the row of the line's begin or from the one below.
Near(s, col, i) == s.x = col + i \/ s.x = col + i - NUM_COLS

\* The first n characters of b are shown where the line is.
Shows(s, i, b, n) ==
    \A j \in 0 .. n - 1 : Pos(s) - i + j \in Places /\ s.cells[Pos(s) - i + j] = b[j]

\* Nothing is shown from the m-th character of the line on.
BlankFrom(s, i, m) ==
    \A p \in Places : p >= Pos(s) - i + m => s.cells[p] \in {SPACE, NUL}

\* terminal_write of the next character of a line.
LEMMA WriteStep ==
    ASSUME NEW s \in Screens, NEW b, NEW i \in Nat, i < MAX_CHARACTERS,
           b[i] \in Ink, b[i] # NEWLINE,
           NEW col \in Nat, Placed(s, col, i),
           NEW t, t = WriteChar(s, b[i])
    PROVE  /\ t \in Screens
           /\ Placed(t, col, i + 1)
           /\ Near(s, col, i) /\ col + MAX_CHARACTERS < 2 * NUM_COLS =>
                /\ Near(t, col, i + 1)
                /\ Shows(s, i, b, i) => Shows(t, i + 1, b, i + 1)
                /\ \A m \in Int : m > i /\ BlankFrom(s, i, m) => BlankFrom(t, i + 1, m)
<1> DEFINE c == b[i]
<1>1. /\ t \in Screens
      /\ t.x <= NUM_COLS - 1
      /\ Congruent(t.x, s.x + 1)
      /\ \A k \in Int : Pos(s) >= k /\ k < (NUM_ROWS - 1) * NUM_COLS => Pos(t) >= k + 1
      /\ s.x >= -NUM_COLS =>
            /\ t.x = IF s.x = NUM_COLS - 1 THEN 0 ELSE s.x + 1
            /\ \/ /\ Pos(t) = Pos(s) + 1
                  /\ t.cells = Store(s, Pos(s), c)
               \/ /\ Pos(t) = Pos(s) + 1 - NUM_COLS
                  /\ \A p \in Places : t.cells[p] =
                        IF p + NUM_COLS \in Places THEN Store(s, Pos(s), c)[p + NUM_COLS]
                        ELSE SPACE
  BY WriteCharPosition DEF Placed
<1>2. /\ MAX_CHARACTERS \in Nat /\ NUM_COLS \in Nat \ {0} /\ NUM_ROWS \in Nat \ {0}
      /\ MAX_CHARACTERS <= (NUM_ROWS - 1) * NUM_COLS /\ (NUM_ROWS - 1) * NUM_COLS \in Int
      /\ NUM_ROWS * NUM_COLS \in Int
  BY BufferAssumption, ScreenAssumption, FitsAssumption DEF MAX_CHARACTERS
<1>3. /\ s.x \in Int /\ t.x \in Int /\ Pos(s) \in Int /\ Pos(t) \in Int
      /\ Pos(s) <= NUM_ROWS * NUM_COLS - 1 /\ Pos(s) >= i
  <2>1. /\ Pos(s) \in Int /\ Pos(s) = NUM_COLS * s.y + s.x
        /\ NUM_COLS * s.y + NUM_COLS <= NUM_ROWS * NUM_COLS /\ NUM_COLS * s.y >= 0
    BY PosValue
  <2>2. s.x \in Int /\ t.x \in Int /\ Pos(t) \in Int /\ s.x <= NUM_COLS - 1 /\ Pos(s) >= i
        /\ NUM_COLS * s.y \in Int
    BY <1>1, PosValue, ScreenAssumption DEF Screens, Placed
  <2> QED BY <1>2, <2>1, <2>2
<1>4. Placed(t, col, i + 1)
  <2>1. Pos(t) >= i + 1
    BY <1>1, <1>2, <1>3
  <2>2. Congruent(s.x + 1, col + i + 1)
    <3>1. PICK k \in Int : s.x = col + i + k * NUM_COLS
      BY DEF Placed, Congruent
    <3>2. s.x + 1 = col + i + 1 + k * NUM_COLS
      BY <1>2, <3>1
    <3> QED BY <3>2 DEF Congruent
  <2>3. Congruent(t.x, col + (i + 1))
    <3>1. col + i + 1 = col + (i + 1) /\ col + i + 1 \in Int /\ s.x + 1 \in Int
      BY <1>3
    <3> QED BY <1>1, <1>3, <2>2, <3>1, CongruentTrans
  <2> QED BY <1>1, <2>1, <2>3 DEF Placed
<1>5. ASSUME Near(s, col, i), col + MAX_CHARACTERS < 2 * NUM_COLS
      PROVE  /\ Near(t, col, i + 1)
             /\ Shows(s, i, b, i) => Shows(t, i + 1, b, i + 1)
             /\ \A m \in Int : m > i /\ BlankFrom(s, i, m) => BlankFrom(t, i + 1, m)
  <2>1. s.x >= -NUM_COLS
    BY <1>2, <1>3, <1>5 DEF Near
  <2>2. Near(t, col, i + 1)
    BY <1>1, <1>2, <1>3, <1>5, <2>1 DEF Near
  <2>3. \A q \in Places : Store(s, Pos(s), c)[q] = IF q = Pos(s) THEN c ELSE s.cells[q]
    <3>1. c \in Ink /\ Pos(s) \in Int
      BY <1>3
    <3> HIDE DEF c
    <3> QED BY <3>1, StoreValue
  <2>4. CASE Pos(t) = Pos(s) + 1 /\ t.cells = Store(s, Pos(s), c)
    <3>1. ASSUME Shows(s, i, b, i) PROVE Shows(t, i + 1, b, i + 1)
      <4>1. SUFFICES ASSUME NEW j \in 0 .. i
                     PROVE  /\ Pos(t) - (i + 1) + j \in Places
                            /\ t.cells[Pos(t) - (i + 1) + j] = b[j]
        BY DEF Shows
      <4>2. Pos(t) - (i + 1) + j = Pos(s) - i + j
        BY <1>3, <2>4
      <4>3. Pos(s) - i + j \in Places
        BY <1>2, <1>3 DEF Places
      <4>4. CASE j = i
        BY <1>3, <2>3, <2>4, <4>2, <4>3, <4>4
      <4>5. CASE j < i
        BY <1>3, <2>3, <2>4, <3>1, <4>2, <4>3, <4>5 DEF Shows
      <4> QED BY <4>4, <4>5
    <3>2. ASSUME NEW m \in Int, m > i, BlankFrom(s, i, m) PROVE BlankFrom(t, i + 1, m)
      BY <1>3, <2>3, <2>4, <3>2 DEF BlankFrom, Places
    <3> QED BY <2>2, <3>1, <3>2
  <2>5. CASE /\ Pos(t) = Pos(s) + 1 - NUM_COLS
             /\ \A p \in Places : t.cells[p] =
                   IF p + NUM_COLS \in Places THEN Store(s, Pos(s), c)[p + NUM_COLS]
                   ELSE SPACE
    <3>1. ASSUME Shows(s, i, b, i) PROVE Shows(t, i + 1, b, i + 1)
      <4>1. SUFFICES ASSUME NEW j \in 0 .. i
                     PROVE  /\ Pos(t) - (i + 1) + j \in Places
                            /\ t.cells[Pos(t) - (i + 1) + j] = b[j]
        BY DEF Shows
      <4> DEFINE q == Pos(s) - i + j
                 p == Pos(t) - (i + 1) + j
      <4>2. p + NUM_COLS = q /\ p \in Int /\ q \in Int
        BY <1>2, <1>3, <2>5
      <4>3. q \in Places /\ p >= 0
        BY <1>2, <1>3, <1>4 DEF Places, Placed
      <4>4. p \in Places
        BY <1>2, <4>2, <4>3 DEF Places
      <4>5. t.cells[p] = IF q = Pos(s) THEN c ELSE s.cells[q]
        <5> HIDE DEF p, q
        <5> QED BY <2>3, <2>5, <4>2, <4>3, <4>4
      <4>6. CASE j = i
        BY <1>3, <4>4, <4>5, <4>6
      <4>7. CASE j < i
        <5>1. s.cells[q] = b[j] /\ q # Pos(s)
          BY <1>3, <3>1, <4>7 DEF Shows
        <5> QED BY <4>4, <4>5, <5>1
      <4> QED BY <4>6, <4>7
    <3>2. ASSUME NEW m \in Int, m > i, BlankFrom(s, i, m) PROVE BlankFrom(t, i + 1, m)
      <4>1. SUFFICES ASSUME NEW p \in Places, p >= Pos(t) - (i + 1) + m
                     PROVE  t.cells[p] \in {SPACE, NUL}
        BY DEF BlankFrom
      <4>2. CASE p + NUM_COLS \in Places
        <5>1. p + NUM_COLS >= Pos(s) - i + m /\ p + NUM_COLS # Pos(s) /\ p \in Int
          BY <1>2, <1>3, <2>5, <3>2, <4>1 DEF Places
        <5>2. t.cells[p] = s.cells[p + NUM_COLS]
          BY <2>3, <2>5, <4>2, <5>1
        <5> QED BY <3>2, <4>2, <5>1, <5>2 DEF BlankFrom
      <4>3. CASE p + NUM_COLS \notin Places
        BY <2>5, <4>3
      <4> QED BY <4>2, <4>3
    <3> QED BY <2>2, <3>1, <3>2
  <2> QED BY <1>1, <2>1, <2>4, <2>5
<1> QED BY <1>1, <1>4, <1>5

\* The characters i .. n - 1 of b can be written; t is s with them written.
Inked(b, i, n) == \A j \in i .. n - 1 : b[j] \in Ink /\ b[j] # NEWLINE
Echoes(t, s, b, i, n) == t = terminal_write(s, Part(b, i, n - 1))

\* terminal_write of a part of the line shows it in its place.
LEMMA WriteLine ==
    ASSUME NEW s \in Screens, NEW b, NEW i \in Nat, NEW n \in Nat, i <= n, n <= MAX_CHARACTERS,
           Inked(b, i, n), NEW t, Echoes(t, s, b, i, n)
    PROVE  /\ t \in Screens
           /\ i = n => t = s
           /\ i < n => t.vga = Pos(t)
           /\ \A col \in Nat : Placed(s, col, i) =>
                /\ Placed(t, col, n)
                /\ Near(s, col, i) /\ col + MAX_CHARACTERS < 2 * NUM_COLS =>
                     /\ Near(t, col, n)
                     /\ Shows(s, i, b, i) => Shows(t, n, b, n)
                     /\ \A m \in Int : m >= n /\ BlankFrom(s, i, m) => BlankFrom(t, n, m)
<1> DEFINE N == n - i
           text == Part(b, i, n - 1)
<1>1. N \in Nat /\ MAX_CHARACTERS \in Nat
  BY BufferAssumption DEF MAX_CHARACTERS
<1>2. /\ text \in Seq(Ink) /\ Len(text) = N
      /\ \A k \in 1 .. N : text[k] = b[i + k - 1]
  <2>1. text = [k \in 1 .. N |-> b[i + k - 1]]
    BY DEF Part
  <2>2. \A k \in 1 .. N : b[i + k - 1] \in Ink
    BY DEF Inked
  <2> HIDE DEF text, N
  <2>3. text \in [1 .. N -> Ink]
    BY <2>1, <2>2
  <2>4. text \in Seq(Ink)
    BY <1>1, <2>3
  <2>5. Len(text) = N
    BY <1>1, <2>1
  <2> QED BY <2>1, <2>4, <2>5
<1>3. CASE i = n
  <2>1. text = << >>
    BY <1>2, <1>3
  <2>2. t = s
    BY <2>1 DEF Echoes, terminal_write
  <2> QED BY <1>3, <2>2
<1>4. CASE i < n
  <2>1. text # << >>
    BY <1>2, <1>4
  <2>2. PICK w \in [0 .. N -> Screens] :
              /\ w[0] = s
              /\ \A k \in 1 .. N : w[k] = WriteChar(w[k - 1], text[k])
              /\ t = cursor_update(w[N])
    <3> HIDE DEF text, N
    <3>1. t = terminal_write(s, text)
      BY DEF text, Echoes
    <3>2. \E w \in [0 .. Len(text) -> Screens] :
              /\ w[0] = s
              /\ \A k \in 1 .. Len(text) : w[k] = WriteChar(w[k - 1], text[k])
              /\ terminal_write(s, text) = cursor_update(w[Len(text)])
      BY <1>2, <2>1, WriteRuns
    <3> QED BY <1>2, <3>1, <3>2
  <2>3. \A k \in 0 .. N - 1 : w[k + 1] = WriteChar(w[k], b[i + k])
    <3>1. SUFFICES ASSUME NEW k \in 0 .. N - 1 PROVE w[k + 1] = WriteChar(w[k], b[i + k])
      OBVIOUS
    <3>2. k + 1 \in 1 .. N /\ (k + 1) - 1 = k /\ i + (k + 1) - 1 = i + k
      BY <1>1
    <3> HIDE DEF text, N
    <3>3. w[k + 1] = WriteChar(w[(k + 1) - 1], text[k + 1]) /\ text[k + 1] = b[i + (k + 1) - 1]
      BY <1>2, <2>2, <3>2
    <3> QED BY <3>2, <3>3
  <2>4. w[N] \in Screens
    BY <1>1
  <2>5. /\ t \in Screens
        /\ t.x = w[N].x - 0 /\ t.y = w[N].y /\ t.cells = w[N].cells
        /\ Pos(t) = Pos(w[N]) - 0
        /\ t.vga = Pos(t)
    <3> HIDE DEF N
    <3> QED BY <2>2, <2>4, CursorValue
  <2>6. t.x = w[N].x /\ Pos(t) = Pos(w[N])
    <3>1. w[N].x \in Int /\ Pos(w[N]) \in Int
      BY <2>4, PosValue DEF Screens
    <3> QED BY <2>5, <3>1
  <2>7. ASSUME NEW col \in Nat, Placed(s, col, i) PROVE Placed(t, col, n)
    <3> DEFINE Good == {k \in 0 .. N : Placed(w[k], col, i + k)}
    <3>1. 0 \in Good
      BY <1>1, <2>2, <2>7
    <3>2. ASSUME NEW k \in 0 .. N - 1, k \in Good PROVE k + 1 \in Good
      <4>1. /\ i + k \in Nat /\ i + k < MAX_CHARACTERS /\ i + k \in i .. n - 1
            /\ k + 1 \in 0 .. N /\ i + k + 1 = i + (k + 1) /\ k \in 0 .. N
        BY <1>1
      <4>2. b[i + k] \in Ink /\ b[i + k] # NEWLINE /\ w[k] \in Screens
        BY <4>1 DEF Inked
      <4>3. Placed(w[k + 1], col, i + k + 1)
        <5> HIDE DEF N
        <5>1. Placed(w[k], col, i + k)
          BY <3>2
        <5> QED BY <2>3, <4>1, <4>2, <5>1, WriteStep
      <4> QED BY <4>1, <4>3
    <3> HIDE DEF Good
    <3>3. \A k \in 0 .. N : k \in Good
      BY <1>1, <3>1, <3>2, LoopInduction
    <3>4. Placed(w[N], col, i + N) /\ i + N = n
      BY <1>1, <3>3 DEF Good
    <3> HIDE DEF N
    <3> QED BY <2>6, <3>4 DEF Placed
  <2>8. ASSUME NEW col \in Nat, Placed(s, col, i), Near(s, col, i),
               col + MAX_CHARACTERS < 2 * NUM_COLS
        PROVE  /\ Near(t, col, n)
               /\ Shows(s, i, b, i) => Shows(t, n, b, n)
               /\ \A m \in Int : m >= n /\ BlankFrom(s, i, m) => BlankFrom(t, n, m)
    <3> DEFINE Good == {k \in 0 .. N :
                 /\ Placed(w[k], col, i + k) /\ Near(w[k], col, i + k)
                 /\ Shows(s, i, b, i) => Shows(w[k], i + k, b, i + k)
                 /\ \A m \in Int : m >= n /\ BlankFrom(s, i, m) => BlankFrom(w[k], i + k, m)}
    <3>1. 0 \in Good
      BY <1>1, <2>2, <2>8
    <3>2. ASSUME NEW k \in 0 .. N - 1, k \in Good PROVE k + 1 \in Good
      <4>1. /\ i + k \in Nat /\ i + k < MAX_CHARACTERS /\ i + k \in i .. n - 1
            /\ k + 1 \in 0 .. N /\ i + k + 1 = i + (k + 1) /\ k \in 0 .. N
            /\ \A m \in Int : m >= n => m > i + k
        BY <1>1
      <4>2. b[i + k] \in Ink /\ b[i + k] # NEWLINE /\ w[k] \in Screens
        BY <4>1 DEF Inked
      <4> HIDE DEF N
      <4>3. /\ Placed(w[k], col, i + k) /\ Near(w[k], col, i + k)
            /\ Shows(s, i, b, i) => Shows(w[k], i + k, b, i + k)
            /\ \A m \in Int : m >= n /\ BlankFrom(s, i, m) => BlankFrom(w[k], i + k, m)
        BY <3>2
      <4>4. /\ Placed(w[k + 1], col, i + k + 1)
            /\ Near(w[k + 1], col, i + k + 1)
            /\ Shows(w[k], i + k, b, i + k) => Shows(w[k + 1], i + k + 1, b, i + k + 1)
            /\ \A m \in Int : m > i + k /\ BlankFrom(w[k], i + k, m) => BlankFrom(w[k + 1], i + k + 1, m)
        BY <2>3, <2>8, <4>1, <4>2, <4>3, WriteStep
      <4>5. \A m \in Int : m >= n /\ BlankFrom(s, i, m) => BlankFrom(w[k + 1], i + (k + 1), m)
        BY <4>1, <4>3, <4>4
      <4> QED BY <4>1, <4>3, <4>4, <4>5
    <3> HIDE DEF Good
    <3>3. \A k \in 0 .. N : k \in Good
      BY <1>1, <3>1, <3>2, LoopInduction
    <3>4. i + N = n /\ N \in 0 .. N
      BY <1>1
    <3> HIDE DEF N
    <3>5. /\ Near(w[N], col, n)
          /\ Shows(s, i, b, i) => Shows(w[N], n, b, n)
          /\ \A m \in Int : m >= n /\ BlankFrom(s, i, m) => BlankFrom(w[N], n, m)
      BY <3>3, <3>4 DEF Good
    <3> QED BY <2>5, <2>6, <3>5 DEF Near, Shows, BlankFrom
  <2> QED BY <1>4, <2>5, <2>7, <2>8
<1> QED BY <1>3, <1>4

\* t is s with the cursor d places further left.
Moves(t, s, d) == t = cursor_update_left(s, d) \/ t = cursor_update_right(s, -d)

\* The cursor moves within the line.
LEMMA MoveInLine ==
    ASSUME NEW s \in Screens, NEW d \in Int, NEW t, Moves(t, s, d),
           NEW i \in Int, NEW k \in Int, k = i - d
    PROVE  /\ t \in Screens /\ t.vga = Pos(t)
           /\ t.x = s.x - d /\ t.y = s.y /\ t.cells = s.cells
           /\ \A col \in Int :
                /\ Placed(s, col, i) /\ t.x <= NUM_COLS - 1 => Placed(t, col, k)
                /\ Near(s, col, i) => Near(t, col, k)
           /\ \A b, n : Shows(s, i, b, n) => Shows(t, k, b, n)
           /\ \A m : BlankFrom(s, i, m) => BlankFrom(t, k, m)
<1>1. /\ t \in Screens
      /\ t.x = s.x - d /\ t.y = s.y /\ t.cells = s.cells
      /\ Pos(t) = Pos(s) - d
      /\ t.vga = Pos(t)
  <2>1. CASE t = cursor_update_left(s, d)
    BY <2>1, CursorValue
  <2>2. CASE t = cursor_update_right(s, -d)
    BY <2>2, CursorValue
  <2> QED BY <2>1, <2>2 DEF Moves
<1>2. /\ s.x \in Int /\ Pos(s) \in Int /\ NUM_COLS \in Nat \ {0}
      /\ Pos(t) - k = Pos(s) - i
  BY <1>1, PosValue, ScreenAssumption DEF Screens
<1>3. ASSUME NEW col \in Int, Placed(s, col, i), t.x <= NUM_COLS - 1 PROVE Placed(t, col, k)
  <2>1. PICK j \in Int : s.x = col + i + j * NUM_COLS
    BY <1>3 DEF Placed, Congruent
  <2>2. t.x = col + k + j * NUM_COLS
    BY <1>1, <1>2, <2>1
  <2>3. Congruent(t.x, col + k)
    BY <2>2 DEF Congruent
  <2>4. Pos(t) >= k
    BY <1>1, <1>2, <1>3 DEF Placed
  <2> QED BY <1>3, <2>3, <2>4 DEF Placed
<1>4. ASSUME NEW col \in Int, Near(s, col, i) PROVE Near(t, col, k)
  BY <1>1, <1>2, <1>4 DEF Near
<1>5. \A b, n : Shows(s, i, b, n) => Shows(t, k, b, n)
  BY <1>1, <1>2 DEF Shows
<1>6. \A m : BlankFrom(s, i, m) => BlankFrom(t, k, m)
  BY <1>1, <1>2 DEF BlankFrom
<1> QED BY <1>1, <1>3, <1>4, <1>5, <1>6

\* terminal_backspace behind the character i - 1 of a line.
LEMMA EraseStep ==
    ASSUME NEW s \in Screens, NEW i \in Nat \ {0}, NEW col \in Nat, Placed(s, col, i),
           NEW t, t = terminal_backspace(s), NEW k \in Nat, k = i - 1
    PROVE  /\ t \in Screens /\ t.vga = Pos(t)
           /\ Placed(t, col, k)
           /\ Near(s, col, i) => Near(t, col, k)
           /\ \A b : \A n \in Int : n <= k /\ Shows(s, i, b, n) => Shows(t, k, b, n)
           /\ \A m \in Int : BlankFrom(s, i, m) => BlankFrom(t, k, m)
           /\ BlankFrom(s, i, i) => BlankFrom(t, k, k)
<1>1. Pos(s) >= i /\ Pos(s) \in Int /\ s.x \in Int /\ NUM_COLS \in Nat \ {0} /\ s.x <= NUM_COLS - 1
  BY PosValue, ScreenAssumption DEF Placed, Screens
<1>2. /\ t \in Screens
      /\ t.x = IF s.x # 0 THEN s.x - 1 ELSE NUM_COLS - 1
      /\ t.cells = Store(s, Pos(s) - 1, SPACE)
      /\ Pos(t) = Pos(s) - 1
      /\ t.vga = Pos(t)
  BY <1>1, BackspaceValue
<1>3. \A q \in Places : t.cells[q] = IF q = Pos(s) - 1 THEN SPACE ELSE s.cells[q]
  BY <1>1, <1>2, StoreValue, InkValue
<1>4. Placed(t, col, k)
  <2>1. PICK j \in Int : s.x = col + i + j * NUM_COLS
    BY DEF Placed, Congruent
  <2>2. CASE s.x # 0
    <3>1. t.x = col + k + j * NUM_COLS
      BY <1>1, <1>2, <2>1, <2>2
    <3>2. Congruent(t.x, col + k)
      BY <3>1 DEF Congruent
    <3> QED BY <1>1, <1>2, <2>2, <3>2 DEF Placed
  <2>3. CASE s.x = 0
    <3>1. t.x = col + k + (j + 1) * NUM_COLS
      BY <1>1, <1>2, <2>1, <2>3
    <3>2. Congruent(t.x, col + k)
      BY <3>1 DEF Congruent
    <3> QED BY <1>1, <1>2, <2>3, <3>2 DEF Placed
  <2> QED BY <2>2, <2>3
<1>5. Near(s, col, i) => Near(t, col, k)
  BY <1>1, <1>2 DEF Near
<1>6. Pos(t) - k = Pos(s) - i
  BY <1>1, <1>2
<1>7. ASSUME NEW b, NEW n \in Int, n <= k, Shows(s, i, b, n) PROVE Shows(t, k, b, n)
  BY <1>1, <1>3, <1>6, <1>7 DEF Shows
<1>8. ASSUME NEW m \in Int, BlankFrom(s, i, m) PROVE BlankFrom(t, k, m)
  BY <1>3, <1>6, <1>8 DEF BlankFrom
<1>9. ASSUME BlankFrom(s, i, i) PROVE BlankFrom(t, k, k)
  <2>1. SUFFICES ASSUME NEW p \in Places, p >= Pos(t) - k + k PROVE t.cells[p] \in {SPACE, NUL}
    BY DEF BlankFrom
  <2>2. p = Pos(s) - 1 \/ p >= Pos(s) - i + i
    BY <1>1, <1>2, <2>1 DEF Places
  <2> QED BY <1>3, <1>9, <2>2 DEF BlankFrom
<1> QED BY <1>2, <1>4, <1>5, <1>7, <1>8, <1>9

\* reset_terminal_keyboard_input goes back to the begin of the line and leaves it blank.
LEMMA EraseLine ==
    ASSUME NEW s \in Screens, NEW idx \in Nat, NEW size \in Nat, idx <= size,
           NEW col \in Nat, Placed(s, col, idx), s.x + (size - idx) <= NUM_COLS - 1,
           NEW t, t = reset_terminal_keyboard_input(s, idx, size)
    PROVE  /\ t \in Screens /\ t.vga = Pos(t)
           /\ Placed(t, col, 0)
           /\ Near(s, col, idx) => Near(t, col, 0)
           /\ \A m \in Int : BlankFrom(s, idx, m) => BlankFrom(t, 0, m)
           /\ BlankFrom(s, idx, size) => BlankFrom(t, 0, 0)
<1>1. PICK w \in [0 .. size -> Screens] :
          /\ w[0] = cursor_update_right(s, size - idx)
          /\ \A n \in 1 .. size : w[n] = terminal_backspace(w[n - 1])
          /\ t = w[size]
  <2>1. PICK w : IsErasure(w, s, idx, size)
    BY EraseRuns
  <2>2. w \in [0 .. size -> Screens]
    BY <2>1 DEF IsErasure
  <2>3. /\ w[0] = cursor_update_right(s, size - idx)
        /\ \A n \in 1 .. size : w[n] = terminal_backspace(w[n - 1])
        /\ t = w[size]
    BY <2>1 DEF IsErasure
  <2> QED BY <2>2, <2>3
<1> DEFINE Good == {n \in 0 .. size :
              /\ w[n].vga = Pos(w[n])
              /\ Placed(w[n], col, size - n)
              /\ Near(s, col, idx) => Near(w[n], col, size - n)
              /\ \A m \in Int : BlankFrom(s, idx, m) => BlankFrom(w[n], size - n, m)
              /\ BlankFrom(s, idx, size) => BlankFrom(w[n], size - n, size - n)}
<1>2. 0 \in Good
  <2> DEFINE d == -(size - idx)
  <2>1. d \in Int /\ -d = size - idx /\ size = idx - d
    OBVIOUS
  <2> HIDE DEF d
  <2>2. Moves(w[0], s, d) /\ idx \in Int /\ size \in Int /\ col \in Int
    BY <1>1, <2>1 DEF Moves
  <2>3. /\ w[0] \in Screens /\ w[0].vga = Pos(w[0])
        /\ w[0].x = s.x - d /\ w[0].y = s.y /\ w[0].cells = s.cells
        /\ \A c \in Int :
             /\ Placed(s, c, idx) /\ w[0].x <= NUM_COLS - 1 => Placed(w[0], c, size)
             /\ Near(s, c, idx) => Near(w[0], c, size)
        /\ \A b, n : Shows(s, idx, b, n) => Shows(w[0], size, b, n)
        /\ \A m : BlankFrom(s, idx, m) => BlankFrom(w[0], size, m)
    BY <2>1, <2>2, MoveInLine
  <2>4. w[0].x <= NUM_COLS - 1
    BY <2>1, <2>3 DEF Screens
  <2>5. size - 0 = size /\ 0 \in 0 .. size
    OBVIOUS
  <2> QED BY <2>2, <2>3, <2>4, <2>5
<1>3. ASSUME NEW n \in 0 .. size - 1, n \in Good PROVE n + 1 \in Good
  <2>1. /\ n + 1 \in 1 .. size /\ n + 1 \in 0 .. size /\ (n + 1) - 1 = n
        /\ size - n \in Nat \ {0} /\ size - (n + 1) = (size - n) - 1 /\ size - (n + 1) \in Nat
    OBVIOUS
  <2>2. w[n + 1] = terminal_backspace(w[n]) /\ w[n] \in Screens
    <3>1. w[n + 1] = terminal_backspace(w[(n + 1) - 1])
      BY <1>1, <2>1
    <3> QED BY <2>1, <3>1
  <2>3. /\ Placed(w[n], col, size - n)
        /\ Near(s, col, idx) => Near(w[n], col, size - n)
        /\ \A m \in Int : BlankFrom(s, idx, m) => BlankFrom(w[n], size - n, m)
        /\ BlankFrom(s, idx, size) => BlankFrom(w[n], size - n, size - n)
    BY <1>3
  <2> DEFINE k == size - (n + 1)
             i == size - n
  <2>4. i \in Nat \ {0} /\ k \in Nat /\ k = i - 1 /\ Placed(w[n], col, i)
    BY <2>1, <2>3
  <2> HIDE DEF k, i
  <2>5. /\ w[n + 1].vga = Pos(w[n + 1])
        /\ Placed(w[n + 1], col, k)
        /\ Near(w[n], col, i) => Near(w[n + 1], col, k)
        /\ \A m \in Int : BlankFrom(w[n], i, m) => BlankFrom(w[n + 1], k, m)
        /\ BlankFrom(w[n], i, i) => BlankFrom(w[n + 1], k, k)
    BY <2>2, <2>4, EraseStep
  <2> QED BY <2>1, <2>3, <2>5 DEF k, i
<1> HIDE DEF Good
<1>4. \A n \in 0 .. size : n \in Good
  BY <1>2, <1>3, LoopInduction
<1>5. size \in Good /\ size - size = 0
  BY <1>4
<1> QED BY <1>1, <1>5 DEF Good

-----------------------------------------------------------------------------
(* The inductive invariant of the console.                                 *)

\* The place in the line of the cursor, while a handler is unfinished that of the end of
\* its echo, and the number of characters behind it.
At   == IF pending = << >> THEN bufferIDX
        ELSE IF pending = <<"insert">> THEN bufferSIZE + 1 ELSE bufferSIZE
Rest == IF pending = << >> THEN bufferSIZE - bufferIDX ELSE 0

\* A full line that begins in column col reaches at most into the next row.
Short(col) == col # Torn /\ col + MAX_CHARACTERS < 2 * NUM_COLS

\* Screen s shows the n characters of row, begun in column col, with the cursor before the
\* i-th and r more behind it.
Drawn(s, col, i, r, row, n) ==
    /\ col # Torn => Placed(s, col, i) /\ s.x + r <= NUM_COLS - 1
    /\ Short(col) => Near(s, col, i) /\ Shows(s, i, row, n)

\* Below the row of the cursor there is nothing.
Below(s) == \A p \in Places : p >= NUM_COLS * (s.y + 1) => s.cells[p] \in {SPACE, NUL}

\* On a clean screen nothing follows the line, or at least nothing below its row while the
\* next_line of a program is outstanding.
Unspoilt(s, col, i, n, out) ==
    /\ Short(col) \/ n = 0
    /\ col # Torn => Near(s, col, i)
    /\ col # Torn => \A m \in Int : m >= n /\ (out => m >= NUM_COLS - col) => BlankFrom(s, i, m)
    /\ Below(s)

\* Where lines begin.
Columns == {Torn} \cup 0 .. NUM_COLS - 1

\* The invariant: the range of the variables; the VGA cursor is where the next character
\* goes, unless other output came in; the line is drawn; a clean screen holds nothing else.
ConsoleType == screen \in Screens /\ start \in Columns /\ owed \in BOOLEAN /\ clean \in BOOLEAN
CursorShown == ~owed /\ start # Torn => screen.vga = Pos(screen)
LineDrawn == Drawn(screen, start, At, Rest, buffer, EndSIZE)
CleanScreen == clean => Unspoilt(screen, start, At, EndSIZE, owed)

ScreenInv == ConsoleType /\ CursorShown /\ LineDrawn /\ CleanScreen
CInv == IInv /\ ScreenInv

\* All this holds until the cursor is lost, and of a lost cursor no more than its types.
Adrift == [cells : [Places -> Ink], x : Int, y : Int, vga : Int]
LInv == /\ IInv
        /\ screen \in Adrift /\ owed \in BOOLEAN
        /\ start # Lost => ScreenInv

\* Where the line began, and the history values.
LEMMA ColumnValue ==
    ASSUME start \in Columns
    PROVE  start # Lost /\ (start >= 0 <=> start # Torn) /\ Torn # Lost
BY ScreenAssumption DEF Columns, Torn, Lost

\* When nothing follows the line, there is nothing below the row of the cursor.
LEMMA NothingBelow ==
    ASSUME NEW s \in Screens, NEW col \in 0 .. NUM_COLS - 1, NEW i \in Int, NEW r \in Int, NEW n \in Int,
           NEW out \in BOOLEAN,
           n <= i + r, s.x + r <= NUM_COLS - 1, Near(s, col, i),
           \A m \in Int : m >= n /\ (out => m >= NUM_COLS - col) => BlankFrom(s, i, m)
    PROVE  \A p \in Places : p >= NUM_COLS * (s.y + 1) => s.cells[p] \in {SPACE, NUL}
<1>1. /\ Pos(s) \in Int /\ Pos(s) = NUM_COLS * s.y + s.x
      /\ NUM_COLS * (s.y + 1) = NUM_COLS * s.y + NUM_COLS
      /\ NUM_COLS * s.y \in Int /\ s.x \in Int /\ NUM_COLS \in Nat
  BY PosValue, ScreenAssumption DEF Screens
<1>2. PICK m \in Int : m = NUM_COLS * s.y + NUM_COLS - Pos(s) + i
  BY <1>1
<1>3. m >= n /\ m >= NUM_COLS - col
  BY <1>1, <1>2 DEF Near
<1>4. BlankFrom(s, i, m)
  BY <1>3
<1>5. \A p \in Places : p \in Int
  BY DEF Places
<1> QED BY <1>1, <1>2, <1>4, <1>5 DEF BlankFrom

\* The values of the next state: no handler is unfinished.
LEMMA QuietNext ==
    ASSUME pending' = << >>, NEW n \in Nat, NEW k \in Nat, bufferSIZE' = n, bufferIDX' = k
    PROVE  At' = k /\ Rest' = n - k /\ EndSIZE' = n /\ (Empty' <=> n = 0)
<1>1. EndSIZE' = n
  BY EndIndices
<1> QED BY <1>1 DEF At, Rest, Empty

\* One is, and the echo is complete.
LEMMA BusyNext ==
    ASSUME NEW n \in Nat,
           \/ pending' = <<"insert">> /\ bufferSIZE' = n - 1 /\ bufferIDX' \in Nat
           \/ pending' = <<"backspace">> /\ bufferSIZE' = n + 1 /\ bufferIDX' \in Nat \ {0}
    PROVE  /\ pending' = <<"insert">> => At' = n
           /\ pending' = <<"backspace">> => At' = n + 1
           /\ Rest' = 0 /\ EndSIZE' = n /\ ~Empty'
<1>1. CASE pending' = <<"insert">> /\ bufferSIZE' = n - 1 /\ bufferIDX' \in Nat
  <2>1. PICK k \in Nat : bufferIDX' = k - 1
    BY <1>1
  <2>2. EndSIZE' = n
    BY <1>1, <2>1, EndIndices
  <2> QED BY <1>1, <2>2 DEF At, Rest, Empty
<1>2. CASE pending' = <<"backspace">> /\ bufferSIZE' = n + 1 /\ bufferIDX' \in Nat \ {0}
  <2>1. PICK k \in Nat : bufferIDX' = k - (-1) /\ bufferSIZE' = n - (-1)
    BY <1>2
  <2>2. EndSIZE' = n
    BY <1>2, <2>1, EndIndices
  <2> QED BY <1>2, <2>2 DEF At, Rest, Empty
<1> QED BY <1>1, <1>2

-----------------------------------------------------------------------------
(* The inductive step.                                                     *)

\* A key leaves the line in the column it began in.
LEMMA KeyKeeps ==
    ASSUME ConsoleType, Key, screen' \in Screens,
           Empty' /\ start # Torn => Placed(screen', start, 0)
    PROVE  /\ start' = start /\ owed' = owed
           /\ clean' = (clean /\ (Short(start) \/ Empty'))
<1>1. Empty' /\ start # Torn => screen'.x % NUM_COLS = start
  <2> SUFFICES ASSUME Empty', start # Torn PROVE screen'.x % NUM_COLS = start
    OBVIOUS
  <2>1. start \in 0 .. NUM_COLS - 1 /\ screen'.x \in Int /\ NUM_COLS \in Nat
    BY ScreenAssumption DEF ConsoleType, Columns, Screens
  <2>2. Congruent(screen'.x, start + 0)
    BY DEF Placed
  <2>3. start + 0 = start
    BY <2>1
  <2> QED BY <2>1, <2>2, <2>3, CongruentMod
<1>2. start >= 0 <=> start # Torn
  BY ColumnValue DEF ConsoleType
<1>3. start' = start
  BY <1>1, <1>2 DEF Key
<1> QED BY <1>2, <1>3 DEF Key, TwoRows, Short

\* What a key has to establish.
LEMMA KeyStep ==
    ASSUME ScreenInv, Key,
           NEW t \in Screens, screen' = t,
           NEW i \in Int, NEW r \in Int, NEW n \in Int, n <= i + r,
           At' = i, Rest' = r, EndSIZE' = n, Empty' => i = 0 /\ n = 0,
           ~owed => t.vga = Pos(t),
           Drawn(t, start, i, r, buffer', n),
           clean /\ start # Torn /\ (Short(start) \/ Empty') =>
               /\ Near(t, start, i)
               /\ \A m \in Int : m >= n /\ (owed => m >= NUM_COLS - start) => BlankFrom(t, i, m),
           clean /\ start = Torn /\ Empty' =>
               \A p \in Places : p >= NUM_COLS * (t.y + 1) => t.cells[p] \in {SPACE, NUL}
    PROVE  ScreenInv'
<1>1. ConsoleType /\ start \in Columns /\ owed \in BOOLEAN /\ clean \in BOOLEAN
  BY DEF ScreenInv, ConsoleType
<1>2. /\ start' = start /\ owed' = owed
      /\ clean' = (clean /\ (Short(start) \/ Empty'))
  <2>1. Empty' /\ start # Torn => Placed(screen', start, 0)
    BY DEF Drawn
  <2> QED BY <1>1, <2>1, KeyKeeps
<1>3. ConsoleType'
  BY <1>1, <1>2 DEF ConsoleType
<1>4. CursorShown'
  BY <1>2 DEF CursorShown
<1>5. LineDrawn'
  BY <1>2 DEF LineDrawn
<1>6. CleanScreen'
  <2> SUFFICES ASSUME clean' PROVE Unspoilt(t, start, i, n, owed)
    BY <1>2 DEF CleanScreen
  <2>1. clean /\ (Short(start) \/ Empty')
    BY <1>2
  <2>2. Short(start) \/ n = 0
    BY <2>1
  <2>3. CASE start = Torn
    BY <2>1, <2>2, <2>3 DEF Unspoilt, Below, Short
  <2>4. CASE start # Torn
    <3>1. start \in 0 .. NUM_COLS - 1
      BY <1>1, <2>4 DEF Columns
    <3>2. /\ Near(t, start, i)
          /\ \A m \in Int : m >= n /\ (owed => m >= NUM_COLS - start) => BlankFrom(t, i, m)
      BY <2>1, <2>4
    <3>3. t.x + r <= NUM_COLS - 1
      BY <2>4 DEF Drawn
    <3>4. \A p \in Places : p >= NUM_COLS * (t.y + 1) => t.cells[p] \in {SPACE, NUL}
      BY <1>1, <3>1, <3>2, <3>3, NothingBelow
    <3> QED BY <2>2, <2>4, <3>2, <3>4 DEF Unspoilt, Below
  <2> QED BY <2>3, <2>4
<1> QED BY <1>3, <1>4, <1>5, <1>6 DEF ScreenInv

\* The characters of a line can be written.
LEMMA InkOfLine ==
    ASSUME NEW row, NEW n \in 0 .. MAX_CHARACTERS, IsLine(row, n)
    PROVE  \A j \in 0 .. n : j < n \/ n < MAX_CHARACTERS => row[j] \in Ink /\ row[j] # NEWLINE
BY BufferAssumption, CharsAssumption, NewlineAssumption, InkValue
   DEF IsLine, Bytes, Cells, MAX_CHARACTERS

\* The part of the invariant about the line between two keys.
LEMMA QuietScreen ==
    ASSUME CInv, pending = << >>
    PROVE  /\ bufferSIZE \in 0 .. MAX_CHARACTERS /\ bufferIDX \in 0 .. bufferSIZE
           /\ MAX_CHARACTERS \in Nat /\ bufferSIZE \in Nat /\ bufferIDX \in Nat
           /\ IsLine(buffer, bufferSIZE)
           /\ screen \in Screens /\ start \in Columns
           /\ start # Torn => start \in Nat
           /\ start # Torn => /\ Placed(screen, start, bufferIDX)
                              /\ screen.x + (bufferSIZE - bufferIDX) <= NUM_COLS - 1
           /\ Short(start) => /\ Near(screen, start, bufferIDX)
                              /\ Shows(screen, bufferIDX, buffer, bufferSIZE)
           /\ clean => Unspoilt(screen, start, bufferIDX, bufferSIZE, owed)
<1>1. /\ bufferSIZE \in 0 .. MAX_CHARACTERS /\ bufferIDX \in 0 .. bufferSIZE
      /\ IsLine(buffer, bufferSIZE)
  BY QuietLine DEF CInv, IInv
<1>2. MAX_CHARACTERS \in Nat /\ bufferSIZE \in Nat /\ bufferIDX \in Nat
  BY <1>1, BufferAssumption DEF MAX_CHARACTERS
<1>3. At = bufferIDX /\ Rest = bufferSIZE - bufferIDX /\ EndSIZE = bufferSIZE
  BY <1>2, PendingCounts DEF CInv, IInv, TypeOK, At, Rest, EndSIZE
<1>4. Drawn(screen, start, bufferIDX, bufferSIZE - bufferIDX, buffer, bufferSIZE)
  BY <1>3 DEF CInv, ScreenInv, LineDrawn
<1>5. clean => Unspoilt(screen, start, bufferIDX, bufferSIZE, owed)
  BY <1>3 DEF CInv, ScreenInv, CleanScreen
<1>6. screen \in Screens /\ start \in Columns /\ (start # Torn => start \in Nat)
  BY ScreenAssumption DEF CInv, ScreenInv, ConsoleType, Columns
<1> QED BY <1>1, <1>2, <1>4, <1>5, <1>6 DEF Drawn

\* Text from the i-th character of the line on is echoed.
LEMMA EchoDraws ==
    ASSUME NEW s \in Screens, NEW col \in Nat, NEW i \in Nat, NEW n \in Nat, i <= n, n <= MAX_CHARACTERS,
           NEW row, Inked(row, i, n),
           Placed(s, col, i), Short(col) => Near(s, col, i) /\ Shows(s, i, row, i),
           NEW t, Echoes(t, s, row, i, n)
    PROVE  /\ t \in Screens
           /\ Drawn(t, col, n, 0, row, n)
           /\ Short(col) => \A m \in Int : m >= n /\ BlankFrom(s, i, m) => BlankFrom(t, n, m)
<1>1. /\ t \in Screens
      /\ i = n => t = s
      /\ i < n => t.vga = Pos(t)
      /\ \A c \in Nat : Placed(s, c, i) =>
           /\ Placed(t, c, n)
           /\ Near(s, c, i) /\ c + MAX_CHARACTERS < 2 * NUM_COLS =>
                /\ Near(t, c, n)
                /\ Shows(s, i, row, i) => Shows(t, n, row, n)
                /\ \A m \in Int : m >= n /\ BlankFrom(s, i, m) => BlankFrom(t, n, m)
  BY WriteLine
<1>2. Placed(t, col, n) /\ t.x + 0 <= NUM_COLS - 1
  BY <1>1, ScreenAssumption DEF Placed, Screens
<1>3. Short(col) => Near(s, col, i) /\ col + MAX_CHARACTERS < 2 * NUM_COLS
  BY DEF Short
<1> QED BY <1>1, <1>2, <1>3 DEF Drawn

\* It leaves the VGA cursor behind it.
LEMMA EchoShown ==
    ASSUME NEW s \in Screens, NEW i \in Nat, NEW n \in Nat, i <= n, n <= MAX_CHARACTERS,
           NEW row, Inked(row, i, n), NEW t, Echoes(t, s, row, i, n)
    PROVE  t \in Screens /\ (i = n => t = s) /\ (i < n => t.vga = Pos(t))
<1>1. /\ t \in Screens
      /\ i = n => t = s
      /\ i < n => t.vga = Pos(t)
      /\ \A c \in Nat : Placed(s, c, i) =>
           /\ Placed(t, c, n)
           /\ Near(s, c, i) /\ c + MAX_CHARACTERS < 2 * NUM_COLS =>
                /\ Near(t, c, n)
                /\ Shows(s, i, row, i) => Shows(t, n, row, n)
                /\ \A m \in Int : m >= n /\ BlankFrom(s, i, m) => BlankFrom(t, n, m)
  BY WriteLine
<1> QED BY <1>1

\* keyboard_insert and its echo.
LEMMA InsertDraws ==
    ASSUME MaxPending = 0, CInv, NEW c \in Chars, Insert(c)
    PROVE  ScreenInv'
<1>1. InsertBegin(c) /\ Key /\ screen' = terminal_write(screen, Part(buffer', bufferIDX, bufferSIZE))
  BY DEF Insert
<1>0. pending = << >> /\ pending' = <<"insert">>
  <2>1. pending = << >>
    BY <1>1, PendingCounts DEF CInv, IInv, InsertBegin, CanInterrupt, TypeOK
  <2> QED BY <1>1, <2>1 DEF InsertBegin
<1> DEFINE idx == bufferIDX
           size == bufferSIZE
<1>2. /\ size \in 0 .. MAX_CHARACTERS /\ idx \in 0 .. size
      /\ MAX_CHARACTERS \in Nat /\ size \in Nat /\ idx \in Nat
      /\ IsLine(buffer, size)
      /\ screen \in Screens /\ start \in Columns
      /\ start # Torn => start \in Nat
      /\ start # Torn => /\ Placed(screen, start, idx)
                         /\ screen.x + (size - idx) <= NUM_COLS - 1
      /\ Short(start) => /\ Near(screen, start, idx)
                         /\ Shows(screen, idx, buffer, size)
      /\ clean => Unspoilt(screen, start, idx, size, owed)
  BY <1>0, QuietScreen
<1>3. size # MAX_CHARACTERS /\ size' = size /\ idx' = idx
  BY <1>1 DEF InsertBegin, LineFull
<1>4. PICK n \in 0 .. MAX_CHARACTERS : n = size + 1
  BY <1>2, <1>3
<1>5. n \in Nat /\ size = n - 1 /\ idx <= n
  BY <1>2, <1>4
<1>6. At' = n /\ Rest' = 0 /\ EndSIZE' = n /\ ~Empty'
  BY <1>0, <1>2, <1>3, <1>5, BusyNext
<1>7. PICK row : row = buffer'
  OBVIOUS
<1>8. IsLine(row, n) /\ \A j \in 0 .. idx - 1 : row[j] = buffer[j]
  <2>1. LineText'
    BY <1>1, InsertPreserves DEF CInv, IInv
  <2>2. \A j \in 0 .. idx - 1 : j \in Cells
    BY <1>2, BufferAssumption DEF Cells, MAX_CHARACTERS
  <2>3. \A j \in 0 .. idx - 1 : row[j] = buffer[j]
    BY <1>1, <1>2, <1>7, <2>2 DEF InsertBegin
  <2> QED BY <1>6, <1>7, <2>1, <2>3 DEF LineText, IsLine
<1>9. Inked(row, idx, n)
  BY <1>2, <1>5, <1>8, InkOfLine DEF Inked
<1>10. PICK t : Echoes(t, screen, row, idx, n) /\ screen' = t
  BY <1>1, <1>5, <1>7 DEF Echoes
<1> HIDE DEF idx, size
<1>11. t \in Screens /\ t.vga = Pos(t)
  <2>1. n <= MAX_CHARACTERS /\ idx < n
    BY <1>2, <1>5
  <2> QED BY <1>2, <1>5, <1>9, <1>10, <2>1, EchoShown
<1>12. ASSUME start # Torn
       PROVE  /\ Drawn(t, start, n, 0, row, n)
              /\ Short(start) => \A m \in Int : m >= n /\ BlankFrom(screen, idx, m) => BlankFrom(t, n, m)
  <2>1. Short(start) => Shows(screen, idx, row, idx)
    BY <1>2, <1>8 DEF Shows
  <2> QED BY <1>2, <1>5, <1>9, <1>10, <1>12, <2>1, EchoDraws
<1>13. Drawn(t, start, n, 0, row, n)
  BY <1>12 DEF Drawn, Short
<1>14. ASSUME clean, Short(start)
       PROVE  /\ Near(t, start, n)
              /\ \A m \in Int : m >= n /\ (owed => m >= NUM_COLS - start) => BlankFrom(t, n, m)
  <2>1. start # Torn /\ \A m \in Int : m >= size /\ (owed => m >= NUM_COLS - start) => BlankFrom(screen, idx, m)
    BY <1>2, <1>14 DEF Unspoilt, Below, Short
  <2>2. \A m \in Int : m >= n => m >= size
    BY <1>2, <1>5
  <2> QED BY <1>12, <1>14, <2>1, <2>2 DEF Drawn
<1>15. n \in Int /\ 0 \in Int /\ n <= n + 0
  BY <1>5
<1> QED BY <1>1, <1>6, <1>7, <1>10, <1>11, <1>13, <1>14, <1>15, KeyStep DEF CInv

\* keyboard_backspace and its echo.
LEMMA BackspaceDraws ==
    ASSUME MaxPending = 0, CInv, Edited, Backspace
    PROVE  ScreenInv'
<1>1. /\ BackspaceBegin /\ Key
      /\ screen' = terminal_write(terminal_backspace(screen), Part(buffer', bufferIDX - 1, bufferSIZE - 1))
  BY DEF Backspace
<1>2. pending = << >> /\ pending' = <<"backspace">>
  <2>1. pending = << >>
    BY <1>1, PendingCounts DEF CInv, IInv, BackspaceBegin, CanInterrupt, TypeOK
  <2> QED BY <1>1, <2>1 DEF BackspaceBegin
<1> DEFINE idx == bufferIDX
           size == bufferSIZE
<1>3. /\ size \in 0 .. MAX_CHARACTERS /\ idx \in 0 .. size
      /\ MAX_CHARACTERS \in Nat /\ size \in Nat /\ idx \in Nat
      /\ IsLine(buffer, size)
      /\ screen \in Screens /\ start \in Columns
      /\ start # Torn => start \in Nat
      /\ start # Torn => /\ Placed(screen, start, idx)
                         /\ screen.x + (size - idx) <= NUM_COLS - 1
      /\ Short(start) => /\ Near(screen, start, idx)
                         /\ Shows(screen, idx, buffer, size)
      /\ clean => Unspoilt(screen, start, idx, size, owed)
  BY <1>2, QuietScreen
<1>4. idx # 0 /\ size' = size /\ idx' = idx
  BY <1>1 DEF BackspaceBegin
<1>5. PICK k \in Nat : k = idx - 1
  BY <1>3, <1>4
<1>6. PICK n \in Nat : n = size - 1
  BY <1>3, <1>4
<1>7. /\ size = n + 1 /\ idx = k + 1 /\ k <= n /\ k <= size /\ size <= MAX_CHARACTERS /\ k < size
      /\ n \in 0 .. MAX_CHARACTERS /\ idx \in Nat \ {0}
  BY <1>3, <1>5, <1>6
<1>8. start # Torn /\ start \in Nat
  <2>1. size # 0
    BY <1>3, <1>7
  <2> QED BY <1>3, <2>1 DEF Edited, Torn
<1>9. At' = size /\ Rest' = 0 /\ EndSIZE' = n /\ ~Empty'
  BY <1>2, <1>4, <1>6, <1>7, BusyNext
<1>10. PICK row : row = buffer'
  OBVIOUS
<1>11. /\ IsLine(row, n) /\ \A j \in 0 .. k - 1 : row[j] = buffer[j]
       /\ row[n] = NUL
  <2>1. LineText'
    BY <1>1, BackspacePreserves DEF CInv, IInv
  <2>2. IsLine(row, n)
    BY <1>9, <1>10, <2>1 DEF LineText, IsLine
  <2>3. (\A j \in 0 .. k - 1 : j \in Cells) /\ n \in Cells
    BY <1>3, <1>7, BufferAssumption DEF Cells, MAX_CHARACTERS
  <2>4. \A j \in 0 .. k - 1 : row[j] = buffer[j]
    BY <1>1, <1>3, <1>5, <1>10, <2>3 DEF BackspaceBegin
  <2>5. row[n] = NUL
    BY <1>7, <2>2, <2>3 DEF IsLine
  <2> QED BY <2>2, <2>4, <2>5
<1>12. Inked(row, k, size)
  BY <1>3, <1>7, <1>11, InkOfLine DEF Inked
<1>13. PICK u : u = terminal_backspace(screen)
  OBVIOUS
<1>14. PICK t : Echoes(t, u, row, k, size) /\ screen' = t
  BY <1>1, <1>5, <1>10, <1>13 DEF Echoes
<1> HIDE DEF idx, size
<1>15. /\ u \in Screens /\ u.vga = Pos(u)
       /\ Placed(u, start, k)
       /\ Near(screen, start, idx) => Near(u, start, k)
       /\ \A b : \A q \in Int : q <= k /\ Shows(screen, idx, b, q) => Shows(u, k, b, q)
       /\ \A m \in Int : BlankFrom(screen, idx, m) => BlankFrom(u, k, m)
       /\ BlankFrom(screen, idx, idx) => BlankFrom(u, k, k)
  BY <1>3, <1>5, <1>7, <1>8, <1>13, EraseStep
<1>16. t \in Screens /\ t.vga = Pos(t)
  BY <1>3, <1>7, <1>12, <1>14, <1>15, EchoShown
<1>17. Short(start) => Near(u, start, k) /\ Shows(u, k, row, k)
  <2>1. Short(start) => Shows(screen, idx, row, k)
    BY <1>3, <1>7, <1>11 DEF Shows
  <2> QED BY <1>3, <1>15, <2>1
<1>18. /\ Drawn(t, start, size, 0, row, size)
       /\ Short(start) => \A m \in Int : m >= size /\ BlankFrom(u, k, m) => BlankFrom(t, size, m)
  BY <1>3, <1>7, <1>8, <1>12, <1>14, <1>15, <1>17, EchoDraws
<1>19. Drawn(t, start, size, 0, row, n)
  BY <1>7, <1>18 DEF Drawn, Shows
<1>20. ASSUME clean, Short(start)
       PROVE  /\ Near(t, start, size)
              /\ \A m \in Int : m >= n /\ (owed => m >= NUM_COLS - start) => BlankFrom(t, size, m)
  <2>1. \A m \in Int : m >= size /\ (owed => m >= NUM_COLS - start) => BlankFrom(t, size, m)
    BY <1>3, <1>8, <1>15, <1>18, <1>20 DEF Unspoilt, Below
  <2>2. ASSUME NEW m \in Int, m >= n, owed => m >= NUM_COLS - start
        PROVE  BlankFrom(t, size, m)
    <3>1. CASE m >= size
      BY <2>1, <2>2, <3>1
    <3>2. CASE m < size
      <4>1. m = n
        BY <1>7, <2>2, <3>2
      <4>2. BlankFrom(t, size, size)
        <5>1. size \in Int /\ size >= size /\ (owed => size >= NUM_COLS - start)
          BY <1>3, <1>8, <2>2, <3>2, ScreenAssumption
        <5> QED BY <2>1, <5>1
      <4>3. t.cells[Pos(t) - size + n] = NUL
        BY <1>7, <1>11, <1>18, <1>20 DEF Drawn, Shows
      <4>4. Pos(t) \in Int /\ \A p \in Places : p \in Int
        BY <1>16, PosValue DEF Places
      <4>5. ASSUME NEW p \in Places, p >= Pos(t) - size + m
            PROVE  p = Pos(t) - size + n \/ p >= Pos(t) - size + size
        BY <1>3, <1>7, <4>1, <4>4, <4>5
      <4> QED BY <4>2, <4>3, <4>5 DEF BlankFrom
    <3> QED BY <1>3, <2>2, <3>1, <3>2
  <2> QED BY <1>18, <1>20, <2>2 DEF Drawn
<1>21. size \in Int /\ 0 \in Int /\ n \in Int /\ n <= size + 0
  BY <1>3, <1>7
<1> QED BY <1>1, <1>9, <1>10, <1>14, <1>16, <1>19, <1>20, <1>21, KeyStep DEF CInv

\* A key that only moves the cursor by d places.
LEMMA MoveDraws ==
    ASSUME ScreenInv, Key, NEW d \in Int, NEW t, screen' = t, Moves(t, screen, d),
           NEW i \in Int, NEW k \in Int, NEW r \in Nat, NEW n \in Int, k = i - d, n <= k + r,
           At = i, EndSIZE = n, At' = k, Rest' = r, EndSIZE' = n, buffer' = buffer,
           Empty' => k = 0 /\ n = 0,
           start # Torn => screen.x - d + r <= NUM_COLS - 1
    PROVE  ScreenInv'
<1>1. screen \in Screens /\ start \in Columns /\ NUM_COLS \in Nat
  BY ScreenAssumption DEF ScreenInv, ConsoleType
<1>2. /\ t \in Screens /\ t.vga = Pos(t)
      /\ t.x = screen.x - d /\ t.y = screen.y /\ t.cells = screen.cells
      /\ \A col \in Int :
           /\ Placed(screen, col, i) /\ t.x <= NUM_COLS - 1 => Placed(t, col, k)
           /\ Near(screen, col, i) => Near(t, col, k)
      /\ \A b, q : Shows(screen, i, b, q) => Shows(t, k, b, q)
      /\ \A m : BlankFrom(screen, i, m) => BlankFrom(t, k, m)
  BY <1>1, MoveInLine
<1>3. Drawn(screen, start, i, Rest, buffer, n) /\ (clean => Unspoilt(screen, start, i, n, owed))
  BY DEF ScreenInv, LineDrawn, CleanScreen
<1>4. start # Torn => start \in Int
  BY <1>1 DEF Columns
<1>5. start # Torn => Placed(t, start, k) /\ t.x + r <= NUM_COLS - 1
  <2> SUFFICES ASSUME start # Torn PROVE Placed(t, start, k) /\ t.x + r <= NUM_COLS - 1
    OBVIOUS
  <2>1. t.x + r <= NUM_COLS - 1
    BY <1>2
  <2>3. Placed(screen, start, i)
    BY <1>3 DEF Drawn
  <2>4. t.x <= NUM_COLS - 1
    BY <1>1, <1>2, <2>1 DEF Screens
  <2> QED BY <1>2, <1>4, <2>1, <2>3, <2>4
<1>6. Drawn(t, start, k, r, buffer', n)
  BY <1>2, <1>3, <1>4, <1>5 DEF Drawn, Short
<1>7. clean /\ start # Torn =>
          /\ Near(t, start, k)
          /\ \A m \in Int : m >= n /\ (owed => m >= NUM_COLS - start) => BlankFrom(t, k, m)
  BY <1>2, <1>3, <1>4 DEF Unspoilt, Below
<1>8. clean => \A p \in Places : p >= NUM_COLS * (t.y + 1) => t.cells[p] \in {SPACE, NUL}
  BY <1>2, <1>3 DEF Unspoilt, Below
<1>9. n \in Int /\ k \in Int /\ r \in Int
  OBVIOUS
<1> QED BY <1>2, <1>6, <1>7, <1>8, <1>9, KeyStep

\* The arrows.
LEMMA ArrowsDraw ==
    ASSUME MaxPending = 0, CInv, Left \/ Right
    PROVE  ScreenInv'
<1>1. pending = << >> /\ pending' = << >> /\ Key /\ ScreenInv
      /\ buffer' = buffer /\ bufferSIZE' = bufferSIZE
  <2>1. pending = << >>
    BY PendingCounts DEF CInv, IInv, Left, Right, keyboard_left_arrow, keyboard_right_arrow, CanInterrupt, TypeOK
  <2> QED BY <2>1 DEF CInv, Left, Right, keyboard_left_arrow, keyboard_right_arrow
<1> DEFINE idx == bufferIDX
           size == bufferSIZE
<1>2. /\ size \in 0 .. MAX_CHARACTERS /\ idx \in 0 .. size
      /\ MAX_CHARACTERS \in Nat /\ size \in Nat /\ idx \in Nat
      /\ IsLine(buffer, size)
      /\ screen \in Screens /\ start \in Columns
      /\ start # Torn => start \in Nat
      /\ start # Torn => /\ Placed(screen, start, idx)
                         /\ screen.x + (size - idx) <= NUM_COLS - 1
      /\ Short(start) => /\ Near(screen, start, idx)
                         /\ Shows(screen, idx, buffer, size)
      /\ clean => Unspoilt(screen, start, idx, size, owed)
  BY <1>1, QuietScreen
<1>3. PICK d \in {1, -1} : /\ idx' = idx - d /\ idx - d \in 0 .. size
                           /\ Moves(screen', screen, d)
  <2>1. CASE Left
    <3>1. idx' = idx - 1 /\ idx - 1 \in 0 .. size /\ screen' = cursor_update_left(screen, 1)
      BY <1>2, <2>1 DEF Left, keyboard_left_arrow
    <3> QED BY <3>1 DEF Moves
  <2>2. CASE Right
    <3>1. idx' = idx + 1 /\ idx # size /\ screen' = cursor_update_right(screen, 1)
      BY <2>2 DEF Right, keyboard_right_arrow
    <3>2. PICK d \in Int : d + 1 = 0
      OBVIOUS
    <3>6. -d = 1
      BY <3>2
    <3>7. d \in {1, -1}
      BY <3>2
    <3>3. idx + 1 = idx - d
      BY <1>2, <3>2
    <3>4. idx + 1 \in 0 .. size
      BY <1>2, <3>1
    <3> HIDE DEF idx, size
    <3>5. Moves(screen', screen, d)
      BY <3>1, <3>6 DEF Moves
    <3> QED BY <3>1, <3>7, <3>3, <3>4, <3>5
  <2> QED BY <2>1, <2>2
<1>4. PICK k \in Nat : k = idx - d /\ idx' = k /\ k <= size
  BY <1>2, <1>3
<1>5. At = idx /\ EndSIZE = size
  BY <1>1, <1>2, PendingCounts DEF CInv, IInv, TypeOK, At, EndSIZE
<1>6. At' = k /\ Rest' = size - k /\ EndSIZE' = size /\ (Empty' <=> size = 0)
  BY <1>1, <1>2, <1>4, QuietNext
<1>7. PICK r \in Nat : r = size - k
  BY <1>2, <1>4
<1> HIDE DEF idx, size
<1>8. /\ d \in Int /\ idx \in Int /\ k \in Int /\ size \in Int /\ size <= k + r
      /\ size = 0 => k = 0
  BY <1>2, <1>3, <1>4, <1>7
<1>9. start # Torn => screen.x - d + r <= NUM_COLS - 1
  BY <1>2, <1>4, <1>7, <1>8, ScreenAssumption DEF Screens
<1>10. PICK t : t = screen'
  OBVIOUS
<1>11. Moves(t, screen, d) /\ Rest' = r /\ (Empty' => k = 0 /\ size = 0)
  BY <1>3, <1>6, <1>7, <1>8, <1>10
<1> QED BY <1>1, <1>4, <1>5, <1>6, <1>8, <1>9, <1>10, <1>11, MoveDraws

\* keyboard_insert and keyboard_backspace move the cursor back to its place.
LEMMA FinishDraws ==
    ASSUME MaxPending = 0, CInv, Finish
    PROVE  ScreenInv'
<1>1. HandlerEnd /\ Key /\ ScreenInv /\ screen' = cursor_update_left(screen, StepBack)
      /\ buffer' = buffer
  BY DEF CInv, Finish, HandlerEnd
<1>2. /\ EndSIZE \in 0 .. MAX_CHARACTERS /\ EndIDX \in 0 .. EndSIZE /\ IsLine(buffer, EndSIZE)
      /\ bufferSIZE' = EndSIZE /\ bufferIDX' = EndIDX /\ pending' = << >>
  BY <1>1, HandlerFinishes DEF CInv
<1>3. bufferSIZE \in Nat /\ bufferIDX \in Nat /\ MAX_CHARACTERS \in Nat
  BY BufferAssumption DEF CInv, IInv, TypeOK, MAX_CHARACTERS
<1>4. /\ Rest = 0
      /\ EndSIZE - EndIDX = bufferSIZE - bufferIDX
      /\ \/ pending = <<"insert">> /\ At = bufferSIZE + 1 /\ EndSIZE = bufferSIZE + 1
         \/ pending = <<"backspace">> /\ At = bufferSIZE /\ EndSIZE = bufferSIZE - 1
  <2>1. pending # << >>
    BY <1>1 DEF HandlerEnd
  <2>2. CASE pending = <<"insert">>
    BY <1>3, <2>2, PendingCounts DEF CInv, IInv, TypeOK, At, Rest, EndSIZE, EndIDX
  <2>3. CASE pending = <<"backspace">>
    BY <1>3, <2>3, PendingCounts DEF CInv, IInv, TypeOK, At, Rest, EndSIZE, EndIDX
  <2> QED BY <2>1, <2>2, <2>3, PendingCounts DEF CInv, IInv, TypeOK
<1>5. PICK i \in Nat : At = i
  BY <1>3, <1>4
<1>6. PICK n \in Nat : EndSIZE = n
  BY <1>2
<1>7. PICK k \in Nat : EndIDX = k /\ k <= n
  BY <1>2, <1>6
<1>8. At' = k /\ Rest' = n - k /\ EndSIZE' = n /\ (Empty' <=> n = 0)
  BY <1>2, <1>6, <1>7, QuietNext
<1>9. PICK d \in Int : d = StepBack /\ k = i - d /\ d >= n - k
  <2>1. CASE pending = <<"insert">>
    <3>1. pending[Len(pending)] = "insert"
      BY <2>1
    <3>2. StepBack = bufferSIZE - bufferIDX + 0
      BY <3>1 DEF StepBack
    <3>3. At = bufferSIZE + 1 /\ EndSIZE = bufferSIZE + 1
      BY <1>4, <2>1
    <3> QED BY <1>3, <1>4, <1>5, <1>6, <1>7, <3>2, <3>3
  <2>2. CASE pending = <<"backspace">>
    <3>1. pending[Len(pending)] = "backspace"
      BY <2>2
    <3>2. StepBack = bufferSIZE - bufferIDX + 1
      BY <3>1 DEF StepBack
    <3>3. At = bufferSIZE /\ EndSIZE = bufferSIZE - 1
      BY <1>4, <2>2
    <3> QED BY <1>3, <1>4, <1>5, <1>6, <1>7, <3>2, <3>3
  <2> QED BY <1>4, <2>1, <2>2
<1>10. PICK r \in Nat : r = n - k /\ Rest' = r
  BY <1>7, <1>8
<1>11. PICK t : t = screen' /\ Moves(t, screen, d)
  BY <1>1, <1>9 DEF Moves
<1>12. start # Torn => screen.x - d + r <= NUM_COLS - 1
  <2>1. start # Torn => screen.x + 0 <= NUM_COLS - 1
    BY <1>1, <1>4 DEF ScreenInv, LineDrawn, Drawn
  <2>2. screen.x \in Int
    BY <1>1 DEF ScreenInv, ConsoleType, Screens
  <2> QED BY <1>9, <1>10, <2>1, <2>2, ScreenAssumption
<1>13. n <= k + r /\ (Empty' => k = 0 /\ n = 0) /\ i \in Int /\ k \in Int /\ n \in Int
  BY <1>7, <1>8, <1>10
<1> QED BY <1>1, <1>5, <1>6, <1>8, <1>9, <1>10, <1>11, <1>12, <1>13, MoveDraws

\* An empty line at the beginning of a row.
LEMMA FreshLine ==
    ASSUME NEW t \in Screens, t.x = 0, NEW row
    PROVE  /\ Drawn(t, 0, 0, 0, row, 0)
           /\ BlankFrom(t, 0, 0) => \A out \in BOOLEAN : Unspoilt(t, 0, 0, 0, out)
<1>1. /\ Pos(t) \in Int /\ Pos(t) = NUM_COLS * t.y + t.x
      /\ NUM_COLS * t.y >= 0 /\ NUM_COLS * t.y \in Int
      /\ NUM_COLS * (t.y + 1) = NUM_COLS * t.y + NUM_COLS
      /\ NUM_COLS \in Nat \ {0}
  BY PosValue, ScreenAssumption DEF Screens
<1>2. Congruent(t.x, 0 + 0)
  <2>1. t.x = 0 + 0 + 0 * NUM_COLS
    BY <1>1
  <2> QED BY <2>1 DEF Congruent
<1>3. Placed(t, 0, 0) /\ Near(t, 0, 0) /\ Shows(t, 0, row, 0) /\ t.x + 0 <= NUM_COLS - 1
  BY <1>1, <1>2 DEF Placed, Near, Shows
<1>4. Drawn(t, 0, 0, 0, row, 0)
  BY <1>3 DEF Drawn
<1>5. ASSUME BlankFrom(t, 0, 0), NEW out \in BOOLEAN PROVE Unspoilt(t, 0, 0, 0, out)
  <2>1. \A p \in Places : p \in Int
    BY DEF Places
  <2>2. \A m \in Int : m >= 0 => BlankFrom(t, 0, m)
    BY <1>1, <1>5, <2>1 DEF BlankFrom
  <2>3. \A p \in Places : p >= NUM_COLS * (t.y + 1) => t.cells[p] \in {SPACE, NUL}
    BY <1>1, <1>5, <2>1 DEF BlankFrom
  <2> QED BY <1>3, <2>2, <2>3 DEF Unspoilt, Below
<1> QED BY <1>4, <1>5

\* next_line, with the cursor shown.
LEMMA NextRowBlank ==
    ASSUME NEW s \in Screens, NEW t, t = cursor_update(next_line(s))
    PROVE  /\ t \in Screens /\ t.vga = Pos(t) /\ t.x = 0
           /\ Below(s) => BlankFrom(t, 0, 0)
<1>1. PICK u : u = next_line(s)
  OBVIOUS
<1>2. /\ u \in Screens
      /\ u.x = 0
      /\ \/ /\ s.y < NUM_ROWS - 1
            /\ u.y = s.y + 1
            /\ u.cells = s.cells
         \/ /\ s.y = NUM_ROWS - 1
            /\ u.y = s.y
            /\ \A p \in Places : u.cells[p] =
                   IF p + NUM_COLS \in Places THEN s.cells[p + NUM_COLS] ELSE SPACE
  BY <1>1, NextLineValue
<1>3. /\ t \in Screens
      /\ t.x = u.x - 0 /\ t.y = u.y /\ t.cells = u.cells
      /\ Pos(t) = Pos(u) - 0
      /\ t.vga = Pos(t)
  BY <1>1, <1>2, CursorValue
<1>4. t.x = 0
  BY <1>2, <1>3
<1>5. /\ Pos(t) = NUM_COLS * t.y + t.x
      /\ NUM_COLS * (s.y + 1) = NUM_COLS * s.y + NUM_COLS
      /\ NUM_COLS * s.y \in Int /\ s.y \in Int
      /\ NUM_COLS \in Nat \ {0} /\ NUM_ROWS \in Nat \ {0}
  BY <1>3, PosValue, ScreenAssumption DEF Screens
<1>6. ASSUME Below(s), NEW p \in Places, p >= Pos(t) - 0 + 0
      PROVE  t.cells[p] \in {SPACE, NUL}
  <2>1. p \in Int /\ p >= NUM_COLS * t.y
    BY <1>3, <1>4, <1>5, <1>6 DEF Places, Screens
  <2>2. CASE s.y < NUM_ROWS - 1
    <3>1. t.y = s.y + 1 /\ t.cells = s.cells
      BY <1>2, <1>3, <1>5, <2>2
    <3> QED BY <1>6, <2>1, <3>1 DEF Below
  <2>3. CASE s.y = NUM_ROWS - 1
    <3>1. /\ t.y = NUM_ROWS - 1
          /\ t.cells[p] = IF p + NUM_COLS \in Places THEN s.cells[p + NUM_COLS] ELSE SPACE
      BY <1>2, <1>3, <1>5, <2>3
    <3>2. NUM_COLS * (NUM_ROWS - 1) + NUM_COLS = NUM_ROWS * NUM_COLS
      BY <1>5
    <3>3. p + NUM_COLS >= NUM_ROWS * NUM_COLS /\ NUM_ROWS * NUM_COLS \in Int
      BY <1>5, <2>1, <3>1, <3>2
    <3>4. p + NUM_COLS \notin Places
      BY <1>5, <2>1, <3>3 DEF Places
    <3> QED BY <3>1, <3>4
  <2> QED BY <1>2, <1>5, <2>2, <2>3
<1> QED BY <1>3, <1>4, <1>6 DEF BlankFrom

\* A new row begins: the line with it, when it is empty.
LEMMA NewRowDraws ==
    ASSUME CInv, NewRow, screen' = cursor_update(next_line(screen)), owed' \in BOOLEAN,
           Empty' => bufferIDX' = 0
    PROVE  ScreenInv'
<1>1. screen \in Screens /\ clean \in BOOLEAN /\ (clean => Below(screen))
  BY DEF CInv, ScreenInv, ConsoleType, CleanScreen, Unspoilt, Below
<1>0. start # Lost
  BY ColumnValue DEF CInv, ScreenInv, ConsoleType
<1>2. PICK t : t = screen'
  OBVIOUS
<1>3. /\ t \in Screens /\ t.vga = Pos(t) /\ t.x = 0
      /\ Below(screen) => BlankFrom(t, 0, 0)
  BY <1>1, <1>2, NextRowBlank
<1>4. CASE Empty'
  <2>1. start' = 0 /\ clean' = clean
    BY <1>0, <1>1, <1>4 DEF NewRow, Begins
  <2>2. At' = 0 /\ Rest' = 0 - 0 /\ EndSIZE' = 0
    BY <1>4, QuietNext DEF Empty
  <2>3. Rest' = 0
    BY <2>2
  <2>4. Drawn(t, 0, 0, 0, buffer', 0) /\ (clean => Unspoilt(t, 0, 0, 0, owed'))
    BY <1>1, <1>3, FreshLine
  <2>5. 0 \in Columns
    BY ScreenAssumption DEF Columns
  <2> QED BY <1>1, <1>2, <1>3, <2>1, <2>2, <2>3, <2>4, <2>5
          DEF ScreenInv, ConsoleType, CursorShown, LineDrawn, CleanScreen
<1>5. CASE ~Empty'
  <2>1. start' = Torn /\ clean' = FALSE
    BY <1>0, <1>5 DEF NewRow, Begins
  <2> QED BY <1>2, <1>3, <2>1
          DEF ScreenInv, ConsoleType, CursorShown, LineDrawn, CleanScreen, Drawn, Short, Columns
<1> QED BY <1>4, <1>5

\* clear_keyboard_buffer, and what it is part of.
LEMMA ClearedNext ==
    ASSUME MaxPending = 0, IInv, ClearKey \/ EnterKey \/ StartProgram
    PROVE  /\ pending = << >> /\ pending' = << >>
           /\ bufferSIZE' = 0 /\ bufferIDX' = 0
           /\ At' = 0 /\ Rest' = 0 /\ EndSIZE' = 0 /\ Empty'
<1>1. CanInterrupt /\ clear_keyboard_buffer /\ pending' = pending
  BY DEF ClearKey, EnterKey, StartProgram
<1>2. pending = << >>
  BY <1>1, PendingCounts DEF IInv, CanInterrupt, TypeOK
<1>3. pending' = << >> /\ bufferSIZE' = 0 /\ bufferIDX' = 0
  BY <1>1, <1>2 DEF clear_keyboard_buffer
<1>4. At' = 0 /\ Rest' = 0 - 0 /\ EndSIZE' = 0 /\ (Empty' <=> 0 = 0)
  BY <1>3, QuietNext
<1> QED BY <1>2, <1>3, <1>4

\* Ctrl-L.
LEMMA ClearDraws ==
    ASSUME MaxPending = 0, LInv, Clear
    PROVE  ScreenInv'
<1>1. ClearKey /\ screen' = terminal_clear(screen) /\ start' = 0 /\ clean' = TRUE /\ owed' = owed
  BY DEF Clear
<1>2. screen \in Adrift /\ owed \in BOOLEAN
  BY DEF LInv
<1>3. At' = 0 /\ Rest' = 0 /\ EndSIZE' = 0
  BY <1>1, ClearedNext DEF LInv
<1> DEFINE blank == [i \in Places |-> SPACE]
<1>4. PICK v : v = clear(screen)
  OBVIOUS
<1>5. v \in Adrift /\ v.cells = blank /\ blank \in [Places -> Ink]
  <2>1. blank \in [Places -> Ink]
    BY InkValue
  <2>2. v = [cells |-> blank, x |-> screen.x, y |-> screen.y, vga |-> screen.vga]
    BY <1>2, <1>4 DEF Adrift, clear
  <2> HIDE DEF blank
  <2> QED BY <1>2, <2>1, <2>2 DEF Adrift
<1>6. PICK u \in Screens : u.x = 0 /\ u.cells = blank /\ screen' = cursor_update(u)
  <2>1. PICK w : w = [v EXCEPT !.x = 0, !.y = 0]
    OBVIOUS
  <2> HIDE DEF blank
  <2>2. w = [cells |-> blank, x |-> 0, y |-> 0, vga |-> v.vga]
    BY <1>5, <2>1 DEF Adrift
  <2>3. w \in Screens /\ w.x = 0 /\ w.cells = blank
    BY <1>5, <2>2, ScreenAssumption DEF Screens, Adrift
  <2> QED BY <1>1, <1>4, <2>1, <2>3 DEF terminal_clear
<1>7. PICK t : t = screen'
  OBVIOUS
<1>8. /\ t \in Screens
      /\ t.x = u.x - 0 /\ t.y = u.y /\ t.cells = u.cells
      /\ Pos(t) = Pos(u) - 0
      /\ t.vga = Pos(t)
  BY <1>6, <1>7, CursorValue
<1>9. t.x = 0 /\ BlankFrom(t, 0, 0)
  BY <1>6, <1>8 DEF BlankFrom
<1>10. Drawn(t, 0, 0, 0, buffer', 0) /\ Unspoilt(t, 0, 0, 0, owed)
  BY <1>2, <1>8, <1>9, FreshLine
<1>11. 0 \in Columns
  BY ScreenAssumption DEF Columns
<1> QED BY <1>1, <1>2, <1>3, <1>7, <1>8, <1>10, <1>11
        DEF ScreenInv, ConsoleType, CursorShown, LineDrawn, CleanScreen

\* The line is gone and the screen as it was.
LEMMA TornDraws ==
    ASSUME CInv, start' = Torn, UNCHANGED <<screen, owed, clean>>, EndSIZE' = 0
    PROVE  ScreenInv'
BY DEF CInv, ScreenInv, ConsoleType, CursorShown, LineDrawn, CleanScreen, Drawn, Unspoilt, Below, Short, Columns

\* The return key and the start of a program.
LEMMA EnterDraws ==
    ASSUME MaxPending = 0, CInv, Enter \/ Starts
    PROVE  ScreenInv'
<1>1. CASE Enter /\ ~return_switch
  <2>1. EnterKey /\ screen' = cursor_update(next_line(screen)) /\ NewRow /\ owed' = owed
    BY <1>1 DEF Enter
  <2>2. bufferIDX' = 0
    BY <2>1, ClearedNext DEF CInv
  <2>3. owed' \in BOOLEAN
    BY <2>1 DEF CInv, ScreenInv, ConsoleType
  <2> QED BY <2>1, <2>2, <2>3, NewRowDraws
<1>2. CASE Enter /\ return_switch
  <2>1. EnterKey /\ start' = Torn /\ UNCHANGED <<screen, owed, clean>>
    <3>1. start # Lost
      BY ColumnValue DEF CInv, ScreenInv, ConsoleType
    <3> QED BY <1>2, <3>1 DEF Enter, Begins
  <2> QED BY <2>1, ClearedNext, TornDraws DEF CInv
<1>3. CASE Starts
  <2>1. StartProgram /\ start' = Torn /\ UNCHANGED <<screen, owed, clean>>
    BY <1>3 DEF Starts
  <2> QED BY <2>1, ClearedNext, TornDraws DEF CInv
<1> QED BY <1>1, <1>2, <1>3

\* The next_line at the end of terminal_read and of a write.
LEMMA ReturnDraws ==
    ASSUME CInv, ReadReturns \/ WriteReturns
    PROVE  ScreenInv'
<1>1. /\ screen' = cursor_update(next_line(screen)) /\ NewRow
      /\ UNCHANGED <<bufVars, pending>> /\ owed' \in BOOLEAN
  BY DEF CInv, ScreenInv, ConsoleType, ReadReturns, WriteReturns, ReadEnd, vars
<1>2. Empty' => bufferIDX' = 0
  <2>1. Empty => bufferIDX = 0
    BY QuietScreen DEF Empty
  <2> QED BY <1>1, <2>1 DEF Empty, bufVars
<1> QED BY <1>1, <1>2, NewRowDraws

\* The line and the screen are left alone.
LEMMA StillDraws ==
    ASSUME CInv, UNCHANGED <<screen, owed, start, clean>>, UNCHANGED <<bufVars, pending>>
    PROVE  ScreenInv'
<1>1. At' = At /\ Rest' = Rest /\ EndSIZE' = EndSIZE /\ buffer' = buffer
  BY DEF At, Rest, EndSIZE, Ahead, Behind, bufVars
<1> QED BY <1>1 DEF CInv, ScreenInv, ConsoleType, CursorShown, LineDrawn, CleanScreen

\* reset_terminal_keyboard_input of an empty line only shows the cursor.
LEMMA EraseNothing ==
    ASSUME NEW s \in Screens, NEW u, u = reset_terminal_keyboard_input(s, 0, 0)
    PROVE  u \in Screens /\ u.vga = Pos(u) /\ u.y = s.y /\ u.cells = s.cells
<1>1. PICK w : IsErasure(w, s, 0, 0)
  BY EraseRuns
<1>2. u = cursor_update_right(s, 0 - 0)
  BY <1>1 DEF IsErasure
<1>3. PICK d \in Int : -d = 0 - 0
  <2>1. PICK d \in Int : d = 0
    OBVIOUS
  <2> QED BY <2>1
<1>4. u = cursor_update_right(s, -d)
  BY <1>2, <1>3
<1> QED BY <1>4, CursorValue

\* On a screen where nothing follows the line, nothing is left of it.
LEMMA EraseClean ==
    ASSUME NEW s \in Screens, NEW idx \in Nat, NEW size \in Nat, idx <= size,
           NEW col \in Nat, Placed(s, col, idx), s.x + (size - idx) <= NUM_COLS - 1,
           NEW u, u = reset_terminal_keyboard_input(s, idx, size),
           NEW out \in BOOLEAN,
           \A m \in Int : m >= size /\ (out => m >= NUM_COLS - col) => BlankFrom(s, idx, m)
    PROVE  \A m \in Nat : (out => m >= NUM_COLS - col) => BlankFrom(u, 0, m)
<1>1. /\ u \in Screens /\ u.vga = Pos(u)
      /\ Placed(u, col, 0)
      /\ Near(s, col, idx) => Near(u, col, 0)
      /\ \A m \in Int : BlankFrom(s, idx, m) => BlankFrom(u, 0, m)
      /\ BlankFrom(s, idx, size) => BlankFrom(u, 0, 0)
  BY EraseLine
<1> SUFFICES ASSUME NEW m \in Nat, out => m >= NUM_COLS - col PROVE BlankFrom(u, 0, m)
  OBVIOUS
<1>2. CASE m >= size
  BY <1>1, <1>2
<1>3. CASE m < size
  <2>1. size \in Int /\ size >= size /\ (out => size >= NUM_COLS - col)
    BY <1>3, ScreenAssumption
  <2>2. BlankFrom(u, 0, 0)
    BY <1>1, <2>1
  <2>3. Pos(u) \in Int /\ \A p \in Places : p \in Int
    BY <1>1, PosValue DEF Places
  <2> QED BY <2>2, <2>3 DEF BlankFrom
<1> QED BY <1>2, <1>3

\* The line shown is replaced by the one recalled.
LEMMA RecallDraws ==
    ASSUME CInv, Edited, Key, IInv', pending = << >>, pending' = << >>,
           bufferIDX' = bufferSIZE', screen' = Recalled
    PROVE  ScreenInv'
<1> DEFINE idx == bufferIDX
           size == bufferSIZE
<1>1. /\ size \in 0 .. MAX_CHARACTERS /\ idx \in 0 .. size
      /\ MAX_CHARACTERS \in Nat /\ size \in Nat /\ idx \in Nat
      /\ IsLine(buffer, size)
      /\ screen \in Screens /\ start \in Columns
      /\ start # Torn => start \in Nat
      /\ start # Torn => /\ Placed(screen, start, idx)
                         /\ screen.x + (size - idx) <= NUM_COLS - 1
      /\ Short(start) => /\ Near(screen, start, idx)
                         /\ Shows(screen, idx, buffer, size)
      /\ clean => Unspoilt(screen, start, idx, size, owed)
  BY QuietScreen
<1>2. PICK n \in Nat : bufferSIZE' = n /\ bufferIDX' = n
  BY BufferAssumption DEF IInv, TypeOK
<1>3. At' = n /\ Rest' = 0 /\ EndSIZE' = n /\ (Empty' <=> n = 0)
  <2>1. At' = n /\ Rest' = n - n /\ EndSIZE' = n /\ (Empty' <=> n = 0)
    BY <1>2, QuietNext
  <2> QED BY <2>1
<1>4. PICK row : row = buffer'
  OBVIOUS
<1>5. n <= MAX_CHARACTERS /\ n \in 0 .. MAX_CHARACTERS /\ IsLine(row, n)
  BY <1>1, <1>3, <1>4 DEF IInv, LineFits, LineText, IsLine
<1>6. Inked(row, 0, n)
  BY <1>1, <1>5, InkOfLine DEF Inked
<1>7. PICK u : u = reset_terminal_keyboard_input(screen, idx, size)
  OBVIOUS
<1>8. PICK t : t = screen' /\ Echoes(t, u, row, 0, n)
  BY <1>2, <1>4, <1>7 DEF Recalled, Echoes
<1> HIDE DEF idx, size
<1>9. idx <= size /\ 0 <= n /\ owed \in BOOLEAN /\ n \in Int /\ 0 \in Int /\ 0 \in Nat /\ n <= n + 0 /\ ScreenInv
  BY <1>1 DEF CInv, ScreenInv, ConsoleType
<1>10. CASE start # Torn
  <2>1. /\ u \in Screens /\ u.vga = Pos(u)
        /\ Placed(u, start, 0)
        /\ Near(screen, start, idx) => Near(u, start, 0)
        /\ \A m \in Int : BlankFrom(screen, idx, m) => BlankFrom(u, 0, m)
        /\ BlankFrom(screen, idx, size) => BlankFrom(u, 0, 0)
    BY <1>1, <1>7, <1>9, <1>10, EraseLine
  <2>2. t \in Screens /\ (0 = n => t = u) /\ (0 < n => t.vga = Pos(t))
    BY <1>5, <1>6, <1>8, <1>9, <2>1, EchoShown
  <2>3. t.vga = Pos(t)
    BY <1>9, <2>1, <2>2
  <2>4. Short(start) => Near(u, start, 0) /\ Shows(u, 0, row, 0)
    BY <1>1, <2>1 DEF Shows
  <2>5. /\ Drawn(t, start, n, 0, row, n)
        /\ Short(start) => \A m \in Int : m >= n /\ BlankFrom(u, 0, m) => BlankFrom(t, n, m)
    BY <1>1, <1>5, <1>6, <1>8, <1>9, <1>10, <2>1, <2>4, EchoDraws
  <2>6. ASSUME clean, Short(start) \/ Empty'
        PROVE  /\ Near(t, start, n)
               /\ \A m \in Int : m >= n /\ (owed => m >= NUM_COLS - start) => BlankFrom(t, n, m)
    <3>1. \A m \in Int : m >= size /\ (owed => m >= NUM_COLS - start) => BlankFrom(screen, idx, m)
      BY <1>1, <1>10, <2>6 DEF Unspoilt, Below
    <3>2. \A m \in Nat : (owed => m >= NUM_COLS - start) => BlankFrom(u, 0, m)
      BY <1>1, <1>7, <1>9, <1>10, <3>1, EraseClean
    <3>3. \A m \in Int : m >= n => m \in Nat
      BY <1>9
    <3>4. CASE Short(start)
      BY <2>5, <3>2, <3>3, <3>4 DEF Drawn
    <3>5. CASE Empty'
      <4>1. n = 0 /\ t = u
        BY <1>3, <2>2, <3>5
      <4>2. Near(u, start, 0)
        BY <1>1, <1>10, <2>1, <2>6 DEF Unspoilt, Below
      <4> QED BY <3>2, <3>3, <4>1, <4>2
    <3> QED BY <2>6, <3>4, <3>5
  <2>7. Empty' => n = 0
    BY <1>3
  <2> QED BY <1>3, <1>4, <1>8, <1>9, <1>10, <2>2, <2>3, <2>5, <2>6, <2>7, KeyStep
<1>11. CASE start = Torn
  <2>1. size = 0 /\ idx = 0
    <3>1. size = 0
      BY <1>11 DEF Edited, size, Torn
    <3> QED BY <1>1, <3>1
  <2>2. u \in Screens /\ u.vga = Pos(u) /\ u.y = screen.y /\ u.cells = screen.cells
    BY <1>1, <1>7, <2>1, EraseNothing
  <2>3. t \in Screens /\ (0 = n => t = u) /\ (0 < n => t.vga = Pos(t))
    BY <1>5, <1>6, <1>8, <1>9, <2>2, EchoShown
  <2>4. t.vga = Pos(t)
    BY <1>9, <2>2, <2>3
  <2>5. Drawn(t, start, n, 0, row, n)
    BY <1>11 DEF Drawn, Short
  <2>6. clean /\ start = Torn /\ Empty' =>
            \A p \in Places : p >= NUM_COLS * (t.y + 1) => t.cells[p] \in {SPACE, NUL}
    BY <1>1, <1>3, <2>2, <2>3 DEF Unspoilt, Below
  <2>7. Empty' => n = 0
    BY <1>3
  <2> QED BY <1>3, <1>4, <1>8, <1>9, <1>11, <2>3, <2>4, <2>5, <2>6, <2>7, KeyStep
<1> QED BY <1>10, <1>11

\* up_history and down_history.
LEMMA HistoryDraws ==
    ASSUME MaxPending = 0, CInv, Edited, Up \/ Down
    PROVE  ScreenInv'
<1>1. pending = << >> /\ pending' = << >> /\ Key
  <2>1. pending = << >>
    BY PendingCounts DEF CInv, IInv, Up, Down, up_history, down_history, CanInterrupt, TypeOK
  <2> QED BY <2>1 DEF Up, Down, up_history, down_history
<1>2. IInv'
  BY UpPreserves, DownPreserves DEF CInv, Up, Down
<1>3. CASE Up /\ historyIDX' = historyIDX
  <2>1. Previous(historyIDX) = historyBASE
    <3>1. historyIDX \in Rows /\ historyBASE \in Rows
      BY DEF CInv, IInv, TypeOK
    <3>2. ASSUME Previous(historyIDX) # historyBASE PROVE FALSE
      <4>1. Previous(historyIDX) = historyIDX
        BY <1>3, <3>2 DEF Up, up_history
      <4>2. NUM_HISTORY_BUFFERS = 1
        BY <3>1, <4>1, HistoryAssumption DEF Previous, Rows
      <4> QED BY <3>1, <3>2, <4>2 DEF Previous, Rows
    <3> QED BY <3>2
  <2>2. UNCHANGED <<bufVars, pending>> /\ screen' = screen
    BY <1>1, <1>3, <2>1 DEF Up, up_history
  <2>3. Empty' /\ start # Torn => Placed(screen', start, 0)
    <3>1. Empty' => Empty
      BY <2>2 DEF Empty, bufVars
    <3>2. Empty /\ start # Torn => Placed(screen, start, 0)
      BY QuietScreen DEF Empty
    <3> QED BY <2>2, <3>1, <3>2
  <2>4. start' = start /\ owed' = owed /\ clean' = (clean /\ (Short(start) \/ Empty'))
    BY <1>1, <2>2, <2>3, KeyKeeps DEF CInv, ScreenInv, ConsoleType
  <2>5. At' = At /\ Rest' = Rest /\ EndSIZE' = EndSIZE /\ buffer' = buffer
    BY <2>2 DEF At, Rest, EndSIZE, Ahead, Behind, bufVars
  <2> QED BY <2>2, <2>4, <2>5 DEF CInv, ScreenInv, ConsoleType, CursorShown, LineDrawn, CleanScreen
<1>4. CASE (Up /\ historyIDX' # historyIDX) \/ Down
  <2>1. bufferIDX' = bufferSIZE' /\ screen' = Recalled
    BY <1>4 DEF Up, Down, up_history, down_history, LoadLine
  <2> QED BY <1>1, <1>2, <2>1, RecallDraws
<1> QED BY <1>3, <1>4

\* The column of a position the remainder of putc leaves.
LEMMA ColumnOf ==
    ASSUME NEW x \in Int, -NUM_COLS < x, x < NUM_COLS
    PROVE  /\ x % NUM_COLS \in 0 .. NUM_COLS - 1
           /\ x = x % NUM_COLS \/ x = (x % NUM_COLS) - NUM_COLS
BY ScreenAssumption

\* A program writes a character.
LEMMA WriteDraws ==
    ASSUME CInv, NEW c \in Output \ {RETURN}, Write(c)
    PROVE  ScreenInv'
<1>1. /\ ~owed /\ owed' = EndsRow(screen, c) /\ UNCHANGED <<bufVars, pending>>
      /\ screen' = IF EndsRow(screen, c) THEN Shown(screen, c) ELSE cursor_update(Shown(screen, c))
      /\ start' = IF Empty /\ start # Torn THEN screen'.x % NUM_COLS ELSE Torn
      /\ clean' = (clean /\ Empty /\ start # Torn)
  <2>1. start >= 0 <=> start # Torn
    BY ColumnValue DEF CInv, ScreenInv, ConsoleType
  <2> QED BY <2>1 DEF Write, vars
<1>2. screen \in Screens /\ screen.x \in Int /\ NUM_COLS \in Nat \ {0} /\ c \in Ink
      /\ start \in Columns /\ clean \in BOOLEAN /\ EndsRow(screen, c) \in BOOLEAN
  BY ScreenAssumption DEF CInv, ScreenInv, ConsoleType, Screens, Ink, EndsRow
<1>3. At' = At /\ Rest' = Rest /\ EndSIZE' = EndSIZE /\ buffer' = buffer
  BY <1>1 DEF At, Rest, EndSIZE, Ahead, Behind, bufVars
<1>4. PICK u : u = Shown(screen, c)
  OBVIOUS
<1>5. u \in Screens
  <2>1. c # NEWLINE => putc(screen, c) \in Screens
    BY <1>2, PutcValue
  <2> QED BY <1>2, <1>4, <2>1 DEF Shown
<1>6. PICK t : t = screen'
  OBVIOUS
<1>7. ASSUME ~EndsRow(screen, c)
      PROVE  /\ t \in Screens
             /\ t.x = u.x - 0 /\ t.y = u.y /\ t.cells = u.cells
             /\ Pos(t) = Pos(u) - 0
             /\ t.vga = Pos(t)
  BY <1>1, <1>4, <1>5, <1>6, <1>7, CursorValue
<1>8. t \in Screens /\ (~EndsRow(screen, c) => t.vga = Pos(t)) /\ (EndsRow(screen, c) => t = u)
  BY <1>1, <1>4, <1>5, <1>6, <1>7
<1>9. CASE ~(Empty /\ start # Torn)
  BY <1>1, <1>2, <1>6, <1>8, <1>9
     DEF ScreenInv, ConsoleType, CursorShown, LineDrawn, CleanScreen, Drawn, Short, Columns
<1>10. CASE Empty /\ start # Torn
  <2>1. At = 0 /\ Rest = 0 /\ EndSIZE = 0
    <3>1. pending = << >> /\ bufferSIZE = 0 /\ bufferIDX = 0
      BY <1>10, QuietScreen DEF Empty
    <3> QED BY <3>1, PendingCounts DEF CInv, IInv, TypeOK, At, Rest, EndSIZE
  <2>2. start \in 0 .. NUM_COLS - 1
    BY <1>2, <1>10 DEF Columns
  <2>3. /\ Placed(screen, start, 0) /\ screen.x <= NUM_COLS - 1 /\ Pos(screen) >= 0
        /\ clean => Unspoilt(screen, start, 0, 0, owed)
    BY <1>1, <1>10, <2>1 DEF CInv, ScreenInv, LineDrawn, CleanScreen, Drawn, Placed
  <2>4. start' = t.x % NUM_COLS /\ clean' = clean
    BY <1>1, <1>2, <1>6, <1>10
  <2>5. SUFFICES /\ start' \in 0 .. NUM_COLS - 1
                 /\ Drawn(t, start', 0, 0, buffer, 0)
                 /\ clean => Unspoilt(t, start', 0, 0, EndsRow(screen, c))
    BY <1>1, <1>2, <1>3, <1>6, <1>8, <2>1, <2>4
       DEF ScreenInv, ConsoleType, CursorShown, LineDrawn, CleanScreen, Columns
  <2>6. CASE c = NEWLINE
    <3>1. t = screen /\ EndsRow(screen, c)
      BY <1>4, <1>8, <2>6 DEF Shown, EndsRow
    <3>2. start' = start
      <4>1. Congruent(screen.x, start + 0) /\ start + 0 = start
        BY <2>2, <2>3, <1>2 DEF Placed
      <4>2. screen.x % NUM_COLS = start
        BY <1>2, <2>2, <4>1, CongruentMod
      <4> QED BY <2>4, <3>1, <4>2
    <3>3. Drawn(t, start', 0, 0, buffer, 0)
      BY <1>3, <2>1, <3>1, <3>2 DEF CInv, ScreenInv, LineDrawn
    <3>4. clean => Unspoilt(t, start', 0, 0, EndsRow(screen, c))
      BY <2>3, <3>1, <3>2 DEF Unspoilt, Below
    <3> QED BY <2>2, <3>2, <3>3, <3>4
  <2>7. CASE c # NEWLINE
    <3>1. /\ u.cells = Store(screen, Pos(screen), c)
          /\ u.x = Rem(screen.x + 1, NUM_COLS)
          /\ u.y = screen.y
      BY <1>2, <1>4, <2>7, PutcValue DEF Shown
    <3>2. /\ Rem(screen.x + 1, NUM_COLS) \in Int
          /\ -NUM_COLS < Rem(screen.x + 1, NUM_COLS) /\ Rem(screen.x + 1, NUM_COLS) < NUM_COLS
          /\ -NUM_COLS <= screen.x + 1 /\ screen.x + 1 < NUM_COLS /\ screen.x + 1 # -NUM_COLS =>
                Rem(screen.x + 1, NUM_COLS) = screen.x + 1
          /\ screen.x + 1 = NUM_COLS \/ screen.x + 1 = -NUM_COLS => Rem(screen.x + 1, NUM_COLS) = 0
          /\ screen.x + 1 < NUM_COLS => Rem(screen.x + 1, NUM_COLS) >= screen.x + 1
          /\ Congruent(Rem(screen.x + 1, NUM_COLS), screen.x + 1)
      <4>1. PICK a \in Int : a = screen.x + 1
        BY <1>2
      <4>2. /\ Rem(a, NUM_COLS) \in Int
            /\ -NUM_COLS < Rem(a, NUM_COLS) /\ Rem(a, NUM_COLS) < NUM_COLS
            /\ -NUM_COLS <= a /\ a < NUM_COLS /\ a # -NUM_COLS => Rem(a, NUM_COLS) = a
            /\ a = NUM_COLS \/ a = -NUM_COLS => Rem(a, NUM_COLS) = 0
            /\ a < NUM_COLS => Rem(a, NUM_COLS) >= a
            /\ Congruent(Rem(a, NUM_COLS), a)
        BY RemValue
      <4> QED BY <4>1, <4>2
    <3>3. \A q \in Places : u.cells[q] = IF q = Pos(screen) THEN c ELSE screen.cells[q]
      BY <1>2, <3>1, PosValue, StoreValue
    <3>4. /\ Pos(screen) = NUM_COLS * screen.y + screen.x /\ Pos(u) = NUM_COLS * u.y + u.x
          /\ NUM_COLS * screen.y \in Int /\ NUM_COLS * screen.y >= 0 /\ Pos(screen) \in Int
          /\ NUM_COLS * (screen.y + 1) = NUM_COLS * screen.y + NUM_COLS
      BY <1>2, <1>5, PosValue, ScreenAssumption DEF Screens
    <3>5. \A p \in Places : p \in Int
      BY DEF Places
    <3>6. CASE screen.x = NUM_COLS - 1
      <4>1. EndsRow(screen, c) /\ t = u /\ u.x = 0
        BY <1>2, <1>8, <3>1, <3>2, <3>6 DEF EndsRow
      <4>2. start' = 0
        BY <1>2, <2>4, <4>1
      <4>3. Drawn(t, 0, 0, 0, buffer, 0)
        BY <1>8, <4>1, FreshLine
      <4>4. ASSUME clean PROVE Unspoilt(t, 0, 0, 0, TRUE)
        <5>1. \A p \in Places : p >= NUM_COLS * (screen.y + 1) => screen.cells[p] \in {SPACE, NUL}
          BY <2>3, <4>4 DEF Unspoilt, Below
        <5>2. \A p \in Places : p >= NUM_COLS * (t.y + 1) => t.cells[p] \in {SPACE, NUL}
          BY <1>2, <3>1, <3>3, <3>4, <3>5, <3>6, <4>1, <5>1
        <5>3. ASSUME NEW m \in Int, m >= NUM_COLS - 0 PROVE BlankFrom(t, 0, m)
          BY <1>2, <3>1, <3>4, <3>5, <4>1, <5>2, <5>3 DEF BlankFrom
        <5> QED BY <4>1, <5>2, <5>3 DEF Unspoilt, Below, Near
      <4>5. 0 \in 0 .. NUM_COLS - 1
        BY <1>2
      <4> QED BY <4>1, <4>2, <4>3, <4>4, <4>5
    <3>7. CASE screen.x # NUM_COLS - 1
      <4>1. ~EndsRow(screen, c)
        BY <2>7, <3>7 DEF EndsRow
      <4>2. /\ t.x = u.x /\ t.y = u.y /\ t.cells = u.cells /\ Pos(t) = Pos(u)
            /\ t.x \in Int /\ Pos(t) \in Int
        BY <1>5, <1>7, <3>4, <4>1, PosValue DEF Screens
      <4>3. screen.x + 1 < NUM_COLS
        BY <1>2, <2>3, <3>7
      <4>4. /\ t.x < NUM_COLS /\ -NUM_COLS < t.x /\ t.x >= screen.x + 1
            /\ Pos(t) >= Pos(screen) + 1
        BY <1>2, <3>1, <3>2, <3>4, <4>2, <4>3
      <4>5. PICK col \in 0 .. NUM_COLS - 1 : start' = col /\ (t.x = col \/ t.x = col - NUM_COLS)
        BY <2>4, <4>2, <4>4, ColumnOf
      <4>6. Near(t, col, 0) /\ Congruent(t.x, col + 0)
        <5>1. PICK j \in Int : t.x = col + 0 + j * NUM_COLS
          <6>1. t.x = col + 0 + 0 * NUM_COLS \/ t.x = col + 0 + (-1) * NUM_COLS
            BY <1>2, <4>5
          <6> QED BY <6>1
        <5>2. Congruent(t.x, col + 0)
          BY <5>1 DEF Congruent
        <5> QED BY <1>2, <4>5, <5>2 DEF Near
      <4>7. Placed(t, col, 0) /\ t.x + 0 <= NUM_COLS - 1
        BY <1>2, <2>3, <3>4, <4>2, <4>4, <4>6 DEF Placed
      <4>8. Drawn(t, col, 0, 0, buffer, 0)
        BY <4>6, <4>7 DEF Drawn, Shows
      <4>9. ASSUME clean PROVE Unspoilt(t, col, 0, 0, EndsRow(screen, c))
        <5>1. Near(screen, start, 0) /\ \A m \in Int : m >= 0 => BlankFrom(screen, 0, m)
          BY <1>1, <1>10, <2>3, <4>9 DEF Unspoilt, Below
        <5>2. t.x = screen.x + 1 /\ Pos(t) = Pos(screen) + 1
          BY <1>2, <2>2, <3>1, <3>2, <3>4, <4>2, <4>3, <5>1 DEF Near
        <5>3. ASSUME NEW m \in Int, m >= 0 PROVE BlankFrom(t, 0, m)
          BY <3>3, <3>4, <3>5, <4>2, <5>1, <5>2, <5>3 DEF BlankFrom
        <5>4. \A p \in Places : p >= NUM_COLS * (t.y + 1) => t.cells[p] \in {SPACE, NUL}
          <6>1. NUM_COLS * (t.y + 1) = NUM_COLS * screen.y + NUM_COLS
            BY <3>1, <3>4, <4>2
          <6>2. \A p \in Places : p >= NUM_COLS * (t.y + 1) => p >= Pos(t) - 0 + 0
            BY <1>2, <3>4, <3>5, <4>2, <4>3, <5>2, <6>1
          <6>3. BlankFrom(t, 0, 0)
            BY <5>3
          <6> QED BY <6>2, <6>3 DEF BlankFrom
        <5> QED BY <4>6, <5>3, <5>4 DEF Unspoilt, Below
      <4> QED BY <4>1, <4>5, <4>8, <4>9
    <3> QED BY <3>6, <3>7
  <2> QED BY <2>6, <2>7
<1> QED BY <1>9, <1>10

\* A line end in putc above the last row.
LEMMA LineEndValue ==
    ASSUME NEW s \in Screens, s.y < NUM_ROWS - 1, NEW t, t = LineEnd(s)
    PROVE  /\ t \in Screens /\ t.x = 0 /\ t.y = s.y + 1 /\ t.cells = s.cells /\ t.vga = s.vga
           /\ Below(s) => BlankFrom(t, 0, 0)
<1>1. t = [cells |-> s.cells, x |-> 0, y |-> s.y + 1, vga |-> s.vga]
  BY DEF LineEnd, Screens
<1>2. t \in Screens
  BY <1>1, ScreenAssumption DEF Screens
<1>3. Pos(t) = NUM_COLS * (s.y + 1) + 0 /\ NUM_COLS * (s.y + 1) \in Int
  BY <1>1, ScreenAssumption DEF Pos, Screens
<1>4. Below(s) => BlankFrom(t, 0, 0)
  BY <1>1, <1>3 DEF Below, BlankFrom, Places
<1> QED BY <1>1, <1>2, <1>4

\* A program writes a '\r' above the last row.
LEMMA CarriageDraws ==
    ASSUME CInv, Write(RETURN), ~Overruns(RETURN)
    PROVE  ScreenInv'
<1>1. /\ ~owed /\ owed' = EndsRow(screen, RETURN) /\ UNCHANGED <<bufVars, pending>>
      /\ screen' = IF EndsRow(screen, RETURN) THEN LineEnd(screen)
                   ELSE cursor_update(LineEnd(screen))
      /\ start' = IF Empty /\ start # Torn THEN screen'.x % NUM_COLS ELSE Torn
      /\ clean' = (clean /\ Empty /\ start # Torn)
  <2>1. start >= 0 <=> start # Torn
    BY ColumnValue DEF CInv, ScreenInv, ConsoleType
  <2>2. Shown(screen, RETURN) = LineEnd(screen)
    BY BlankAssumption DEF Shown, putc
  <2> QED BY <2>1, <2>2 DEF Write, vars
<1>2. /\ screen \in Screens /\ screen.y < NUM_ROWS - 1 /\ NUM_COLS \in Nat \ {0}
      /\ start \in Columns /\ clean \in BOOLEAN /\ EndsRow(screen, RETURN) \in BOOLEAN
  BY ScreenAssumption DEF CInv, ScreenInv, ConsoleType, Screens, EndsRow, Overruns
<1>3. At' = At /\ Rest' = Rest /\ EndSIZE' = EndSIZE /\ buffer' = buffer
  BY <1>1 DEF At, Rest, EndSIZE, Ahead, Behind, bufVars
<1>4. PICK u : u = LineEnd(screen)
  OBVIOUS
<1>5. u \in Screens /\ u.x = 0 /\ (Below(screen) => BlankFrom(u, 0, 0))
  BY <1>2, <1>4, LineEndValue
<1>6. PICK t : t = screen'
  OBVIOUS
<1>7. ASSUME ~EndsRow(screen, RETURN)
      PROVE  /\ t \in Screens
             /\ t.x = u.x - 0 /\ t.y = u.y /\ t.cells = u.cells
             /\ Pos(t) = Pos(u) - 0
             /\ t.vga = Pos(t)
  BY <1>1, <1>4, <1>5, <1>6, <1>7, CursorValue
<1>8. /\ t \in Screens /\ t.x = 0 /\ (~EndsRow(screen, RETURN) => t.vga = Pos(t))
      /\ Below(screen) => BlankFrom(t, 0, 0)
  <2>1. CASE EndsRow(screen, RETURN)
    BY <1>1, <1>4, <1>5, <1>6, <2>1
  <2>2. CASE ~EndsRow(screen, RETURN)
    <3>1. Pos(u) \in Int
      BY <1>5, PosValue
    <3>2. t.x = 0 /\ Pos(t) = Pos(u) /\ t.cells = u.cells
      BY <1>5, <1>7, <2>2, <3>1
    <3> QED BY <1>5, <1>7, <2>2, <3>2 DEF BlankFrom
  <2> QED BY <2>1, <2>2
<1>9. CASE ~(Empty /\ start # Torn)
  BY <1>1, <1>2, <1>6, <1>8, <1>9
     DEF ScreenInv, ConsoleType, CursorShown, LineDrawn, CleanScreen, Drawn, Short, Columns
<1>10. CASE Empty /\ start # Torn
  <2>1. At = 0 /\ Rest = 0 /\ EndSIZE = 0
    <3>1. pending = << >> /\ bufferSIZE = 0 /\ bufferIDX = 0
      BY <1>10, QuietScreen DEF Empty
    <3> QED BY <3>1, PendingCounts DEF CInv, IInv, TypeOK, At, Rest, EndSIZE
  <2>2. start' = 0 /\ clean' = clean
    BY <1>1, <1>2, <1>6, <1>8, <1>10
  <2>3. clean => Below(screen)
    BY DEF CInv, ScreenInv, CleanScreen, Unspoilt
  <2>4. Drawn(t, 0, 0, 0, buffer', 0) /\ (clean => Unspoilt(t, 0, 0, 0, owed'))
    BY <1>1, <1>2, <1>8, <2>3, FreshLine
  <2>5. 0 \in Columns
    BY ScreenAssumption DEF Columns
  <2> QED BY <1>1, <1>2, <1>3, <1>6, <1>8, <2>1, <2>2, <2>4, <2>5
          DEF ScreenInv, ConsoleType, CursorShown, LineDrawn, CleanScreen
<1> QED BY <1>9, <1>10

\* A fault above the last row: the line is torn, and the VGA cursor left behind.
LEMMA FaultDraws ==
    ASSUME CInv, NEW c \in Chars, Fault(c), ~Overruns(NEWLINE)
    PROVE  ScreenInv'
<1>1. /\ screen' = putc(putc(screen, c), NEWLINE) /\ start' = Torn /\ clean' = FALSE
      /\ owed' = owed
  BY DEF Fault
<1>2. screen \in Screens /\ screen.y < NUM_ROWS - 1 /\ owed \in BOOLEAN
  BY ScreenAssumption DEF CInv, ScreenInv, ConsoleType, Screens, Overruns
<1>3. c \in Ink /\ c # NEWLINE
  BY InkValue, CharsAssumption, NewlineAssumption DEF Bytes
<1>4. PICK u : u = putc(screen, c)
  OBVIOUS
<1>5. u \in Screens /\ u.y = screen.y
  BY <1>2, <1>3, <1>4, PutcValue
<1>6. screen' = LineEnd(u)
  BY <1>1, <1>4 DEF putc
<1>7. screen' \in Screens
  <2>1. PICK t : t = LineEnd(u)
    OBVIOUS
  <2>2. t \in Screens
    BY <1>2, <1>5, <2>1, LineEndValue
  <2> QED BY <1>6, <2>1, <2>2
<1> QED BY <1>1, <1>2, <1>7
        DEF ScreenInv, ConsoleType, CursorShown, LineDrawn, CleanScreen, Drawn, Short, Columns

-----------------------------------------------------------------------------
(* The lost cursor.                                                        *)

\* What is still called then keeps a screen's types.
LEMMA AdriftKept ==
    ASSUME NEW s \in Adrift, NEW n \in Int
    PROVE  /\ cursor_update(s) \in Adrift /\ cursor_update_left(s, n) \in Adrift
           /\ next_line(s) \in Adrift /\ LineEnd(s) \in Adrift
<1>1. \A u \in Adrift : cursor_update(u) \in Adrift
  <2> SUFFICES ASSUME NEW u \in Adrift PROVE cursor_update(u) \in Adrift
    OBVIOUS
  <2>1. Pos(u) \in Int
    BY ScreenAssumption DEF Pos, Adrift
  <2> QED BY <2>1 DEF cursor_update, Adrift
<1>2. [s EXCEPT !.x = @ - n] \in Adrift
  BY DEF Adrift
<1>3. cursor_update_left(s, n) \in Adrift
  BY <1>1, <1>2 DEF cursor_update_left
<1>4. LineEnd(s) \in Adrift /\ [s EXCEPT !.x = 0, !.y = @ + 1] \in Adrift
  <2>1. PICK u : u = [s EXCEPT !.x = 0, !.y = @ + 1]
    OBVIOUS
  <2>2. u = [cells |-> s.cells, x |-> 0, y |-> s.y + 1, vga |-> s.vga]
    BY <2>1 DEF Adrift
  <2>3. u \in Adrift
    BY <2>2 DEF Adrift
  <2> QED BY <2>1, <2>3 DEF LineEnd
<1>5. scroll(s) \in Adrift
  <2> DEFINE moved == [i \in Places |-> IF i + NUM_COLS \in Places
                                        THEN s.cells[i + NUM_COLS] ELSE SPACE]
  <2>1. moved \in [Places -> Ink]
    BY InkValue DEF Adrift
  <2>2. scroll(s) = [s EXCEPT !.cells = moved, !.x = 0]
    BY DEF scroll
  <2> HIDE DEF moved
  <2>3. PICK u : u = [s EXCEPT !.cells = moved, !.x = 0]
    OBVIOUS
  <2>4. u = [cells |-> moved, x |-> 0, y |-> s.y, vga |-> s.vga]
    BY <2>3 DEF Adrift
  <2>5. u \in Adrift
    BY <2>1, <2>4 DEF Adrift
  <2> QED BY <2>2, <2>3, <2>5
<1>6. next_line(s) \in Adrift
  BY <1>4, <1>5 DEF next_line
<1> QED BY <1>1, <1>3, <1>4, <1>6

\* A lost cursor stays lost, but for Ctrl-L.
LEMMA LostStays ==
    ASSUME LInv, start = Lost, [ConsoleNext]_consoleVars, ~Clear
    PROVE  start' = Lost /\ screen' \in Adrift /\ owed' \in BOOLEAN
<1>1. screen \in Adrift /\ owed \in BOOLEAN /\ IInv
  BY DEF LInv
<1>2. CASE Finish
  <2>1. StepBack \in Int
    BY <1>1 DEF StepBack, IInv, TypeOK
  <2>2. ~(start >= 0)
    BY DEF Lost
  <2>3. start' = start /\ owed' = owed /\ screen' = cursor_update_left(screen, StepBack)
    BY <1>2, <2>2 DEF Finish, Key
  <2> QED BY <1>1, <2>1, <2>3, AdriftKept
<1>3. CASE Enter \/ ReadReturns \/ WriteReturns
  <2>1. start' = Lost /\ (owed' = owed \/ owed' = FALSE)
        /\ (screen' = screen \/ screen' = cursor_update(next_line(screen)))
    BY <1>3 DEF Enter, ReadReturns, WriteReturns, NewRow, Begins
  <2>2. next_line(screen) \in Adrift
    BY <1>1, AdriftKept
  <2>3. cursor_update(next_line(screen)) \in Adrift
    BY <2>2, AdriftKept
  <2> QED BY <1>1, <2>1, <2>3
<1>4. CASE UNCHANGED consoleVars
  BY <1>1, <1>4 DEF consoleVars
<1> QED BY <1>2, <1>3, <1>4 DEF ConsoleNext

\* The cursor is lost, by a '\r' of a program ...
LEMMA CarriageLoses ==
    ASSUME CInv, Write(RETURN), Overruns(RETURN)
    PROVE  start' = Lost /\ screen' \in Adrift /\ owed' \in BOOLEAN
<1>1. screen \in Adrift
  BY ScreenAssumption DEF CInv, ScreenInv, ConsoleType, Screens, Adrift
<1>2. Shown(screen, RETURN) = LineEnd(screen)
  BY BlankAssumption DEF Shown, putc
<1>3. LineEnd(screen) \in Adrift
  BY <1>1, AdriftKept
<1>4. cursor_update(LineEnd(screen)) \in Adrift
  BY <1>3, AdriftKept
<1> QED BY <1>2, <1>3, <1>4 DEF Write, EndsRow

\* ... or by the message of a fault.
LEMMA FaultLoses ==
    ASSUME CInv, NEW c \in Chars, Fault(c), Overruns(NEWLINE)
    PROVE  start' = Lost /\ screen' \in Adrift /\ owed' \in BOOLEAN
<1>1. screen \in Screens /\ owed \in BOOLEAN
  BY DEF CInv, ScreenInv, ConsoleType
<1>2. c \in Ink /\ c # NEWLINE
  BY InkValue, CharsAssumption, NewlineAssumption DEF Bytes
<1>3. putc(screen, c) \in Screens
  BY <1>1, <1>2, PutcValue
<1>4. putc(screen, c) \in Adrift
  BY <1>3, ScreenAssumption DEF Screens, Adrift
<1>5. LineEnd(putc(screen, c)) \in Adrift
  BY <1>4, AdriftKept
<1>6. putc(putc(screen, c), NEWLINE) = LineEnd(putc(screen, c))
  BY DEF putc
<1> QED BY <1>1, <1>5, <1>6 DEF Fault

-----------------------------------------------------------------------------
(* The theorems about the console.                                         *)

\* The blank screen at boot.
LEMMA ConsoleInitEstablishes == ConsoleInit => CInv
<1> SUFFICES ASSUME ConsoleInit PROVE CInv
  OBVIOUS
<1>1. Init /\ owed = FALSE /\ start = 0 /\ clean = TRUE
      /\ screen = [cells |-> [i \in Places |-> SPACE], x |-> 0, y |-> 0, vga |-> 0]
  BY DEF ConsoleInit
<1>2. IInv
  BY <1>1, InitEstablishes
<1>3. At = 0 /\ Rest = 0 /\ EndSIZE = 0
  <2>1. pending = << >> /\ bufferSIZE = 0 /\ bufferIDX = 0
    BY <1>1 DEF Init
  <2> QED BY <1>2, <2>1, PendingCounts DEF IInv, TypeOK, At, Rest, EndSIZE
<1> DEFINE blank == [i \in Places |-> SPACE]
<1>4. screen \in Screens /\ screen.x = 0 /\ screen.y = 0 /\ screen.vga = 0 /\ screen.cells = blank
  <2>1. blank \in [Places -> Ink]
    BY InkValue
  <2>2. screen = [cells |-> blank, x |-> 0, y |-> 0, vga |-> 0]
    BY <1>1
  <2> HIDE DEF blank
  <2> QED BY <2>1, <2>2, ScreenAssumption DEF Screens
<1>5. BlankFrom(screen, 0, 0)
  BY <1>4 DEF BlankFrom
<1>6. Pos(screen) = 0 /\ 0 \in Columns
  BY <1>4, ScreenAssumption DEF Pos, Columns
<1>7. Drawn(screen, 0, 0, 0, buffer, 0) /\ Unspoilt(screen, 0, 0, 0, owed)
  BY <1>1, <1>4, <1>5, FreshLine
<1>8. ScreenInv
  BY <1>1, <1>3, <1>4, <1>6, <1>7 DEF ScreenInv, ConsoleType, CursorShown, LineDrawn, CleanScreen
<1> QED BY <1>2, <1>8 DEF CInv

\* Every action of the console is one of the line editor, or leaves it alone.
LEMMA ConsoleStepEdits ==
    ASSUME [ConsoleNext]_consoleVars
    PROVE  [Next]_vars
BY DEF ConsoleNext, consoleVars, Next, Insert, Backspace, Left, Right, Up, Down, Finish, Clear,
       Enter, Reads, ReadReturns, Write, WriteReturns, Fault, Starts

\* Every action keeps the invariant, or loses the cursor.
LEMMA ConsoleStepDraws ==
    ASSUME CInv, [ConsoleNext]_consoleVars
    PROVE  \/ ScreenInv'
           \/ start' = Lost /\ screen' \in Adrift /\ owed' \in BOOLEAN
<1>1. MaxPending = 0
  BY OneHandlerAssumption
<1>2. LInv
  <2>1. screen \in Screens /\ owed \in BOOLEAN
    BY DEF CInv, ScreenInv, ConsoleType
  <2>2. screen \in Adrift
    BY <2>1, ScreenAssumption DEF Screens, Adrift
  <2> QED BY <2>1, <2>2 DEF CInv, LInv
<1>3. CASE \E c \in Chars : Insert(c)
  BY <1>1, <1>3, InsertDraws
<1>4. CASE Edited /\ Backspace
  BY <1>1, <1>4, BackspaceDraws
<1>5. CASE Left \/ Right
  BY <1>1, <1>5, ArrowsDraw
<1>6. CASE Edited /\ (Up \/ Down)
  BY <1>1, <1>6, HistoryDraws
<1>7. CASE Finish
  BY <1>1, <1>7, FinishDraws
<1>8. CASE Clear
  BY <1>1, <1>2, <1>8, ClearDraws
<1>9. CASE Enter \/ Starts
  BY <1>1, <1>9, EnterDraws
<1>10. CASE \E n \in ReadSizes : Reads(n)
  <2>1. UNCHANGED <<screen, owed, start, clean>> /\ UNCHANGED <<bufVars, pending>>
    BY <1>10 DEF Reads, ReadBegin
  <2> QED BY <2>1, StillDraws
<1>11. CASE ReadReturns \/ WriteReturns
  BY <1>11, ReturnDraws
<1>12. CASE \E c \in Output : Write(c)
  <2>1. PICK c \in Output : Write(c)
    BY <1>12
  <2>2. CASE c # RETURN
    BY <2>1, <2>2, WriteDraws
  <2>3. CASE c = RETURN
    <3>1. Write(RETURN)
      BY <2>1, <2>3
    <3>2. CASE Overruns(RETURN)
      BY <3>1, <3>2, CarriageLoses
    <3>3. CASE ~Overruns(RETURN)
      BY <3>1, <3>3, CarriageDraws
    <3> QED BY <3>2, <3>3
  <2> QED BY <2>2, <2>3
<1>14. CASE \E c \in Chars : Fault(c)
  <2>1. PICK c \in Chars : Fault(c)
    BY <1>14
  <2>2. CASE Overruns(NEWLINE)
    BY <2>1, <2>2, FaultLoses
  <2>3. CASE ~Overruns(NEWLINE)
    BY <2>1, <2>3, FaultDraws
  <2> QED BY <2>2, <2>3
<1>13. CASE UNCHANGED consoleVars
  <2>1. UNCHANGED <<screen, owed, start, clean>> /\ UNCHANGED <<bufVars, pending>>
    BY <1>13 DEF consoleVars, vars
  <2> QED BY <2>1, StillDraws
<1> QED BY <1>3, <1>4, <1>5, <1>6, <1>7, <1>8, <1>9, <1>10, <1>11, <1>12, <1>13, <1>14 DEF ConsoleNext

LEMMA ConsoleStepPreserves ==
    ASSUME LInv, [ConsoleNext]_consoleVars
    PROVE  LInv'
<1>1. IInv'
  BY OneHandlerAssumption, ConsoleStepEdits, StepPreserves DEF LInv
<1>2. ScreenInv' => screen' \in Adrift /\ owed' \in BOOLEAN
  <2> SUFFICES ASSUME ScreenInv' PROVE screen' \in Adrift /\ owed' \in BOOLEAN
    OBVIOUS
  <2>1. screen' \in Screens /\ owed' \in BOOLEAN
    BY DEF ScreenInv, ConsoleType
  <2> QED BY <2>1, ScreenAssumption DEF Screens, Adrift
<1>3. CASE start # Lost
  <2>1. CInv
    BY <1>3 DEF LInv, CInv
  <2> QED BY <1>1, <1>2, <2>1, ConsoleStepDraws DEF LInv
<1>4. CASE start = Lost
  <2>1. CASE Clear
    <3>1. ScreenInv'
      BY <2>1, OneHandlerAssumption, ClearDraws
    <3> QED BY <1>1, <1>2, <3>1 DEF LInv
  <2>2. CASE ~Clear
    BY <1>1, <1>4, <2>2, LostStays DEF LInv
  <2> QED BY <2>1, <2>2
<1> QED BY <1>3, <1>4

\* The invariant of the console, in every reachable state.
THEOREM ConsoleInvariance == ConsoleSpec => []LInv
<1>1. ConsoleInit => LInv
  <2> SUFFICES ASSUME ConsoleInit PROVE LInv
    OBVIOUS
  <2>1. CInv
    BY ConsoleInitEstablishes
  <2>2. screen \in Screens /\ owed \in BOOLEAN
    BY <2>1 DEF CInv, ScreenInv, ConsoleType
  <2>3. screen \in Adrift
    BY <2>2, ScreenAssumption DEF Screens, Adrift
  <2> QED BY <2>1, <2>2, <2>3 DEF CInv, LInv
<1> QED BY <1>1, ConsoleStepPreserves, PTL DEF ConsoleSpec

\* putc and backspace never store outside the screen, on any screen and from any column the
\* line begins in, although x may leave the row on both sides, until a line end in putc
\* leaves the last row.
THEOREM StoresCorrect == ConsoleSpec => []StoresInside
<1>1. LInv => StoresInside
  <2> SUFFICES ASSUME LInv, start >= 0 PROVE Pos(screen) \in Places
    BY DEF StoresInside
  <2>0. CInv /\ start # Torn
    BY DEF LInv, CInv, Lost, Torn
  <2>1. screen \in Screens /\ Placed(screen, start, At)
    BY <2>0 DEF CInv, ScreenInv, ConsoleType, LineDrawn, Drawn
  <2>2. At >= 0 /\ At \in Int
    BY <2>0 DEF CInv, IInv, TypeOK, At
  <2>3. /\ Pos(screen) \in Int /\ Pos(screen) = NUM_COLS * screen.y + screen.x
        /\ NUM_COLS * screen.y + NUM_COLS <= NUM_ROWS * NUM_COLS
        /\ NUM_COLS * screen.y \in Int /\ NUM_ROWS * NUM_COLS \in Int /\ screen.x \in Int
        /\ NUM_COLS \in Int
    BY <2>1, PosValue, ScreenAssumption DEF Screens
  <2>4. Pos(screen) >= 0 /\ Pos(screen) <= NUM_ROWS * NUM_COLS - 1
    BY <2>1, <2>2, <2>3 DEF Placed
  <2> QED BY <2>3, <2>4 DEF Places
<1> QED BY <1>1, ConsoleInvariance, PTL

\* Between two keys the screen shows the line that terminal_read will deliver, with the
\* cursor in its place and, on a clean screen, nothing behind it: on every screen, for every
\* line length, history and output of programs.
THEOREM EchoCorrect == ConsoleSpec => []LineOnScreen
<1>1. LInv => LineOnScreen
  <2> SUFFICES ASSUME LInv, TwoRows, pending = << >>, ~owed
               PROVE  LineOnScreen
    BY DEF LineOnScreen
  <2>0. CInv /\ start # Torn
    BY DEF LInv, CInv, TwoRows, Lost, Torn
  <2> DEFINE anchor == screen.vga - bufferIDX
  <2>1. /\ bufferSIZE \in Nat /\ bufferIDX \in Nat /\ screen \in Screens
        /\ Shows(screen, bufferIDX, buffer, bufferSIZE)
        /\ clean => Unspoilt(screen, start, bufferIDX, bufferSIZE, owed)
    <3>1. Short(start)
      BY <2>0 DEF TwoRows, Short
    <3> QED BY <2>0, <3>1, QuietScreen
  <2>2. Pos(screen) = screen.vga /\ start # Torn
    BY <2>0 DEF CInv, ScreenInv, CursorShown
  <2>3. \A i \in 0 .. bufferSIZE - 1 : anchor + i \in Places /\ screen.cells[anchor + i] = buffer[i]
    BY <2>1, <2>2 DEF Shows
  <2>4. clean /\ anchor + bufferSIZE \in Places => screen.cells[anchor + bufferSIZE] \in {SPACE, NUL}
    <3> SUFFICES ASSUME clean, anchor + bufferSIZE \in Places
                 PROVE  screen.cells[anchor + bufferSIZE] \in {SPACE, NUL}
      OBVIOUS
    <3>1. BlankFrom(screen, bufferIDX, bufferSIZE)
      BY <2>1, <2>2 DEF Unspoilt, Below
    <3>2. Pos(screen) \in Int
      BY <2>1, PosValue
    <3> QED BY <2>1, <2>2, <3>1, <3>2 DEF BlankFrom
  <2> QED BY <2>2, <2>3, <2>4 DEF LineOnScreen
<1> QED BY <1>1, ConsoleInvariance, PTL
=============================================================================
