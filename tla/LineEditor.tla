----------------------------- MODULE LineEditor -----------------------------
(***************************************************************************)
(* The line editor of one terminal (keyboard.c) with the history of the    *)
(* program it displays, and the hand-over of a line to terminal_read       *)
(* (terminal.c).                                                           *)
(*                                                                         *)
(* A handler that echoes text calls terminal_write, which acknowledges the *)
(* keyboard interrupt and enables interrupts.  keyboard_insert and         *)
(* keyboard_backspace move the indices only afterwards, so both are split  *)
(* there: pending holds the handlers interrupted at that point.            *)
(***************************************************************************)
EXTENDS Integers, Sequences, FiniteSets

CONSTANTS
    Chars,                 \* characters the keys produce
    NUL, NL,               \* '\0' and '\n'
    MAX_BUFFER_SIZE,       \* size of buffer and read_buffer (128)
    NUM_HISTORY_BUFFERS,   \* rows of the history ring (20)
    ReadSizes,             \* nbytes values programs pass to terminal_read
    MaxPending             \* bound: unfinished handlers others may interrupt

ASSUME CharsAssumption == NUL \notin Chars /\ NL \notin Chars /\ NUL # NL
ASSUME BufferAssumption == MAX_BUFFER_SIZE \in 2 .. 256      \* indices are unsigned char
ASSUME HistoryAssumption == NUM_HISTORY_BUFFERS \in Nat \ {0}
ASSUME ReadSizesAssumption == ReadSizes \subseteq Nat \ {0}
ASSUME MaxPendingAssumption == MaxPending \in Nat

VARIABLES
    buffer, bufferIDX, bufferSIZE,
    history, historyIDX, historyBASE, historySIZE,
    read_buffer, return_switch,
    nbytes,                \* argument of the terminal_read in progress, 0 if none
    pending                \* unfinished "insert" and "backspace", oldest first

bufVars  == <<buffer, bufferIDX, bufferSIZE>>
histVars == <<history, historyIDX, historyBASE, historySIZE>>
readVars == <<read_buffer, return_switch, nbytes>>
vars == <<bufVars, histVars, readVars, pending>>

MAX_CHARACTERS == MAX_BUFFER_SIZE - 1
Cells == 0 .. MAX_BUFFER_SIZE - 1
Rows  == 0 .. NUM_HISTORY_BUFFERS - 1
Bytes == Chars \cup {NUL, NL}
Blank == [i \in Cells |-> NUL]

TypeOK ==
    /\ buffer \in [Cells -> Bytes]
    /\ bufferIDX \in 0 .. MAX_BUFFER_SIZE
    /\ bufferSIZE \in 0 .. MAX_BUFFER_SIZE
    /\ history \in [Rows -> [Cells -> Bytes]]
    /\ historyIDX \in Rows
    /\ historyBASE \in Rows
    /\ historySIZE \in 0 .. NUM_HISTORY_BUFFERS
    /\ read_buffer \in [Cells -> Bytes]
    /\ return_switch \in BOOLEAN
    /\ nbytes \in ReadSizes \cup {0}
    /\ pending \in Seq({"insert", "backspace"})

-----------------------------------------------------------------------------
\* clear_all_keyboard_buffers and clear_all_read_buffers, at boot.
Init ==
    /\ buffer = Blank /\ bufferIDX = 0 /\ bufferSIZE = 0
    /\ history = [r \in Rows |-> Blank]
    /\ historyIDX = 0 /\ historyBASE = 0 /\ historySIZE = 0
    /\ read_buffer = Blank /\ return_switch = FALSE /\ nbytes = 0
    /\ pending = << >>

\* A keyboard interrupt can be taken: no handler is unfinished, or it is one of
\* the few whose window we let others use.
CanInterrupt == Len(pending) <= MaxPending

\* Mutants: the cells, or the cursor, are not reset.
clear_keyboard_buffer_text == UNCHANGED buffer /\ bufferIDX' = 0 /\ bufferSIZE' = 0
clear_keyboard_buffer_cursor == buffer' = Blank /\ UNCHANGED bufferIDX /\ bufferSIZE' = 0

clear_keyboard_buffer == buffer' = Blank /\ bufferIDX' = 0 /\ bufferSIZE' = 0

LineFull == bufferSIZE = MAX_CHARACTERS

\* keyboard_insert up to the return of terminal_write: cells IDX .. SIZE move up.
\* A key at MAX_CHARACTERS does nothing.
InsertBegin(c) ==
    /\ CanInterrupt
    /\ ~LineFull
    /\ buffer' = [i \in Cells |->
                    IF i = bufferIDX THEN c
                    ELSE IF bufferIDX < i /\ i <= bufferSIZE + 1 THEN buffer[i - 1]
                    ELSE buffer[i]]
    /\ pending' = Append(pending, "insert")
    /\ UNCHANGED <<bufferIDX, bufferSIZE, histVars, readVars>>

\* keyboard_backspace up to the return of terminal_write: cells IDX .. SIZE move
\* down onto IDX - 1, the last one is cleared.
BackspaceBegin ==
    /\ CanInterrupt
    /\ bufferIDX # 0
    /\ buffer' = [i \in Cells |->
                    IF i = bufferSIZE THEN NUL
                    ELSE IF bufferIDX - 1 <= i /\ i < bufferSIZE THEN buffer[i + 1]
                    ELSE buffer[i]]
    /\ pending' = Append(pending, "backspace")
    /\ UNCHANGED <<bufferIDX, bufferSIZE, histVars, readVars>>

\* The rest of the innermost unfinished handler.
HandlerEnd ==
    LET step == IF pending[Len(pending)] = "insert" THEN 1 ELSE -1
    IN  /\ pending # << >>
        /\ bufferIDX' = (bufferIDX + step) % 256
        /\ bufferSIZE' = (bufferSIZE + step) % 256
        /\ pending' = SubSeq(pending, 1, Len(pending) - 1)
        /\ UNCHANGED <<buffer, histVars, readVars>>

keyboard_left_arrow ==
    /\ CanInterrupt
    /\ bufferIDX # 0
    /\ bufferIDX' = bufferIDX - 1
    /\ UNCHANGED <<buffer, bufferSIZE, histVars, readVars, pending>>

\* Mutant: moves beyond the end of the line.
keyboard_right_arrow_unguarded ==
    /\ CanInterrupt
    /\ bufferIDX' = bufferIDX + 1
    /\ UNCHANGED <<buffer, bufferSIZE, histVars, readVars, pending>>

keyboard_right_arrow ==
    /\ CanInterrupt
    /\ bufferIDX # bufferSIZE
    /\ bufferIDX' = bufferIDX + 1
    /\ UNCHANGED <<buffer, bufferSIZE, histVars, readVars, pending>>

\* Ctrl-L.
ClearKey ==
    /\ CanInterrupt
    /\ clear_keyboard_buffer
    /\ UNCHANGED <<histVars, readVars, pending>>

-----------------------------------------------------------------------------
(* History: a ring of rows.  Row historyBASE takes the next line entered,  *)
(* and meanwhile the line under edit when an older one is recalled.        *)

\* Mutant: an entered line replaces the row it was recalled from.
copy_to_history_recalled == [history EXCEPT ![historyIDX] =
                        [i \in Cells |-> IF buffer[i] = NL THEN NUL ELSE buffer[i]]]

copy_to_history == [history EXCEPT ![historyBASE] =
                        [i \in Cells |-> IF buffer[i] = NL THEN NUL ELSE buffer[i]]]

\* Length of the text in a row: up to the first '\0' or '\n'.
TextLen(row) ==
    CHOOSE n \in 0 .. MAX_BUFFER_SIZE :
        /\ \A i \in 0 .. n - 1 : row[i] \notin {NUL, NL}
        /\ n < MAX_BUFFER_SIZE => row[n] \in {NUL, NL}

\* The copying loop shared by up_history and down_history.
LoadLine(row) ==
    /\ buffer' = [i \in Cells |-> IF i < TextLen(row) THEN row[i] ELSE NUL]
    /\ bufferIDX' = TextLen(row)
    /\ bufferSIZE' = TextLen(row)

Previous(i) == IF i = 0 THEN NUM_HISTORY_BUFFERS - 1 ELSE i - 1

\* The first test of up_history: there is no older line.
NoHistory == historySIZE < NUM_HISTORY_BUFFERS /\ historyIDX = 0

up_history ==
    /\ CanInterrupt
    /\ ~NoHistory
    /\ history' = IF historyIDX = historyBASE THEN copy_to_history ELSE history
    /\ IF Previous(historyIDX) = historyBASE
       THEN UNCHANGED <<bufVars, historyIDX>>
       ELSE /\ historyIDX' = Previous(historyIDX)
            /\ LoadLine(history'[Previous(historyIDX)])
    /\ UNCHANGED <<historyBASE, historySIZE, readVars, pending>>

down_history ==
    /\ CanInterrupt
    /\ historyIDX # historyBASE
    /\ historyIDX' = (historyIDX + 1) % NUM_HISTORY_BUFFERS
    /\ LoadLine(history[historyIDX'])
    /\ UNCHANGED <<history, historyBASE, historySIZE, readVars, pending>>

-----------------------------------------------------------------------------
(* The return key and terminal_read.                                       *)

\* increment_history_indices
Remember ==
    LET base == (historyBASE + 1) % NUM_HISTORY_BUFFERS
    IN  /\ history' = copy_to_history
        /\ historyBASE' = base
        /\ historyIDX' = base
        /\ historySIZE' = IF historySIZE < NUM_HISTORY_BUFFERS
                          THEN historySIZE + 1 ELSE historySIZE

\* Mutant: stops before the '\n'.
keyboard_read_short(line, b) == [i \in Cells |-> IF i < TextLen(line) THEN line[i] ELSE b[i]]

\* keyboard_read into row b: up to and including the first '\n' or '\0' of line.
keyboard_read(line, b) ==
    [i \in Cells |-> IF i <= TextLen(line) THEN line[i] ELSE b[i]]

\* The return key: history, the terminating '\n', terminal_return, clear.
EnterKey ==
    /\ CanInterrupt
    /\ bufferSIZE \in Cells          \* else the '\n' lands outside the row
    /\ IF buffer[0] # NUL THEN Remember ELSE UNCHANGED histVars
    /\ IF return_switch
       THEN /\ read_buffer' = keyboard_read([buffer EXCEPT ![bufferSIZE] = NL], read_buffer)
            /\ return_switch' = FALSE
       ELSE UNCHANGED <<read_buffer, return_switch>>
    /\ clear_keyboard_buffer
    /\ UNCHANGED <<nbytes, pending>>

\* terminal_read up to its wait loop.
ReadBegin(n) ==
    /\ nbytes = 0
    /\ nbytes' = n
    /\ return_switch' = TRUE
    /\ UNCHANGED <<bufVars, histVars, read_buffer, pending>>

\* The '\0' that terminal_read stores at nbytes - 1.  For nbytes beyond the row the
\* store (terminal.c:229) lies outside read_buffer's row, in data not modelled here.
Terminated == IF nbytes \in 1 .. MAX_BUFFER_SIZE
              THEN [read_buffer EXCEPT ![nbytes - 1] = NUL] ELSE read_buffer

\* The value terminal_read returns: the place of the first '\n', plus one.  Without
\* one in the row the scan leaves the row, and the result is larger than the row.
ReadCount ==
    IF \E i \in Cells : Terminated[i] = NL
    THEN 1 + CHOOSE i \in Cells : Terminated[i] = NL /\ \A j \in 0 .. i - 1 : Terminated[j] # NL
    ELSE MAX_BUFFER_SIZE + 1

\* terminal_read after its wait loop.
ReadEnd ==
    /\ nbytes # 0 /\ ~return_switch
    /\ read_buffer' = Terminated
    /\ nbytes' = 0
    /\ UNCHANGED <<bufVars, histVars, return_switch, pending>>

\* execute gives the terminal to a new program: clear_keyboard_buffer and
\* clear_history_buffer of the new pid.
StartProgram ==
    /\ CanInterrupt
    /\ clear_keyboard_buffer
    /\ history' = [r \in Rows |-> Blank]
    /\ historyIDX' = 0 /\ historyBASE' = 0 /\ historySIZE' = 0
    /\ UNCHANGED <<readVars, pending>>

Next ==
    \/ \E c \in Chars : InsertBegin(c)
    \/ BackspaceBegin
    \/ HandlerEnd
    \/ keyboard_left_arrow \/ keyboard_right_arrow
    \/ ClearKey
    \/ up_history \/ down_history
    \/ EnterKey
    \/ \E n \in ReadSizes : ReadBegin(n)
    \/ ReadEnd
    \/ StartProgram

Spec == Init /\ [][Next]_vars

-----------------------------------------------------------------------------
(* Safety.                                                                 *)

\* Where the indices will be once the pending handlers have finished.
Ahead  == Cardinality({k \in 1 .. Len(pending) : pending[k] = "insert"})
Behind == Cardinality({k \in 1 .. Len(pending) : pending[k] = "backspace"})
EndIDX  == bufferIDX + Ahead - Behind
EndSIZE == bufferSIZE + Ahead - Behind

\* "Reached max buffer size. Do nothing.": the line with its '\n' fits the buffer and
\* the cursor stays in the line.
LineFits == 0 <= EndIDX /\ EndIDX <= EndSIZE /\ EndSIZE <= MAX_CHARACTERS

\* The buffer is the line of bufferSIZE characters followed by '\0' only, so that the
\* tests and loops that look for '\0' agree with bufferSIZE.
LineText ==
    \A i \in Cells : (i < EndSIZE => buffer[i] \in Chars) /\ (i >= EndSIZE => buffer[i] = NUL)

\* The ring indices: rows between the oldest line and historyBASE hold lines that are
\* not empty, and historyIDX is one of them or historyBASE.
Visible == IF historySIZE < NUM_HISTORY_BUFFERS THEN historyBASE ELSE NUM_HISTORY_BUFFERS - 1
Back == (historyBASE - historyIDX) % NUM_HISTORY_BUFFERS
PastRow(b) == history[(historyBASE - b) % NUM_HISTORY_BUFFERS]

HistoryRing ==
    /\ historySIZE < NUM_HISTORY_BUFFERS => historyBASE = historySIZE
    /\ Back <= Visible
    /\ \A b \in 1 .. Visible : PastRow(b)[0] \in Chars /\ TextLen(PastRow(b)) < MAX_BUFFER_SIZE

\* A reader that has been released finds a whole line of n characters and its '\n' in
\* read_buffer, whatever was read before and typed since, and terminal_read returns
\* n + 1, unless its own '\0' at nbytes - 1 hits the '\n'.
DeliveredLine ==
    nbytes # 0 /\ ~return_switch =>
        \E n \in Cells : /\ read_buffer[n] = NL
                         /\ \A i \in 0 .. n - 1 : read_buffer[i] \in Chars
                         /\ n # nbytes - 1 => ReadCount = n + 1

-----------------------------------------------------------------------------
(* Refinement: with handlers that are not interrupted, the editor is       *)
(* EditLine.                                                               *)

Text(row) == [i \in 1 .. TextLen(row) |-> row[i - 1]]

Past  == [j \in 1 .. Visible |-> Text(PastRow(Visible - j + 1))]
Draft == IF Back = 0 THEN << >> ELSE Text(history[historyBASE])
Mail  == IF nbytes # 0 /\ ~return_switch THEN {Text(read_buffer)} ELSE {}

Abstract == INSTANCE EditLine WITH
    MaxLine <- MAX_CHARACTERS,
    MaxPast <- NUM_HISTORY_BUFFERS - 1,
    line    <- Text(buffer),
    cursor  <- EndIDX,
    past    <- Past,
    back    <- Back,
    draft   <- Draft,
    reading <- nbytes # 0,
    mail    <- Mail

\* What the user edits and recalls and what the reader receives is as EditLine says.
ImplementsEditLine == Abstract!Spec
=============================================================================
