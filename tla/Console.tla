------------------------------ MODULE Console -------------------------------
(***************************************************************************)
(* The line editor together with the screen it echoes on and a program     *)
(* that writes to the same screen: what the user sees is the line that     *)
(* terminal_read will deliver.  Every key handler of LineEditor is joined  *)
(* here with its output.  A program writes one character per call; the     *)
(* window terminal_write opens around next_line is a step of its own.      *)
(***************************************************************************)
EXTENDS LineEditor, Screen

CONSTANT Output            \* what programs write: characters, '\n' and '\r'

ASSUME NewlineAssumption == NEWLINE = NL
ASSUME ReturnAssumption == RETURN \notin Chars \cup {NUL}        \* no key types it
ASSUME FitsAssumption == MAX_CHARACTERS <= (NUM_ROWS - 1) * NUM_COLS
ASSUME OneHandlerAssumption == MaxPending = 0

VARIABLES
    screen,
    owed,         \* the program is in its write, before next_line
    start,        \* history: the column the line began in, Torn if other output
                  \* came in between, Lost once putc ended a line on the last row
    clean         \* history: since the screen was cleared all lines began within TwoRows
                  \* and none was disturbed

Torn == -1
Lost == -2
consoleVars == <<vars, screen, owed, start, clean>>

ConsoleInit ==
    /\ Init
    /\ screen = [cells |-> [i \in Places |-> SPACE], x |-> 0, y |-> 0, vga |-> 0]
    /\ owed = FALSE
    /\ start = 0
    /\ clean = TRUE

-----------------------------------------------------------------------------
Empty == bufferSIZE = 0 /\ pending = << >>

\* The line begins in a column from which a full line reaches at most into the next row.
\* (From later columns x falls below -NUM_COLS, and the remainder in putc drops a row.)
TwoRows == start >= 0 /\ start + MAX_CHARACTERS < 2 * NUM_COLS

\* A key of the line editor: an empty line begins where the cursor is.
Key == /\ start' = IF Empty' /\ start >= 0 THEN screen'.x % NUM_COLS ELSE start
       /\ clean' = (clean /\ (TwoRows \/ Empty'))
       /\ UNCHANGED owed

\* Only Ctrl-L brings a lost cursor back for certain.
Begins(col) == start' = IF start = Lost THEN Lost ELSE col

\* A new row makes a fresh begin.
NewRow == Begins(IF Empty' THEN 0 ELSE Torn) /\ clean' = (clean /\ Empty')

Part(row, from, to) == [k \in 1 .. to - from + 1 |-> row[from + k - 1]]

\* keyboard_insert prints the line from the new character on ...
Insert(c) ==
    /\ InsertBegin(c)
    /\ screen' = terminal_write(screen, Part(buffer', bufferIDX, bufferSIZE))
    /\ Key

\* ... keyboard_backspace from the erased place to the '\0' that replaces the last one ...
Backspace ==
    /\ BackspaceBegin
    /\ screen' = terminal_write(terminal_backspace(screen), Part(buffer', bufferIDX - 1, bufferSIZE - 1))
    /\ Key

\* Mutant: one too many after an insertion.
StepBack_all == bufferSIZE - bufferIDX + 1

\* num_chars - 1 after an insertion, num_chars after a backspace.
StepBack == bufferSIZE - bufferIDX + (IF pending[Len(pending)] = "insert" THEN 0 ELSE 1)

\* ... and both then move the cursor back.
Finish ==
    /\ HandlerEnd
    /\ screen' = cursor_update_left(screen, StepBack)
    /\ Key

Left  == keyboard_left_arrow /\ screen' = cursor_update_left(screen, 1) /\ Key
Right == keyboard_right_arrow /\ screen' = cursor_update_right(screen, 1) /\ Key
Clear == ClearKey /\ screen' = terminal_clear(screen) /\ start' = 0 /\ clean' = TRUE /\ UNCHANGED owed

\* The line shown is replaced by the one recalled.
Recalled == terminal_write(reset_terminal_keyboard_input(screen, bufferIDX, bufferSIZE),
                           Part(buffer', 0, bufferSIZE' - 1))

Up ==
    /\ up_history
    /\ screen' = IF historyIDX' = historyIDX THEN screen ELSE Recalled
    /\ Key
Down == down_history /\ screen' = Recalled /\ Key

\* terminal_return moves to the next line only when nobody reads; otherwise terminal_read
\* does.
Enter ==
    /\ EnterKey
    /\ screen' = IF return_switch THEN screen ELSE cursor_update(next_line(screen))
    /\ IF return_switch THEN Begins(Torn) /\ UNCHANGED clean ELSE NewRow
    /\ UNCHANGED owed

-----------------------------------------------------------------------------
(* The program of the terminal.                                            *)

Reads(n) == ~owed /\ ReadBegin(n) /\ UNCHANGED <<screen, owed, start, clean>>

ReadReturns ==
    /\ ReadEnd
    /\ screen' = cursor_update(next_line(screen))
    /\ UNCHANGED owed /\ NewRow

\* putc leaves the screen at the bottom.
Overruns(c) == c \in {NEWLINE, RETURN} /\ screen.y >= NUM_ROWS - 1

Write(c) ==
    /\ nbytes = 0 /\ ~owed
    /\ screen' = IF EndsRow(screen, c) THEN Shown(screen, c)
                 ELSE cursor_update(Shown(screen, c))
    /\ owed' = EndsRow(screen, c)
    /\ start' = IF c = RETURN /\ Overruns(c) THEN Lost
                ELSE IF Empty /\ start >= 0 THEN screen'.x % NUM_COLS ELSE Torn
    /\ clean' = (clean /\ Empty /\ start >= 0)
    /\ UNCHANGED vars

WriteReturns ==
    /\ owed
    /\ screen' = cursor_update(next_line(screen))
    /\ owed' = FALSE
    /\ UNCHANGED vars /\ NewRow

\* A fault: the handler prints its message (here one character) and the '\n' with
\* printf, that is with putc, leaves the VGA cursor where it was, and halts the program.
Fault(c) ==
    /\ nbytes = 0 /\ ~owed
    /\ screen' = putc(putc(screen, c), NEWLINE)
    /\ start' = IF Overruns(NEWLINE) THEN Lost ELSE Torn
    /\ clean' = FALSE
    /\ UNCHANGED <<vars, owed>>

Starts == StartProgram /\ start' = Torn /\ UNCHANGED <<screen, owed, clean>>

\* Bound: a line that other output has torn is entered or cleared, not edited further.
Edited == start >= 0 \/ bufferSIZE = 0

\* Bound: with the cursor lost, what is under way ends, and then it takes Ctrl-L.
ConsoleNext ==
    \/ /\ start # Lost
       /\ \/ Edited /\ ((\E c \in Chars : Insert(c)) \/ Backspace \/ Left \/ Right \/ Up \/ Down)
          \/ \E n \in ReadSizes : Reads(n)
          \/ \E c \in Output : Write(c)
          \/ \E c \in Chars : Fault(c)
          \/ Starts
    \/ Finish \/ Clear \/ Enter \/ ReadReturns \/ WriteReturns

ConsoleSpec == ConsoleInit /\ [][ConsoleNext]_consoleVars

-----------------------------------------------------------------------------
\* What the user sees is what terminal_read will deliver: around the VGA cursor the
\* screen shows the characters of buffer, with the cursor before the character at
\* bufferIDX, and on a clean screen nothing is left behind the last one.  This is so
\* across row ends, scrolling and recalled lines, although x and y are moved by
\* remainders and may be negative.
LineOnScreen ==
    TwoRows /\ pending = << >> /\ ~owed =>
        LET anchor == screen.vga - bufferIDX
        IN  /\ Pos(screen) = screen.vga
            /\ \A i \in 0 .. bufferSIZE - 1 :
                   anchor + i \in Places /\ screen.cells[anchor + i] = buffer[i]
            /\ clean /\ anchor + bufferSIZE \in Places =>
                   screen.cells[anchor + bufferSIZE] \in {SPACE, NUL}

\* The next character is stored inside the screen (putc and backspace do not check),
\* wherever the line began, unless a line end in putc has left the screen.
StoresInside == start >= 0 => Pos(screen) \in Places

\* terminal_write "Will move to next line/scroll if necessary", so that no program can
\* drive the cursor below the last row.
ScrollsIfNecessary == screen.y < NUM_ROWS
=============================================================================
