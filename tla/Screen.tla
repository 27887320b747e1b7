------------------------------- MODULE Screen -------------------------------
(***************************************************************************)
(* One text screen: the functions of lib.c and terminal.c that write it    *)
(* and move the cursor, as operators on a record of                        *)
(*   cells  the characters shown, in row-major order                       *)
(*   x, y   screen_x and screen_y; x is signed and may leave the row       *)
(*   vga    the cursor position last programmed into the VGA controller    *)
(***************************************************************************)
EXTENDS Integers, Sequences

CONSTANTS
    NUM_ROWS, NUM_COLS,
    SPACE,               \* the blank of clear, scroll and backspace
    NEWLINE,             \* '\n'
    RETURN               \* '\r'

ASSUME ScreenAssumption == NUM_ROWS \in Nat \ {0} /\ NUM_COLS \in Nat \ {0}
ASSUME BlankAssumption == SPACE # NEWLINE /\ SPACE # RETURN /\ NEWLINE # RETURN

Places == 0 .. NUM_ROWS * NUM_COLS - 1
Pos(s) == NUM_COLS * s.y + s.x

\* A store through video_mem; outside the screen it hits other memory.
Store(s, p, c) == [i \in Places |-> IF i = p THEN c ELSE s.cells[i]]

\* clear, at boot and for Ctrl-L.
clear(s) == [s EXCEPT !.cells = [i \in Places |-> SPACE]]

cursor_update(s) == [s EXCEPT !.vga = Pos(s)]
cursor_update_left(s, n) == cursor_update([s EXCEPT !.x = @ - n])
cursor_update_right(s, n) == cursor_update([s EXCEPT !.x = @ + n])

\* The % of C: the sign is that of the dividend.
Rem(a, b) == IF a >= 0 THEN a % b ELSE -((-a) % b)

\* A line end in putc goes to the row below, which may be below the screen: it does not
\* scroll.
LineEnd(s) == [s EXCEPT !.x = 0, !.y = @ + 1]

\* Of another character x / NUM_COLS is 0 after the remainder: the row never advances.
putc(s, c) ==
    IF c \in {NEWLINE, RETURN} THEN LineEnd(s)
    ELSE [s EXCEPT !.cells = Store(s, Pos(s), c),
                   !.x = Rem(s.x + 1, NUM_COLS),
                   !.y = Rem(s.y, NUM_ROWS)]

scroll(s) ==
    [s EXCEPT !.cells = [i \in Places |-> IF i + NUM_COLS \in Places
                                          THEN s.cells[i + NUM_COLS] ELSE SPACE],
              !.x = 0]

\* Mutant: goes one row too far before it scrolls.
next_line_late(s) == IF s.y >= NUM_ROWS THEN scroll(s) ELSE [s EXCEPT !.x = 0, !.y = @ + 1]

next_line(s) == IF s.y >= NUM_ROWS - 1 THEN scroll(s) ELSE [s EXCEPT !.x = 0, !.y = @ + 1]

\* backspace erases the cell before the cursor and steps back, to the row above from
\* column 0.
backspace(s) ==
    IF s.x = 0 /\ s.y = 0 THEN s
    ELSE [s EXCEPT !.cells = Store(s, Pos(s) - 1, SPACE),
                   !.x = IF s.x # 0 THEN s.x - 1 ELSE NUM_COLS - 1,
                   !.y = IF s.x # 0 THEN s.y ELSE s.y - 1]

terminal_backspace(s) == cursor_update(backspace(s))

terminal_clear(s) == cursor_update([clear(s) EXCEPT !.x = 0, !.y = 0])

\* terminal_write moves to the next line after a '\n' and after the last column, tested
\* before putc; a '\r' is left to putc.
EndsRow(s, c) == s.x = NUM_COLS - 1 \/ c = NEWLINE
Shown(s, c) == IF c = NEWLINE THEN s ELSE putc(s, c)
WriteChar(s, c) == IF EndsRow(s, c) THEN next_line(Shown(s, c)) ELSE Shown(s, c)

\* terminal_write of a sequence; an empty one is refused.
terminal_write(s, text) ==
    LET written[n \in 0 .. Len(text)] ==
            IF n = 0 THEN s ELSE WriteChar(written[n - 1], text[n])
    IN  IF text = << >> THEN s ELSE cursor_update(written[Len(text)])

\* reset_terminal_keyboard_input: to the end of the line, then erase it backwards.
reset_terminal_keyboard_input(s, index, size) ==
    LET erased[n \in 0 .. size] ==
            IF n = 0 THEN cursor_update_right(s, size - index)
            ELSE terminal_backspace(erased[n - 1])
    IN  erased[size]
=============================================================================
