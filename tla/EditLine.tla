------------------------------ MODULE EditLine ------------------------------
(***************************************************************************)
(* What the keyboard driver promises to the person at a terminal and to    *)
(* the program that reads from it: one line being edited at a cursor, a    *)
(* bounded list of past lines to recall, and a reader that receives the    *)
(* line of the return key which released it.  LineEditor implements it     *)
(* with arrays and ring indices.                                           *)
(***************************************************************************)
EXTENDS Naturals, Sequences

CONSTANTS Chars,      \* characters that can be typed
          MaxLine,    \* longest line
          MaxPast     \* past lines that can be recalled

VARIABLES line, cursor, past, back, draft, reading, mail

vars == <<line, cursor, past, back, draft, reading, mail>>

NoMail == {}               \* else mail holds the one line delivered

Init == /\ line = << >> /\ cursor = 0
        /\ past = << >> /\ back = 0 /\ draft = << >>
        /\ reading = FALSE /\ mail = NoMail

Insert(c) ==
    /\ Len(line) < MaxLine
    /\ line' = SubSeq(line, 1, cursor) \o <<c>> \o SubSeq(line, cursor + 1, Len(line))
    /\ cursor' = cursor + 1
    /\ UNCHANGED <<past, back, draft, reading, mail>>

Backspace ==
    /\ cursor > 0
    /\ line' = SubSeq(line, 1, cursor - 1) \o SubSeq(line, cursor + 1, Len(line))
    /\ cursor' = cursor - 1
    /\ UNCHANGED <<past, back, draft, reading, mail>>

Move == /\ cursor' \in {cursor - 1, cursor + 1} \cap 0 .. Len(line)
        /\ UNCHANGED <<line, past, back, draft, reading, mail>>

Clear == /\ line' = << >> /\ cursor' = 0
         /\ UNCHANGED <<past, back, draft, reading, mail>>

\* A line that is not empty is remembered; a waiting reader gets the line.  An
\* empty line leaves the place in the list of past lines alone.
Enter ==
    /\ line' = << >> /\ cursor' = 0
    /\ IF line = << >>
       THEN UNCHANGED <<past, back, draft>>
       ELSE /\ LET all == Append(past, line)
               IN  past' = IF Len(all) > MaxPast THEN Tail(all) ELSE all
            /\ back' = 0 /\ draft' = << >>
    /\ mail' = IF reading /\ mail = NoMail THEN {line} ELSE mail
    /\ UNCHANGED reading

\* The line under edit is kept while older lines are looked at.
Recall(b) ==
    /\ b \in 0 .. Len(past)
    /\ back' = b
    /\ draft' = IF b = 0 THEN << >> ELSE IF back = 0 THEN line ELSE draft
    /\ line' = IF b = 0 THEN draft ELSE past[Len(past) - b + 1]
    /\ cursor' = Len(line')
    /\ UNCHANGED <<past, reading, mail>>

Up   == Recall(back + 1)
Down == back > 0 /\ Recall(back - 1)

StartRead == /\ ~reading /\ reading' = TRUE
             /\ UNCHANGED <<line, cursor, past, back, draft, mail>>

FinishRead == /\ reading /\ mail # NoMail
              /\ reading' = FALSE /\ mail' = NoMail
              /\ UNCHANGED <<line, cursor, past, back, draft>>

\* A new program takes the terminal over: an empty line and no past lines.
StartProgram == /\ line' = << >> /\ cursor' = 0
                /\ past' = << >> /\ back' = 0 /\ draft' = << >>
                /\ UNCHANGED <<reading, mail>>

Next == \/ \E c \in Chars : Insert(c)
        \/ Backspace \/ Move \/ Clear \/ Enter \/ Up \/ Down
        \/ StartRead \/ FinishRead \/ StartProgram

Spec == Init /\ [][Next]_vars
=============================================================================
