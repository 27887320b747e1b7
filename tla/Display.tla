------------------------------ MODULE Display -------------------------------
(***************************************************************************)
(* Which memory the terminals' output goes to.  video_mem, the pointer     *)
(* used by lib.c, and the page mapped for vidmap are global; timer_handler,*)
(* execute and handle_keyboard (interrupts.c, syscalls.c) set them, and    *)
(* terminal_switch (terminal.c) exchanges the contents of the screen with  *)
(* the backing pages.  A keyboard handler keeps the old video_mem on the   *)
(* stack it interrupted while ticks and other keys come in between.        *)
(* Every terminal runs one program: place[t] is "user", "read" (the loop   *)
(* of terminal_read), "line" (that loop, released) or "window" (another    *)
(* stretch with interrupts on); "none" before its shell starts.            *)
(***************************************************************************)
EXTENDS Integers, FiniteSets, Sequences

CONSTANTS
    NUM_TERMINALS,
    MaxNest           \* bound: unfinished keyboard handlers

ASSUME DisplayTerminalsAssumption == NUM_TERMINALS \in Nat \ {0}
ASSUME DisplayNestAssumption == MaxNest \in Nat

VARIABLES
    current_terminal, current_process,
    terminal_request, schedule_tick,
    video_mem,        \* VIDEO, VIDMAP or the backing page of a terminal
    vid_page,         \* process_tables[VID_IDX]: VIDEO or a backing page
    ink,              \* page |-> the terminals whose output it shows
    place,
    frames,           \* per terminal, the unfinished keyboard handlers on its stack
    parked,           \* waiting handlers at the last tick inside the same read, or -1
    stale,            \* history: a handler put back a page that was exchanged meanwhile
    crossed           \* history: an echo went on after a tick or a switch in its row window

swVars   == <<current_terminal, terminal_request, schedule_tick>>
vidVars  == <<video_mem, vid_page>>
runVars  == <<current_process, place, frames, parked>>
vars == <<swVars, vidVars, ink, runVars, stale, crossed>>

Terminals == 0 .. NUM_TERMINALS - 1
VIDEO  == -1
VIDMAP == -2
Pages  == Terminals \cup {VIDEO}      \* a terminal stands for its backing page

\* A handler: its video_past, the tick it waits to pass (-1: none), whether the rest of an
\* echo is still to be written, and the terminal whose line that is.
Frame == [past : Pages \cup {VIDMAP}, ticked : {-1, 0, 1}, more : BOOLEAN, who : Terminals]

\* The range of each variable.
TypeOK ==
    /\ current_terminal \in Terminals /\ current_process \in Terminals
    /\ terminal_request \in Terminals \cup {-1}
    /\ schedule_tick \in {0, 1}
    /\ video_mem \in Pages \cup {VIDMAP} /\ vid_page \in Pages
    /\ ink \in [Pages -> SUBSET Terminals]
    /\ place \in [Terminals -> {"none", "user", "read", "line", "window"}]
    /\ frames \in [Terminals -> Seq(Frame)]
    /\ parked \in [Terminals -> -1 .. MaxNest]
    /\ stale \in BOOLEAN /\ crossed \in BOOLEAN

\* After the boot code has started the shell of terminal 0.
Init ==
    /\ current_terminal = 0 /\ current_process = 0
    /\ terminal_request = -1 /\ schedule_tick = 0
    /\ video_mem = VIDMAP /\ vid_page = VIDEO
    /\ ink = [p \in Pages |-> {}]
    /\ place = [t \in Terminals |-> IF t = 0 THEN "user" ELSE "none"]
    /\ frames = [t \in Terminals |-> << >>]
    /\ parked = [t \in Terminals |-> -1]
    /\ stale = FALSE /\ crossed = FALSE

\* The page behind video_mem, and the page a terminal's output belongs on.
Page == IF video_mem = VIDMAP THEN vid_page ELSE video_mem
Home(t) == IF t = current_terminal THEN VIDEO ELSE t

Last(s) == s[Len(s)]
Running == {t \in Terminals : place[t] # "none"}
InterruptsOn == ~crossed /\ (frames[current_process] # << >> \/ place[current_process] \in {"read", "line", "window"})
In(t, p) == ~crossed /\ current_process = t /\ frames[t] = << >> /\ place[t] = p
Goes(t, p) == place' = [place EXCEPT ![t] = p] /\ parked' = [parked EXCEPT ![t] = -1]

-----------------------------------------------------------------------------
(* The programs.                                                           *)

\* terminal_write, and drawing through the page of vidmap.
SysWrite(t) ==
    /\ In(t, "user") /\ Goes(t, "window")
    /\ ink' = [ink EXCEPT ![Page] = @ \cup {t}]
    /\ UNCHANGED <<swVars, vidVars, current_process, frames, stale, crossed>>
DrawVidmap(t) ==
    /\ In(t, "user")
    /\ ink' = [ink EXCEPT ![vid_page] = @ \cup {t}]
    /\ UNCHANGED <<swVars, vidVars, runVars, stale, crossed>>

SysRead(t) ==
    /\ In(t, "user") /\ Goes(t, "read")
    /\ UNCHANGED <<swVars, vidVars, ink, current_process, frames, stale, crossed>>
\* The next_line at the end of terminal_read.
ReadReturns(t) ==
    /\ In(t, "line") /\ Goes(t, "window")
    /\ UNCHANGED <<swVars, vidVars, ink, current_process, frames, stale, crossed>>
WindowCloses(t) ==
    /\ In(t, "window") /\ Goes(t, "user")
    /\ UNCHANGED <<swVars, vidVars, ink, current_process, frames, stale, crossed>>

\* execute by the program on the screen (elsewhere it breaks the schedule, see Kernel):
\* the child draws on the screen.
SetVideo == vid_page' = VIDEO /\ video_mem' = VIDMAP
SysExecute(t) ==
    /\ In(t, "user") /\ t = current_terminal
    /\ SetVideo /\ stale' = FALSE
    /\ UNCHANGED <<swVars, ink, runVars, crossed>>

-----------------------------------------------------------------------------
(* The timer.                                                              *)

\* The terminal k places behind the running one; the next one with a shell.
After(k) == (current_process + k) % NUM_TERMINALS
NextTerminal ==
    IF terminal_request # -1
    THEN terminal_request
    ELSE After(CHOOSE k \in 1 .. NUM_TERMINALS :
                   After(k) \in Running /\ \A j \in 1 .. k - 1 : After(j) \notin Running)

\* Mutant: decides by the terminal that had the CPU.
Map_before(next) ==
    /\ vid_page' = IF current_process # current_terminal THEN next ELSE VIDEO
    /\ video_mem' = IF current_process # current_terminal THEN next ELSE VIDMAP

\* timer_handler: a hidden terminal gets its backing page, the displayed one the screen.
Map(next) ==
    /\ vid_page' = IF next # current_terminal THEN next ELSE VIDEO
    /\ video_mem' = IF next # current_terminal THEN next ELSE VIDMAP

NextTick == 1 - schedule_tick

\* A loop keeps the stack as deep as it is: the position saved here is good until the
\* read or one of the handlers goes on.
Parks == /\ place[current_process] \in {"read", "line"}
         /\ \A i \in DOMAIN frames[current_process] : frames[current_process][i].ticked # -1

timer_handler ==
    /\ InterruptsOn
    /\ parked' = [parked EXCEPT ![current_process] = IF Parks THEN Len(frames[current_process]) ELSE -1]
    /\ current_process' = NextTerminal
    /\ terminal_request' = -1
    /\ schedule_tick' = NextTick
    /\ Map(NextTerminal)
    /\ stale' = FALSE
    /\ UNCHANGED <<current_terminal, ink, place, frames, crossed>>

-----------------------------------------------------------------------------
(* The keyboard.                                                           *)

Unfinished == {p \in Terminals \X (1 .. MaxNest) : p[2] \in DOMAIN frames[p[1]]}
CanNest == InterruptsOn /\ Cardinality(Unfinished) < MaxNest

\* handle_keyboard up to a point where the handler enables interrupts.
Enter(f) == frames' = [frames EXCEPT ![current_process] = Append(@, f)]

\* Keys whose handler returns without a window leave video_mem as it was.  (Which codes
\* make these keys is the subject of Keys.)
ReturnKey ==
    /\ InterruptsOn /\ place[current_terminal] = "read"
    /\ place' = [place EXCEPT ![current_terminal] = "line"]
    /\ UNCHANGED <<swVars, vidVars, ink, current_process, frames, parked, stale, crossed>>
ClearKey ==
    /\ InterruptsOn
    /\ ink' = [ink EXCEPT ![VIDEO] = {}]
    /\ UNCHANGED <<swVars, vidVars, runVars, stale, crossed>>

\* A character is echoed; with more, up to the window at the end of a row.
EchoKey(more) ==
    /\ CanNest
    /\ Enter([past |-> video_mem, ticked |-> -1, more |-> more, who |-> current_terminal])
    /\ video_mem' = VIDEO
    /\ ink' = [ink EXCEPT ![VIDEO] = @ \cup {current_terminal}]
    /\ UNCHANGED <<swVars, vid_page, current_process, place, parked, stale, crossed>>

\* The rest of the line, whose characters and number were fixed when the key was typed.
EchoMore(t) ==
    /\ ~crossed /\ current_process = t /\ frames[t] # << >> /\ Last(frames[t]).more
    /\ ink' = [ink EXCEPT ![Page] = @ \cup {Last(frames[t]).who}]
    /\ crossed' = (Page # VIDEO \/ Last(frames[t]).who # current_terminal)
    /\ frames' = [frames EXCEPT ![t][Len(frames[t])].more = FALSE]
    /\ UNCHANGED <<swVars, vidVars, current_process, place, parked, stale>>

\* Mutant: the new contents are fetched before the old are saved.
Exchange_late(num) ==
    ink' = [ink EXCEPT ![VIDEO] = ink[num], ![current_terminal] = ink[num]]

\* The two memcpy of terminal_switch.
Exchange(num) == ink' = [ink EXCEPT ![current_terminal] = ink[VIDEO], ![VIDEO] = ink[num]]

\* Alt-F1 .. F3.
Switches(num) == /\ CanNest
                 /\ num # current_terminal
                 /\ current_terminal' = num

SwitchRunning(num) ==
    /\ Switches(num) /\ num \in Running
    /\ Exchange(num)
    /\ terminal_request' = num
    /\ Enter([past |-> video_mem, ticked |-> schedule_tick, more |-> FALSE, who |-> num])
    /\ video_mem' = VIDEO
    /\ UNCHANGED <<schedule_tick, vid_page, current_process, place, parked, stale, crossed>>

\* To a terminal without a shell: clear, start one.  The interrupted program will go on
\* from the position saved last, here one inside the same read (else see Kernel).
SwitchNew(num) ==
    /\ Switches(num) /\ num \notin Running
    /\ parked[current_process] # -1 /\ parked[current_process] <= Len(frames[current_process])
    /\ ink' = [ink EXCEPT ![current_terminal] = ink[VIDEO], ![VIDEO] = {}]
    /\ current_process' = num
    /\ frames' = [frames EXCEPT ![current_process] = SubSeq(@, 1, parked[current_process])]
    /\ place' = [place EXCEPT ![num] = "user"]
    /\ SetVideo /\ stale' = FALSE
    /\ UNCHANGED <<terminal_request, schedule_tick, parked, crossed>>

\* The handler goes on, puts its video_past back and returns.
HandlerReturns(t) ==
    LET f == Last(frames[t])
    IN  /\ ~crossed /\ current_process = t /\ frames[t] # << >>
        /\ f.ticked # schedule_tick /\ ~f.more
        /\ video_mem' = f.past
        /\ stale' = (stale \/ f.past = current_terminal)
        /\ frames' = [frames EXCEPT ![t] = SubSeq(@, 1, Len(@) - 1)]
        /\ parked' = [parked EXCEPT ![t] = IF @ >= Len(frames[t]) THEN -1 ELSE @]
        /\ UNCHANGED <<swVars, vid_page, ink, current_process, place, crossed>>

\* Bound: behaviours are not followed beyond an echo that went astray.
Stopped == crossed /\ UNCHANGED vars

Program(t) == \/ SysWrite(t) \/ DrawVidmap(t) \/ SysRead(t) \/ ReadReturns(t)
              \/ WindowCloses(t) \/ SysExecute(t)

Next == \/ \E t \in Terminals : Program(t) \/ EchoMore(t) \/ HandlerReturns(t)
        \/ timer_handler
        \/ ReturnKey \/ ClearKey
        \/ \E more \in BOOLEAN : EchoKey(more)
        \/ \E num \in Terminals : SwitchRunning(num) \/ SwitchNew(num)
        \/ Stopped

Spec == Init /\ [][Next]_vars

-----------------------------------------------------------------------------
\* Whenever a program runs outside the keyboard handlers, its writes go to the screen if
\* its terminal is displayed and to its backing page if not, through any interleaving of
\* ticks, echoes and switches nested in handlers, except in one case: the handler of the
\* switch that displayed a terminal had interrupted its own program while hidden, and
\* puts the backing page back, until the next tick.  What it draws through vidmap has no
\* such exception.
Routed ==
    frames[current_process] = << >> =>
        /\ ~stale => Page = Home(current_process)
        /\ vid_page = Home(current_process)

\* No terminal's page shows output of another one, unless the echo of a key ran over the
\* end of a row and, in the window of next_line, a tick moved video_mem or the user
\* switched terminals.
OwnInk ==
    crossed \/ (ink[VIDEO] \subseteq {current_terminal} /\ \A t \in Terminals : ink[t] \subseteq {t})
=============================================================================
