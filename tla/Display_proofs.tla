--------------------------- MODULE Display_proofs ---------------------------
(***************************************************************************)
(* Proofs about Display, for every number of terminals and of nested       *)
(* keyboard handlers: where output goes and whose output a page shows.     *)
(***************************************************************************)
EXTENDS Display, FiniteSetTheorems, SequenceTheorems, WellFoundedInduction, TLAPS

-----------------------------------------------------------------------------
(* The inductive invariant.                                                *)

\* The page of vidmap is that of the running terminal, except between a switch and the
\* next tick, while the handler of the switch waits on the stack of that terminal.
PageMapped ==
    vid_page # Home(current_process) =>
        \E i \in DOMAIN frames[current_process] : frames[current_process][i].ticked = schedule_tick

\* Outside handlers lib.c writes through vidmap's page or to the terminal's own page, the
\* latter only of a hidden terminal or after a stale pointer was put back.
OwnVideo ==
    frames[current_process] = << >> =>
        /\ video_mem \in {VIDMAP, current_process}
        /\ ~stale /\ video_mem = current_process => current_process # current_terminal

\* What the outermost handler of a terminal will put back.
OwnPast ==
    \A t \in Terminals : frames[t] # << >> => frames[t][1].past \in {VIDMAP, t}

\* The processor is with, and is requested for, terminals that have a shell.
CpuRuns ==
    /\ place[current_process] # "none"
    /\ terminal_request # -1 => place[terminal_request] # "none"

NestBound == \A t \in Terminals : Len(frames[t]) <= MaxNest

IInv ==
    /\ TypeOK
    /\ PageMapped
    /\ OwnVideo
    /\ OwnPast
    /\ CpuRuns
    /\ NestBound
    /\ OwnInk
-----------------------------------------------------------------------------
(* Lemmas about the operators.                                             *)

LEMMA TerminalNumbers ==
    /\ 0 \in Terminals /\ Terminals \subseteq Int /\ Terminals \subseteq Nat
    /\ VIDEO \notin Terminals /\ VIDMAP \notin Terminals /\ VIDEO # VIDMAP
    /\ -1 \notin Terminals
    /\ IsFiniteSet(Terminals)
<1>1. IsFiniteSet(Terminals)
  BY FS_Interval, DisplayTerminalsAssumption DEF Terminals
<1> QED BY <1>1, DisplayTerminalsAssumption DEF Terminals, VIDEO, VIDMAP

\* A non-empty set of naturals has a least element.
LEMMA LeastElement ==
    ASSUME NEW T \in SUBSET Nat, T # {}
    PROVE  \E x \in T : \A y \in T : x <= y
<1>1. PICK x \in T : \A y \in T : <<y, x>> \notin OpToRel(<, Nat)
  BY WFMin, NatLessThanWellFounded, Zenon
<1>2. \A y \in T : ~(y < x)
  BY <1>1, Zenon DEF OpToRel
<1> QED BY <1>2

\* timer_handler finds a terminal with a shell: at the latest the interrupted one.
LEMMA NextRuns ==
    ASSUME TypeOK, CpuRuns
    PROVE  NextTerminal \in Terminals /\ place[NextTerminal] # "none"
<1> DEFINE S == {k \in 1 .. NUM_TERMINALS : After(k) \in Running}
<1>1. current_process \in Terminals /\ NUM_TERMINALS \in Nat \ {0} /\ current_process \in 0 .. NUM_TERMINALS - 1
  BY DisplayTerminalsAssumption DEF TypeOK, Terminals
<1>2. After(NUM_TERMINALS) = current_process
  BY <1>1 DEF After
<1>3. NUM_TERMINALS \in S
  BY <1>1, <1>2 DEF Running, CpuRuns
<1>4. S \in SUBSET Nat
  BY <1>1
<1>5. PICK k \in S : \A j \in S : k <= j
  BY <1>3, <1>4, LeastElement
<1>6. k \in 1 .. NUM_TERMINALS /\ After(k) \in Running /\ \A j \in 1 .. k - 1 : After(j) \notin Running
  BY <1>1, <1>5
<1> DEFINE c == CHOOSE x \in 1 .. NUM_TERMINALS : After(x) \in Running /\ \A j \in 1 .. x - 1 : After(j) \notin Running
<1>7. After(c) \in Running
  BY <1>6
<1>8. NextTerminal = IF terminal_request # -1 THEN terminal_request ELSE After(c)
  BY DEF NextTerminal
<1>9. CASE terminal_request # -1
  BY <1>8, <1>9 DEF TypeOK, CpuRuns
<1>10. CASE terminal_request = -1
  <2>1. NextTerminal = After(c)
    BY <1>8, <1>10
  <2> HIDE DEF c
  <2> QED BY <1>7, <2>1 DEF Running
<1> QED BY <1>9, <1>10

\* What a page on which terminal t writes has to be.
LEMMA HomePage ==
    ASSUME TypeOK, NEW t \in Terminals
    PROVE  /\ Home(t) \in Pages
           /\ Home(t) = VIDEO => t = current_terminal
           /\ Home(t) # VIDEO => Home(t) = t
           /\ t = current_terminal => Home(t) = VIDEO
           /\ t # current_terminal => Home(t) = t
BY TerminalNumbers DEF Home, Pages

\* The pairs of one terminal with the numbers up to n.
LEMMA Column ==
    ASSUME NEW t, NEW n \in Nat
    PROVE  Cardinality({t} \X (1 .. n)) = n
<1>1. IsFiniteSet({t}) /\ Cardinality({t}) = 1
  BY FS_Singleton
<1>2. IsFiniteSet(1 .. n)
  BY FS_Interval
<1>3. Cardinality(1 .. n) = n
  BY FS_Interval
<1>4. Cardinality({t} \X (1 .. n)) = Cardinality({t}) * Cardinality(1 .. n)
  BY <1>1, <1>2, FS_Product
<1> QED BY <1>1, <1>3, <1>4

\* A handler is entered: the frame lies on top, those below stay.
LEMMA EnterFrame ==
    ASSUME IInv, CanNest, NEW f \in Frame, Enter(f)
    PROVE  /\ frames' \in [Terminals -> Seq(Frame)]
           /\ NestBound'
           /\ frames'[current_process] # << >>
           /\ \A t \in Terminals \ {current_process} : frames'[t] = frames[t]
           /\ Len(frames'[current_process]) = Len(frames[current_process]) + 1
           /\ frames'[current_process][Len(frames[current_process]) + 1] = f
           /\ \A i \in DOMAIN frames[current_process] :
                /\ i \in DOMAIN frames'[current_process]
                /\ frames'[current_process][i] = frames[current_process][i]
<1> DEFINE cp == current_process
           n == Len(frames[cp])
<1>1. cp \in Terminals /\ frames \in [Terminals -> Seq(Frame)] /\ frames[cp] \in Seq(Frame)
  BY DEF IInv, TypeOK
<1>2. frames' = [frames EXCEPT ![cp] = Append(frames[cp], f)]
  BY <1>1 DEF Enter
<1>3. /\ Append(frames[cp], f) \in Seq(Frame) /\ Append(frames[cp], f) # << >>
      /\ Len(Append(frames[cp], f)) = n + 1
      /\ Append(frames[cp], f)[n + 1] = f
      /\ \A i \in 1 .. n : Append(frames[cp], f)[i] = frames[cp][i]
  BY <1>1, AppendProperties
<1>4. frames'[cp] = Append(frames[cp], f) /\ \A t \in Terminals \ {cp} : frames'[t] = frames[t]
  BY <1>1, <1>2
<1>5. frames' \in [Terminals -> Seq(Frame)]
  BY <1>1, <1>2, <1>3
<1>6. n + 1 <= MaxNest
  <2>1. n \in Nat /\ n <= MaxNest
    BY <1>1 DEF IInv, NestBound
  <2>2. IsFiniteSet(Unfinished) /\ Cardinality(Unfinished) < MaxNest
    <3>1. IsFiniteSet(Terminals) /\ IsFiniteSet(1 .. MaxNest)
      BY TerminalNumbers, FS_Interval, DisplayNestAssumption
    <3>2. IsFiniteSet(Terminals \X (1 .. MaxNest))
      BY <3>1, FS_Product
    <3>3. Unfinished \in SUBSET (Terminals \X (1 .. MaxNest))
      BY DEF Unfinished
    <3> QED BY <3>2, <3>3, FS_Subset DEF CanNest
  <2>3. {cp} \X (1 .. n) \in SUBSET Unfinished
    <3>1. \A i \in 1 .. n : i \in 1 .. MaxNest /\ i \in DOMAIN frames[cp]
      BY <1>1, <2>1, DisplayNestAssumption
    <3> QED BY <1>1, <3>1 DEF Unfinished
  <2>4. Cardinality({cp} \X (1 .. n)) = n
    BY <2>1, Column
  <2>5. n <= Cardinality(Unfinished) /\ Cardinality(Unfinished) \in Nat
    BY <2>2, <2>3, <2>4, FS_Subset, FS_CardinalityType
  <2> QED BY <2>1, <2>2, <2>5, DisplayNestAssumption
<1>7. NestBound'
  <2> SUFFICES ASSUME NEW t \in Terminals
               PROVE  Len(frames'[t]) <= MaxNest
    BY DEF NestBound
  <2> QED BY <1>3, <1>4, <1>6 DEF IInv, NestBound
<1>8. DOMAIN frames[cp] = 1 .. n /\ DOMAIN frames'[cp] = 1 .. n + 1 /\ n \in Nat
  BY <1>1, <1>3, <1>4
<1> QED BY <1>3, <1>4, <1>5, <1>7, <1>8

\* An action that leaves handlers, pointers and the processor alone.
LEMMA QuietStep ==
    ASSUME IInv, UNCHANGED <<swVars, vidVars, current_process, frames, stale>>
    PROVE  PageMapped' /\ OwnVideo' /\ OwnPast' /\ NestBound'
BY DEF IInv, PageMapped, OwnVideo, OwnPast, NestBound, swVars, vidVars, Home

\* The program of a terminal goes on to another place.
LEMMA GoesOn ==
    ASSUME IInv, NEW t \in Terminals, NEW p \in {"user", "read", "line", "window"}, Goes(t, p),
           UNCHANGED <<current_process, terminal_request>>
    PROVE  /\ place' \in [Terminals -> {"none", "user", "read", "line", "window"}]
           /\ parked' \in [Terminals -> -1 .. MaxNest]
           /\ CpuRuns'
<1>1. TypeOK /\ CpuRuns
  BY DEF IInv
<1>2. -1 \in -1 .. MaxNest
  BY DisplayNestAssumption
<1>3. place' = [place EXCEPT ![t] = p] /\ parked' = [parked EXCEPT ![t] = -1]
  BY DEF Goes
<1>4. parked' \in [Terminals -> -1 .. MaxNest]
  BY <1>1, <1>2, <1>3 DEF TypeOK
<1>5. place' \in [Terminals -> {"none", "user", "read", "line", "window"}]
  BY <1>1, <1>3 DEF TypeOK
<1>6. \A u \in Terminals : place[u] # "none" => place'[u] # "none"
  BY <1>1, <1>3 DEF TypeOK
<1> QED BY <1>1, <1>4, <1>5, <1>6 DEF TypeOK, CpuRuns

\* Where the program of terminal t writes when no handler is on its stack.
LEMMA OutputPage ==
    ASSUME IInv, NEW t \in Terminals, current_process = t, frames[t] = << >>
    PROVE  /\ vid_page = Home(t)
           /\ Page \in {Home(t), t}
<1>1. vid_page = Home(t)
  BY DEF IInv, PageMapped
<1>2. video_mem \in {VIDMAP, t}
  BY DEF IInv, OwnVideo
<1> QED BY <1>1, <1>2, TerminalNumbers DEF Page

\* Output of a terminal on its home page or its own backing page stays its own.
LEMMA InkStays ==
    ASSUME IInv, crossed = FALSE, NEW t \in Terminals, NEW p \in {Home(t), t},
           ink' = [ink EXCEPT ![p] = @ \cup {t}],
           UNCHANGED <<current_terminal, crossed>>
    PROVE  ink' \in [Pages -> SUBSET Terminals] /\ OwnInk'
<1>1. /\ ink \in [Pages -> SUBSET Terminals] /\ current_terminal \in Terminals
      /\ ink[VIDEO] \subseteq {current_terminal} /\ \A u \in Terminals : ink[u] \subseteq {u}
  BY DEF IInv, TypeOK, OwnInk
<1>2. TypeOK
  BY DEF IInv
<1>3. p \in Pages /\ VIDEO \in Pages /\ VIDEO \notin Terminals /\ Terminals \subseteq Pages
  BY <1>2, HomePage, TerminalNumbers DEF Pages
<1>4. p = VIDEO => t = current_terminal
  BY <1>2, <1>3, HomePage
<1>5. p # VIDEO => p = t
  BY <1>2, HomePage
<1>6. ink' \in [Pages -> SUBSET Terminals]
  BY <1>1, <1>3
<1>7. \A q \in Pages : ink'[q] = IF q = p THEN ink[p] \cup {t} ELSE ink[q]
  BY <1>1, <1>3
<1>8. ink'[VIDEO] \subseteq {current_terminal}
  BY <1>1, <1>3, <1>4, <1>7
<1>9. \A u \in Terminals : ink'[u] \subseteq {u}
  BY <1>1, <1>3, <1>5, <1>7
<1> QED BY <1>6, <1>8, <1>9 DEF OwnInk

-----------------------------------------------------------------------------
(* The actions of the programs.                                            *)

LEMMA SysWriteStep ==
    ASSUME IInv, NEW t \in Terminals, SysWrite(t)
    PROVE  IInv'
<1>1. /\ crossed = FALSE /\ current_process = t /\ frames[t] = << >>
      /\ UNCHANGED <<swVars, vidVars, current_process, frames, stale, crossed>>
      /\ UNCHANGED <<current_terminal, terminal_request, schedule_tick, video_mem, vid_page>>
  BY DEF SysWrite, In, swVars, vidVars, IInv, TypeOK
<1>2. PageMapped' /\ OwnVideo' /\ OwnPast' /\ NestBound'
  BY <1>1, QuietStep
<1>3. place' \in [Terminals -> {"none", "user", "read", "line", "window"}]
      /\ parked' \in [Terminals -> -1 .. MaxNest] /\ CpuRuns'
  BY <1>1, GoesOn DEF SysWrite
<1>4. ink' \in [Pages -> SUBSET Terminals] /\ OwnInk'
  <2>1. Page \in {Home(t), t}
    BY <1>1, OutputPage
  <2>2. ink' = [ink EXCEPT ![Page] = @ \cup {t}]
    BY DEF SysWrite
  <2> QED BY <1>1, <2>1, <2>2, InkStays
<1>6. TypeOK'
  BY <1>1, <1>3, <1>4 DEF IInv, TypeOK
<1> QED BY <1>2, <1>3, <1>4, <1>6 DEF IInv

LEMMA DrawVidmapStep ==
    ASSUME IInv, NEW t \in Terminals, DrawVidmap(t)
    PROVE  IInv'
<1>1. /\ crossed = FALSE /\ current_process = t /\ frames[t] = << >>
      /\ UNCHANGED <<swVars, vidVars, current_process, frames, stale, crossed>>
      /\ UNCHANGED <<current_terminal, terminal_request, schedule_tick, video_mem, vid_page, place, parked>>
  BY DEF DrawVidmap, In, swVars, vidVars, runVars, IInv, TypeOK
<1>2. PageMapped' /\ OwnVideo' /\ OwnPast' /\ NestBound'
  BY <1>1, QuietStep
<1>3. ink' \in [Pages -> SUBSET Terminals] /\ OwnInk'
  <2>1. vid_page \in {Home(t), t}
    BY <1>1, OutputPage
  <2>2. ink' = [ink EXCEPT ![vid_page] = @ \cup {t}]
    BY DEF DrawVidmap
  <2> QED BY <1>1, <2>1, <2>2, InkStays
<1>4. TypeOK' /\ CpuRuns'
  BY <1>1, <1>3 DEF IInv, TypeOK, CpuRuns
<1> QED BY <1>2, <1>3, <1>4 DEF IInv

\* SysRead, ReadReturns and WindowCloses change a place.
LEMMA PlaceStep ==
    ASSUME IInv, NEW t \in Terminals, SysRead(t) \/ ReadReturns(t) \/ WindowCloses(t)
    PROVE  IInv'
<1>1. /\ UNCHANGED <<swVars, vidVars, ink, current_process, frames, stale, crossed>>
      /\ UNCHANGED <<current_terminal, terminal_request, schedule_tick, video_mem, vid_page>>
  BY DEF SysRead, ReadReturns, WindowCloses, swVars, vidVars
<1>2. PICK p \in {"user", "read", "line", "window"} : Goes(t, p)
  BY DEF SysRead, ReadReturns, WindowCloses
<1>3. place' \in [Terminals -> {"none", "user", "read", "line", "window"}]
      /\ parked' \in [Terminals -> -1 .. MaxNest] /\ CpuRuns'
  BY <1>1, <1>2, GoesOn
<1>5. PageMapped' /\ OwnVideo' /\ OwnPast' /\ NestBound'
  BY <1>1, QuietStep
<1>6. TypeOK' /\ OwnInk'
  BY <1>1, <1>3 DEF IInv, TypeOK, OwnInk
<1> QED BY <1>3, <1>5, <1>6 DEF IInv

\* The page mapped is the home page of the terminal that gets the processor.
LEMMA MappedHome ==
    ASSUME IInv, NEW t \in Terminals, current_process' = t, current_terminal' \in Terminals,
           vid_page' = (IF t # current_terminal' THEN t ELSE VIDEO),
           video_mem' = (IF t # current_terminal' THEN t ELSE VIDMAP)
    PROVE  vid_page' \in Pages /\ video_mem' \in Pages \cup {VIDMAP} /\ PageMapped' /\ OwnVideo'
BY TerminalNumbers DEF Pages, PageMapped, OwnVideo, Home

LEMMA SysExecuteStep ==
    ASSUME IInv, NEW t \in Terminals, SysExecute(t)
    PROVE  IInv'
<1>1. /\ UNCHANGED <<current_terminal, terminal_request, schedule_tick, ink>>
      /\ UNCHANGED <<current_process, place, frames, parked, crossed>>
      /\ current_process = t /\ current_terminal = t
      /\ vid_page' = VIDEO /\ video_mem' = VIDMAP /\ stale' = FALSE
  BY DEF SysExecute, In, SetVideo, swVars, runVars
<1>2. vid_page' \in Pages /\ video_mem' \in Pages \cup {VIDMAP} /\ PageMapped' /\ OwnVideo'
  BY <1>1, MappedHome
<1>3. stale' \in BOOLEAN
  BY <1>1
<1>4. TypeOK' /\ OwnPast' /\ CpuRuns' /\ NestBound' /\ OwnInk'
  BY <1>1, <1>2, <1>3 DEF IInv, TypeOK, OwnPast, CpuRuns, NestBound, OwnInk
<1> QED BY <1>2, <1>4 DEF IInv
-----------------------------------------------------------------------------
(* The timer.                                                              *)

LEMMA TimerStep ==
    ASSUME IInv, timer_handler
    PROVE  IInv'
<1> DEFINE next == NextTerminal
<1>1. /\ UNCHANGED <<current_terminal, ink, place, frames, crossed>>
      /\ current_process' = next /\ terminal_request' = -1
      /\ vid_page' = (IF next # current_terminal' THEN next ELSE VIDEO)
      /\ video_mem' = (IF next # current_terminal' THEN next ELSE VIDMAP)
      /\ stale' = FALSE
  BY DEF timer_handler, Map
<1>2. TypeOK /\ CpuRuns /\ NestBound
  BY DEF IInv
<1>3. next \in Terminals /\ place[next] # "none"
  BY <1>2, NextRuns
<1>4. current_terminal' \in Terminals
  BY <1>1, <1>2 DEF TypeOK
<1> HIDE DEF next
<1>5. vid_page' \in Pages /\ video_mem' \in Pages \cup {VIDMAP} /\ PageMapped' /\ OwnVideo'
  BY <1>1, <1>3, <1>4, MappedHome
<1>6. parked' \in [Terminals -> -1 .. MaxNest]
  <2>1. current_process \in Terminals /\ frames[current_process] \in Seq(Frame)
    BY <1>2 DEF TypeOK
  <2>2. Len(frames[current_process]) \in Nat /\ Len(frames[current_process]) <= MaxNest
    BY <1>2, <2>1 DEF NestBound
  <2>3. Len(frames[current_process]) \in -1 .. MaxNest /\ -1 \in -1 .. MaxNest
    BY <2>2, DisplayNestAssumption
  <2>4. PICK v \in -1 .. MaxNest : parked' = [parked EXCEPT ![current_process] = v]
    BY <2>3 DEF timer_handler
  <2> QED BY <1>2, <2>4 DEF TypeOK
<1>7. schedule_tick' \in {0, 1}
  BY <1>2 DEF timer_handler, NextTick, TypeOK
<1>8. stale' \in BOOLEAN
  BY <1>1
<1>9. TypeOK'
  BY <1>1, <1>2, <1>3, <1>4, <1>5, <1>6, <1>7, <1>8 DEF TypeOK
<1>10. OwnPast' /\ CpuRuns' /\ NestBound' /\ OwnInk'
  BY <1>1, <1>3 DEF IInv, OwnPast, CpuRuns, NestBound, OwnInk
<1> QED BY <1>5, <1>9, <1>10 DEF IInv

-----------------------------------------------------------------------------
(* The keyboard.                                                           *)

LEMMA ReturnKeyStep ==
    ASSUME IInv, ReturnKey
    PROVE  IInv'
<1>1. /\ UNCHANGED <<swVars, vidVars, ink, current_process, frames, parked, stale, crossed>>
      /\ UNCHANGED <<current_terminal, terminal_request, schedule_tick, video_mem, vid_page>>
  BY DEF ReturnKey, swVars, vidVars
<1>2. PageMapped' /\ OwnVideo' /\ OwnPast' /\ NestBound'
  BY <1>1, QuietStep
<1>3. place' = [place EXCEPT ![current_terminal] = "line"]
  BY DEF ReturnKey
<1>4. TypeOK' /\ CpuRuns'
  BY <1>1, <1>3 DEF IInv, TypeOK, CpuRuns
<1>5. OwnInk'
  BY <1>1 DEF IInv, OwnInk
<1> QED BY <1>2, <1>4, <1>5 DEF IInv

LEMMA ClearKeyStep ==
    ASSUME IInv, ClearKey
    PROVE  IInv'
<1>1. /\ UNCHANGED <<swVars, vidVars, current_process, frames, place, parked, stale, crossed>>
      /\ UNCHANGED <<current_terminal, terminal_request, schedule_tick, video_mem, vid_page>>
      /\ ink' = [ink EXCEPT ![VIDEO] = {}]
  BY DEF ClearKey, swVars, vidVars, runVars
<1>2. PageMapped' /\ OwnVideo' /\ OwnPast' /\ NestBound'
  BY <1>1, QuietStep
<1>3. ink' \in [Pages -> SUBSET Terminals] /\ ink'[VIDEO] = {} /\ \A t \in Terminals : ink'[t] = ink[t]
  BY <1>1, TerminalNumbers DEF IInv, TypeOK, Pages
<1>4. TypeOK' /\ CpuRuns'
  BY <1>1, <1>3 DEF IInv, TypeOK, CpuRuns
<1>5. OwnInk'
  BY <1>1, <1>3 DEF IInv, OwnInk
<1> QED BY <1>2, <1>4, <1>5 DEF IInv

\* What entering a handler keeps: the outermost handler saves the interrupted program's
\* pointer, and the handlers that wait for a tick go on waiting.
LEMMA HandlerEntered ==
    ASSUME IInv, CanNest, NEW f \in Frame, f.past = video_mem, Enter(f), current_process' = current_process
    PROVE  /\ frames' \in [Terminals -> Seq(Frame)] /\ NestBound'
           /\ OwnPast' /\ OwnVideo'
           /\ \E i \in DOMAIN frames'[current_process] : frames'[current_process][i] = f
           /\ \A i \in DOMAIN frames[current_process] :
                \E j \in DOMAIN frames'[current_process] : frames'[current_process][j] = frames[current_process][i]
<1> DEFINE cp == current_process
           n == Len(frames[cp])
<1>1. /\ frames' \in [Terminals -> Seq(Frame)] /\ NestBound' /\ frames'[cp] # << >>
      /\ \A t \in Terminals \ {cp} : frames'[t] = frames[t]
      /\ Len(frames'[cp]) = n + 1 /\ frames'[cp][n + 1] = f
      /\ \A i \in DOMAIN frames[cp] : i \in DOMAIN frames'[cp] /\ frames'[cp][i] = frames[cp][i]
  BY EnterFrame
<1>2. cp \in Terminals /\ frames[cp] \in Seq(Frame) /\ n \in Nat /\ DOMAIN frames[cp] = 1 .. n
  BY DEF IInv, TypeOK
<1>3. frames'[cp] \in Seq(Frame) /\ DOMAIN frames'[cp] = 1 .. n + 1
  BY <1>1, <1>2
<1>4. frames'[cp][1].past \in {VIDMAP, cp}
  <2>1. CASE n = 0
    <3>1. frames[cp] = << >> /\ frames'[cp][1] = f
      BY <1>1, <1>2, <2>1
    <3> QED BY <3>1 DEF IInv, OwnVideo
  <2>2. CASE n # 0
    <3>1. frames[cp] # << >> /\ 1 \in DOMAIN frames[cp]
      BY <1>2, <2>2
    <3>2. frames'[cp][1] = frames[cp][1]
      BY <1>1, <3>1
    <3> QED BY <1>2, <3>1, <3>2 DEF IInv, OwnPast
  <2> QED BY <2>1, <2>2
<1>5. OwnPast'
  <2> SUFFICES ASSUME NEW t \in Terminals, frames'[t] # << >>
               PROVE  frames'[t][1].past \in {VIDMAP, t}
    BY DEF OwnPast
  <2>1. CASE t = cp
    BY <1>4, <2>1
  <2>2. CASE t # cp
    BY <1>1, <2>2 DEF IInv, OwnPast
  <2> QED BY <2>1, <2>2
<1>6. OwnVideo'
  BY <1>1 DEF OwnVideo
<1>7. n + 1 \in DOMAIN frames'[cp]
  BY <1>2, <1>3
<1> QED BY <1>1, <1>5, <1>6, <1>7

LEMMA EchoKeyStep ==
    ASSUME IInv, NEW more \in BOOLEAN, EchoKey(more)
    PROVE  IInv'
<1> DEFINE f == [past |-> video_mem, ticked |-> -1, more |-> more, who |-> current_terminal]
<1>1. /\ CanNest /\ crossed = FALSE /\ Enter(f) /\ video_mem' = VIDEO
      /\ ink' = [ink EXCEPT ![VIDEO] = @ \cup {current_terminal}]
      /\ UNCHANGED <<current_terminal, terminal_request, schedule_tick, vid_page>>
      /\ UNCHANGED <<current_process, place, parked, stale, crossed>>
  BY DEF EchoKey, CanNest, InterruptsOn, swVars, IInv, TypeOK
<1>2. f \in Frame /\ f.past = video_mem
  BY DEF Frame, IInv, TypeOK
<1> HIDE DEF f
<1>3. /\ frames' \in [Terminals -> Seq(Frame)] /\ NestBound' /\ OwnPast' /\ OwnVideo'
      /\ \A i \in DOMAIN frames[current_process] :
            \E j \in DOMAIN frames'[current_process] : frames'[current_process][j] = frames[current_process][i]
  BY <1>1, <1>2, HandlerEntered
<1>4. PageMapped'
  BY <1>1, <1>3 DEF IInv, PageMapped, Home
<1>5. current_terminal \in Terminals /\ VIDEO \in {Home(current_terminal), current_terminal}
  BY DEF IInv, TypeOK, Home
<1>6. ink' \in [Pages -> SUBSET Terminals] /\ OwnInk'
  BY <1>1, <1>5, InkStays
<1>7. VIDEO \in Pages
  BY DEF Pages
<1>8. TypeOK' /\ CpuRuns'
  BY <1>1, <1>3, <1>6, <1>7 DEF IInv, TypeOK, CpuRuns
<1> QED BY <1>3, <1>4, <1>6, <1>8 DEF IInv

\* The rest of an echo leaves handlers, and what they will do, as they are.
LEMMA EchoMoreStep ==
    ASSUME IInv, NEW t \in Terminals, EchoMore(t)
    PROVE  IInv'
<1> DEFINE s == frames[t]
           n == Len(s)
           w == s[n].who
           g == [s[n] EXCEPT !.more = FALSE]
<1>1. /\ crossed = FALSE /\ current_process = t /\ s # << >>
      /\ ink' = [ink EXCEPT ![Page] = @ \cup {w}]
      /\ crossed' = (Page # VIDEO \/ w # current_terminal)
      /\ frames' = [frames EXCEPT ![t][n].more = FALSE]
      /\ UNCHANGED <<current_terminal, terminal_request, schedule_tick, video_mem, vid_page>>
      /\ UNCHANGED <<current_process, place, parked, stale>>
  BY DEF EchoMore, Last, swVars, vidVars, IInv, TypeOK
<1>2. s \in Seq(Frame) /\ n \in Nat \ {0} /\ DOMAIN s = 1 .. n
  BY <1>1 DEF IInv, TypeOK
<1>3. g \in Frame /\ g.past = s[n].past /\ g.ticked = s[n].ticked
  <2>1. s[n] \in Frame
    BY <1>2
  <2>2. \A r \in Frame : [r EXCEPT !.more = FALSE] \in Frame
    BY DEF Frame
  <2>3. \A r \in Frame : [r EXCEPT !.more = FALSE].past = r.past /\ [r EXCEPT !.more = FALSE].ticked = r.ticked
    BY DEF Frame
  <2> QED BY <2>1, <2>2, <2>3
<1>4. frames' = [frames EXCEPT ![t] = [s EXCEPT ![n] = g]]
  BY <1>1
<1> HIDE DEF g
<1>5. frames'[t] = [s EXCEPT ![n] = g] /\ \A u \in Terminals \ {t} : frames'[u] = frames[u]
  BY <1>4 DEF IInv, TypeOK
<1>6. [s EXCEPT ![n] = g] \in Seq(Frame) /\ Len([s EXCEPT ![n] = g]) = n
  <2>1. n \in 1 .. Len(s)
    BY <1>2
  <2> HIDE DEF s, n
  <2> QED BY <1>2, <1>3, <2>1, ExceptSeq
<1>7. frames' \in [Terminals -> Seq(Frame)]
  BY <1>4, <1>6 DEF IInv, TypeOK
<1>8. /\ DOMAIN frames'[t] = 1 .. n /\ frames'[t] # << >>
      /\ \A i \in 1 .. n : frames'[t][i].past = s[i].past /\ frames'[t][i].ticked = s[i].ticked
  BY <1>2, <1>3, <1>5, <1>6
<1>9. NestBound'
  <2> SUFFICES ASSUME NEW u \in Terminals
               PROVE  Len(frames'[u]) <= MaxNest
    BY DEF NestBound
  <2> QED BY <1>5, <1>6 DEF IInv, NestBound
<1>10. OwnPast'
  <2> SUFFICES ASSUME NEW u \in Terminals, frames'[u] # << >>
               PROVE  frames'[u][1].past \in {VIDMAP, u}
    BY DEF OwnPast
  <2>1. frames[u] # << >> /\ frames'[u][1].past = frames[u][1].past
    BY <1>1, <1>2, <1>5, <1>8
  <2> QED BY <2>1 DEF IInv, OwnPast
<1>11. OwnVideo'
  BY <1>1, <1>8 DEF OwnVideo
<1>12. PageMapped'
  BY <1>1, <1>2, <1>8 DEF IInv, PageMapped, Home
<1>13. Page \in Pages /\ w \in Terminals /\ current_terminal \in Terminals /\ ink \in [Pages -> SUBSET Terminals]
  <2>1. s[n] \in Frame
    BY <1>2
  <2>2. w \in Terminals
    BY <2>1 DEF Frame
  <2> QED BY <2>2 DEF Page, IInv, TypeOK
<1> HIDE DEF w
<1>14. ink' \in [Pages -> SUBSET Terminals]
  BY <1>1, <1>13
<1>15. OwnInk'
  <2>1. CASE Page # VIDEO \/ w # current_terminal
    BY <1>1, <2>1 DEF OwnInk
  <2>2. CASE Page = VIDEO /\ w = current_terminal
    <3>1. crossed' = FALSE /\ VIDEO \in {Home(current_terminal), current_terminal}
      BY <1>1, <2>2 DEF Home
    <3> QED BY <1>1, <1>13, <2>2, <3>1, InkStays
  <2> QED BY <2>1, <2>2
<1>16. crossed' \in BOOLEAN
  BY <1>1
<1>17. TypeOK' /\ CpuRuns'
  BY <1>1, <1>7, <1>14, <1>16 DEF IInv, TypeOK, CpuRuns
<1> QED BY <1>9, <1>10, <1>11, <1>12, <1>15, <1>17 DEF IInv

\* terminal_switch: the exchanged pages are again those of their terminals,
\* with num displayed.
LEMMA Switched ==
    ASSUME IInv, NEW num \in Terminals, Switches(num), UNCHANGED crossed,
           NEW new \in SUBSET {num},
           ink' = [ink EXCEPT ![current_terminal] = ink[VIDEO], ![VIDEO] = new]
    PROVE  /\ current_terminal' = num
           /\ ink' \in [Pages -> SUBSET Terminals] /\ OwnInk'
<1>1. /\ current_terminal \in Terminals /\ current_terminal' = num /\ num # current_terminal
      /\ crossed = FALSE
      /\ ink \in [Pages -> SUBSET Terminals]
  BY DEF Switches, CanNest, InterruptsOn, IInv, TypeOK
<1>2. VIDEO \in Pages /\ VIDEO \notin Terminals /\ Terminals \subseteq Pages
  BY TerminalNumbers DEF Pages
<1>3. ink[VIDEO] \subseteq {current_terminal} /\ \A t \in Terminals : ink[t] \subseteq {t}
  BY <1>1 DEF IInv, OwnInk
<1>4. /\ ink' \in [Pages -> SUBSET Terminals] /\ ink'[VIDEO] = new /\ ink'[current_terminal] = ink[VIDEO]
      /\ \A t \in Terminals \ {current_terminal} : ink'[t] = ink[t]
  BY <1>1, <1>2
<1>5. OwnInk'
  <2>1. \A t \in Terminals : ink'[t] \subseteq {t}
    BY <1>3, <1>4
  <2> QED BY <1>1, <1>4, <2>1 DEF OwnInk
<1> QED BY <1>1, <1>4, <1>5

LEMMA SwitchRunningStep ==
    ASSUME IInv, NEW num \in Terminals, SwitchRunning(num)
    PROVE  IInv'
<1> DEFINE f == [past |-> video_mem, ticked |-> schedule_tick, more |-> FALSE, who |-> num]
<1>1. /\ Switches(num) /\ CanNest /\ place[num] # "none" /\ Enter(f) /\ video_mem' = VIDEO
      /\ terminal_request' = num
      /\ UNCHANGED <<schedule_tick, vid_page, current_process, place, parked, stale, crossed>>
  BY DEF SwitchRunning, Switches, Running
<1>2. f \in Frame
  BY DEF Frame, IInv, TypeOK
<1>3. f.past = video_mem /\ f.ticked = schedule_tick
  OBVIOUS
<1> HIDE DEF f
<1>4. /\ frames' \in [Terminals -> Seq(Frame)] /\ NestBound' /\ OwnPast' /\ OwnVideo'
      /\ \E i \in DOMAIN frames'[current_process] : frames'[current_process][i] = f
  BY <1>1, <1>2, <1>3, HandlerEntered
<1>5. PageMapped'
  BY <1>1, <1>3, <1>4 DEF PageMapped
<1>6. /\ current_terminal' = num
      /\ ink' \in [Pages -> SUBSET Terminals] /\ OwnInk'
  <2>1. ink' = [ink EXCEPT ![current_terminal] = ink[VIDEO], ![VIDEO] = ink[num]]
    BY DEF SwitchRunning, Exchange
  <2>3. ink[num] \in SUBSET {num}
    BY <1>1 DEF IInv, OwnInk, CanNest, InterruptsOn
  <2> QED BY <1>1, <2>1, <2>3, Switched
<1>7. VIDEO \in Pages
  BY DEF Pages
<1>8. TypeOK' /\ CpuRuns'
  BY <1>1, <1>4, <1>6, <1>7 DEF IInv, TypeOK, CpuRuns
<1> QED BY <1>4, <1>5, <1>6, <1>8 DEF IInv

\* Dropping the handlers above the first k of one terminal keeps what the others promise.
LEMMA HandlersDropped ==
    ASSUME IInv, NEW t \in Terminals, NEW k \in Nat, k <= Len(frames[t]),
           frames' = [frames EXCEPT ![t] = SubSeq(frames[t], 1, k)]
    PROVE  /\ frames' \in [Terminals -> Seq(Frame)] /\ NestBound' /\ OwnPast'
           /\ frames'[t] \in Seq(Frame) /\ Len(frames'[t]) = k
           /\ \A i \in 1 .. k : frames'[t][i] = frames[t][i]
<1> DEFINE s == frames[t]
           r == SubSeq(s, 1, k)
<1>1. s \in Seq(Frame) /\ Len(s) \in Nat /\ frames \in [Terminals -> Seq(Frame)]
  BY DEF IInv, TypeOK
<1>2. r \in Seq(Frame) /\ Len(r) = k /\ \A i \in 1 .. k : r[i] = s[i]
  <2>1. \A i \in 1 .. k : s[i] \in Frame
    BY <1>1
  <2> HIDE DEF s
  <2> QED BY <2>1, SubSeqProperties
<1> HIDE DEF r
<1>3. frames' = [frames EXCEPT ![t] = r]
  BY DEF r
<1>4. frames'[t] = r /\ \A u \in Terminals \ {t} : frames'[u] = frames[u]
  BY <1>1, <1>3
<1>5. frames' \in [Terminals -> Seq(Frame)]
  BY <1>1, <1>2, <1>3
<1>6. NestBound'
  <2> SUFFICES ASSUME NEW u \in Terminals
               PROVE  Len(frames'[u]) <= MaxNest
    BY DEF NestBound
  <2>1. Len(frames[u]) <= MaxNest
    BY DEF IInv, NestBound
  <2> QED BY <1>1, <1>2, <1>4, <2>1, DisplayNestAssumption
<1>7. OwnPast'
  <2> SUFFICES ASSUME NEW u \in Terminals, frames'[u] # << >>
               PROVE  frames'[u][1].past \in {VIDMAP, u}
    BY DEF OwnPast
  <2>1. frames[u] # << >> /\ frames'[u][1] = frames[u][1]
    <3>1. CASE u # t
      BY <1>4, <3>1
    <3>2. CASE u = t
      <4>1. r # << >>
        BY <1>4, <3>2
      <4>2. 1 \in 1 .. k
        BY <1>2, <4>1
      <4> QED BY <1>1, <1>2, <1>4, <3>2, <4>2
    <3> QED BY <3>1, <3>2
  <2> QED BY <2>1 DEF IInv, OwnPast
<1> QED BY <1>2, <1>4, <1>5, <1>6, <1>7

LEMMA SwitchNewStep ==
    ASSUME IInv, NEW num \in Terminals, SwitchNew(num)
    PROVE  IInv'
<1> DEFINE cp == current_process
           k == parked[cp]
<1>1. /\ Switches(num) /\ CanNest /\ k # -1 /\ k <= Len(frames[cp])
      /\ current_process' = num
      /\ frames' = [frames EXCEPT ![cp] = SubSeq(frames[cp], 1, k)]
      /\ place' = [place EXCEPT ![num] = "user"]
      /\ vid_page' = VIDEO /\ video_mem' = VIDMAP /\ stale' = FALSE
      /\ UNCHANGED <<terminal_request, schedule_tick, parked, crossed>>
  BY DEF SwitchNew, Switches, SetVideo, IInv, TypeOK
<1>2. cp \in Terminals /\ k \in Nat
  BY <1>1, DisplayNestAssumption DEF IInv, TypeOK
<1>3. frames' \in [Terminals -> Seq(Frame)] /\ NestBound' /\ OwnPast'
  BY <1>1, <1>2, HandlersDropped
<1>4. /\ current_terminal' = num
      /\ ink' \in [Pages -> SUBSET Terminals] /\ OwnInk'
  <2>1. ink' = [ink EXCEPT ![current_terminal] = ink[VIDEO], ![VIDEO] = {}]
    BY DEF SwitchNew
  <2>2. {} \in SUBSET {num} /\ UNCHANGED crossed
    BY <1>1
  <2> QED BY <1>1, <2>1, <2>2, Switched
<1>5. vid_page' \in Pages /\ video_mem' \in Pages \cup {VIDMAP} /\ PageMapped' /\ OwnVideo'
  BY <1>1, <1>4, MappedHome
<1>6. place' \in [Terminals -> {"none", "user", "read", "line", "window"}] /\ CpuRuns'
  BY <1>1 DEF IInv, TypeOK, CpuRuns
<1>7. stale' \in BOOLEAN
  BY <1>1
<1>8. TypeOK'
  BY <1>1, <1>3, <1>4, <1>5, <1>6, <1>7 DEF IInv, TypeOK
<1> QED BY <1>3, <1>4, <1>5, <1>6, <1>8 DEF IInv

\* The innermost handler returns: one that waits for the tick is not it, so PageMapped's
\* witness lies below.
LEMMA HandlerReturnsStep ==
    ASSUME IInv, NEW t \in Terminals, HandlerReturns(t)
    PROVE  IInv'
<1> DEFINE s == frames[t]
           n == Len(s)
           f == s[n]
<1>1. /\ current_process = t /\ s # << >> /\ f.ticked # schedule_tick /\ video_mem' = f.past
      /\ stale' = (stale \/ f.past = current_terminal)
      /\ frames' = [frames EXCEPT ![t] = SubSeq(s, 1, n - 1)]
      /\ parked' = [parked EXCEPT ![t] = IF parked[t] >= n THEN -1 ELSE parked[t]]
      /\ UNCHANGED <<current_terminal, terminal_request, schedule_tick, vid_page>>
      /\ UNCHANGED <<ink, current_process, place, crossed>>
  BY DEF HandlerReturns, Last, swVars, IInv, TypeOK
<1>2. s \in Seq(Frame) /\ n \in Nat \ {0} /\ DOMAIN s = 1 .. n /\ f \in Frame
  BY <1>1 DEF IInv, TypeOK
<1>3. n - 1 \in Nat /\ n - 1 <= n
  BY <1>2
<1>4. /\ frames' \in [Terminals -> Seq(Frame)] /\ NestBound' /\ OwnPast'
      /\ frames'[t] \in Seq(Frame) /\ Len(frames'[t]) = n - 1
      /\ \A i \in 1 .. n - 1 : frames'[t][i] = s[i]
  BY <1>1, <1>3, HandlersDropped
<1>5. video_mem' \in Pages \cup {VIDMAP}
  BY <1>1, <1>2 DEF Frame
<1>6. stale' \in BOOLEAN
  BY <1>1
<1>7. parked' \in [Terminals -> -1 .. MaxNest]
  <2>1. parked[t] \in -1 .. MaxNest /\ -1 \in -1 .. MaxNest
    BY DisplayNestAssumption DEF IInv, TypeOK
  <2>2. PICK v \in -1 .. MaxNest : parked' = [parked EXCEPT ![t] = v]
    BY <1>1, <2>1
  <2> QED BY <2>2 DEF IInv, TypeOK
<1>8. PageMapped'
  <2> SUFFICES ASSUME vid_page # Home(t)
               PROVE  \E i \in DOMAIN frames'[t] : frames'[t][i].ticked = schedule_tick
    BY <1>1 DEF PageMapped, Home
  <2>1. PICK i \in 1 .. n : s[i].ticked = schedule_tick
    BY <1>1, <1>2 DEF IInv, PageMapped
  <2>2. i # n
    BY <1>1, <2>1
  <2>3. i \in 1 .. n - 1 /\ DOMAIN frames'[t] = 1 .. n - 1
    BY <1>2, <1>4, <2>1, <2>2
  <2> QED BY <1>4, <2>1, <2>3
<1>9. OwnVideo'
  <2> SUFFICES ASSUME frames'[t] = << >>
               PROVE  /\ video_mem' \in {VIDMAP, t}
                      /\ ~stale' /\ video_mem' = t => t # current_terminal
    BY <1>1 DEF OwnVideo
  <2>1. n = 1
    BY <1>2, <1>4
  <2>2. f.past \in {VIDMAP, t}
    BY <1>1, <2>1 DEF IInv, OwnPast
  <2> QED BY <1>1, <2>2
<1>10. TypeOK' /\ CpuRuns' /\ OwnInk'
  BY <1>1, <1>4, <1>5, <1>6, <1>7 DEF IInv, TypeOK, CpuRuns, OwnInk
<1> QED BY <1>4, <1>8, <1>9, <1>10 DEF IInv

-----------------------------------------------------------------------------
(* The theorems.                                                           *)

LEMMA InitOK == Init => IInv
<1> SUFFICES ASSUME Init PROVE IInv
  OBVIOUS
<1> USE DEF Init
<1>1. 0 \in Terminals /\ VIDEO \notin Terminals /\ -1 \in -1 .. MaxNest
  BY TerminalNumbers, DisplayNestAssumption
<1>2. << >> \in Seq(Frame) /\ Len(<< >>) = 0
  BY EmptySeq
<1>3. \A t \in Terminals : frames[t] = << >>
  OBVIOUS
<1>4. TypeOK
  BY <1>1, <1>2 DEF TypeOK, Pages
<1>5. PageMapped /\ OwnVideo /\ OwnPast
  BY <1>1, <1>3, TerminalNumbers DEF PageMapped, OwnVideo, OwnPast, Home
<1>6. CpuRuns
  BY <1>1 DEF CpuRuns
<1>7. NestBound
  <2> SUFFICES ASSUME NEW t \in Terminals
               PROVE  Len(frames[t]) <= MaxNest
    BY DEF NestBound
  <2> QED BY <1>2, <1>3, DisplayNestAssumption
<1>8. OwnInk
  BY <1>1 DEF OwnInk, Pages
<1> QED BY <1>4, <1>5, <1>6, <1>7, <1>8 DEF IInv

LEMMA StutterOK == IInv /\ UNCHANGED vars => IInv'
<1> SUFFICES ASSUME IInv, UNCHANGED vars PROVE IInv'
  OBVIOUS
<1>1. /\ UNCHANGED <<swVars, vidVars, current_process, frames, stale>>
      /\ UNCHANGED <<current_terminal, terminal_request, schedule_tick, video_mem, vid_page>>
      /\ UNCHANGED <<ink, place, parked, crossed>>
  BY DEF vars, swVars, vidVars, runVars
<1>2. PageMapped' /\ OwnVideo' /\ OwnPast' /\ NestBound'
  BY <1>1, QuietStep
<1> QED BY <1>1, <1>2 DEF IInv, TypeOK, CpuRuns, OwnInk

LEMMA InductiveStep == IInv /\ [Next]_vars => IInv'
<1> SUFFICES ASSUME IInv, [Next]_vars PROVE IInv'
  OBVIOUS
<1>1. ASSUME NEW t \in Terminals, Program(t) PROVE IInv'
  BY <1>1, SysWriteStep, DrawVidmapStep, PlaceStep, SysExecuteStep DEF Program
<1>2. ASSUME NEW t \in Terminals, EchoMore(t) \/ HandlerReturns(t) PROVE IInv'
  BY <1>2, EchoMoreStep, HandlerReturnsStep
<1>3. CASE timer_handler \/ ReturnKey \/ ClearKey
  BY <1>3, TimerStep, ReturnKeyStep, ClearKeyStep
<1>4. ASSUME NEW more \in BOOLEAN, EchoKey(more) PROVE IInv'
  BY <1>4, EchoKeyStep
<1>5. ASSUME NEW num \in Terminals, SwitchRunning(num) \/ SwitchNew(num) PROVE IInv'
  BY <1>5, SwitchRunningStep, SwitchNewStep
<1>6. CASE Stopped \/ UNCHANGED vars
  BY <1>6, StutterOK DEF Stopped
<1> QED BY <1>1, <1>2, <1>3, <1>4, <1>5, <1>6 DEF Next

LEMMA Invariance == Spec => []IInv
<1> QED BY InitOK, InductiveStep, PTL DEF Spec

\* Every variable of the display keeps its range; in particular timer_handler always finds
\* a terminal with a shell, and the pages are those of existing terminals.
THEOREM TypeCorrect == Spec => []TypeOK
<1>1. IInv => TypeOK
  BY DEF IInv
<1> QED BY <1>1, Invariance, PTL

\* For any number of terminals and of handlers nested in each other: a program that runs
\* outside the keyboard handlers writes to the screen exactly when its terminal is
\* displayed, but for the pointer a switch puts back until the next tick.
THEOREM RoutedCorrect == Spec => []Routed
<1>1. ASSUME IInv PROVE Routed
  <2> SUFFICES ASSUME frames[current_process] = << >>
               PROVE  /\ ~stale => Page = Home(current_process)
                      /\ vid_page = Home(current_process)
    BY DEF Routed
  <2>1. vid_page = Home(current_process)
    BY <1>1 DEF IInv, PageMapped
  <2>2. current_process \in Terminals /\ video_mem \in {VIDMAP, current_process}
        /\ (~stale /\ video_mem = current_process => current_process # current_terminal)
    BY <1>1 DEF IInv, TypeOK, OwnVideo
  <2>3. ~stale => Page = Home(current_process)
    BY <2>1, <2>2, TerminalNumbers DEF Page, Home
  <2> QED BY <2>1, <2>3
<1> QED BY <1>1, Invariance, PTL

\* No terminal's page ever shows output of another, unless the echo of a key ran over
\* the end of a row and a tick or a switch came in the window of next_line (crossed).
THEOREM InkCorrect == Spec => []OwnInk
<1>1. IInv => OwnInk
  BY DEF IInv
<1> QED BY <1>1, Invariance, PTL
=============================================================================
