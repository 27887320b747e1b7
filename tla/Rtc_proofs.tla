----------------------------- MODULE Rtc_proofs -----------------------------
(***************************************************************************)
(* Proofs about Rtc and the interrupt path below it, for every number of   *)
(* terminals and every set of rates: what is in service has a handler that *)
(* will acknowledge it, the chip runs at the rate asked for, and rtc_read  *)
(* waits for an interrupt of its own time.                                 *)
(***************************************************************************)
EXTENDS Rtc, TLAPS

-----------------------------------------------------------------------------
(* The inductive invariant.                                                *)

\* The shell starts last.
BootComplete == Booted => BootSteps \subseteq ready

\* initialize_IDT comes first and nothing changes its table.
IdtInstalled == "idt" \in ready => idt = InitialIdt

\* Interrupts are taken only after boot.
HandlingBooted == handling # NoIrq => Booted

\* So are system calls made.
PlacesBooted == \A t \in Terminals : place[t] # "user" \/ frames[t] # "none" => Booted

\* A reader whose counter has moved has seen the interrupt that moved it.
CountedSince ==
    \A t \in Terminals : place[t] = "wait" /\ rtc_virtual_interupt[t] >= 1 => since[t]

\* The rate bits belong to the frequency asked for.
RateAsked == \E n \in 1 .. 15 : asked = Power(n) /\ rate = RateBits(n)

IInv ==
    /\ TypeOK
    /\ BootComplete
    /\ IdtInstalled
    /\ HandlingBooted
    /\ PlacesBooted
    /\ ServiceMatches
    /\ CountedSince
    /\ RateAsked

-----------------------------------------------------------------------------
(* Lemmas about the operators.                                             *)

LEMMA BootNames ==
    /\ DOMAIN BootOrder = 1 .. 9
    /\ BootOrder[1] = "idt" /\ BootOrder[2] = "pit" /\ BootOrder[3] = "keyboard"
    /\ BootOrder[4] = "rtc" /\ BootOrder[5] = "paging" /\ BootOrder[6] = "pcb"
    /\ BootOrder[7] = "first" /\ BootOrder[8] = "terminal" /\ BootOrder[9] = "execute"
    /\ BootSteps = {"idt", "pit", "keyboard", "rtc", "paging", "pcb", "first", "terminal", "execute"}
<1>1. /\ DOMAIN BootOrder = 1 .. 9
      /\ BootOrder[1] = "idt" /\ BootOrder[2] = "pit" /\ BootOrder[3] = "keyboard"
      /\ BootOrder[4] = "rtc" /\ BootOrder[5] = "paging" /\ BootOrder[6] = "pcb"
      /\ BootOrder[7] = "first" /\ BootOrder[8] = "terminal" /\ BootOrder[9] = "execute"
  BY DEF BootOrder
<1>2. \A i \in 1 .. 9 : i = 1 \/ i = 2 \/ i = 3 \/ i = 4 \/ i = 5 \/ i = 6 \/ i = 7 \/ i = 8 \/ i = 9
  OBVIOUS
<1>3. \A x : x \in BootSteps <=> \E i \in 1 .. 9 : x = BootOrder[i]
  BY <1>1 DEF BootSteps
<1>4. \A x : x \in BootSteps <=> x \in {"idt", "pit", "keyboard", "rtc", "paging", "pcb", "first", "terminal", "execute"}
  BY <1>1, <1>2, <1>3
<1> QED BY <1>1, <1>4

\* Every boot function but the last runs before the last.
LEMMA BootLast ==
    ASSUME BootStep("execute")
    PROVE  BootSteps \subseteq ready'
<1>1. PICK i \in DOMAIN BootOrder :
        BootOrder[i] = "execute" /\ ready = {BootOrder[j] : j \in 1 .. i - 1}
  BY DEF BootStep
<1>2. i = 9
  BY <1>1, BootNames
<1>3. \A j \in 1 .. 8 : BootOrder[j] \in ready
  BY <1>1, <1>2
<1>4. \A j \in 1 .. 9 : BootOrder[j] \in ready'
  BY <1>1, <1>2, <1>3 DEF BootStep
<1> QED BY <1>4, BootNames DEF BootSteps

\* The IDT is built when nothing else has run.
LEMMA BootFirst ==
    ASSUME BootStep("idt")
    PROVE  ready = {}
<1>1. PICK i \in DOMAIN BootOrder :
        BootOrder[i] = "idt" /\ ready = {BootOrder[j] : j \in 1 .. i - 1}
  BY DEF BootStep
<1>2. i = 1
  BY <1>1, BootNames
<1> QED BY <1>1, <1>2

LEMMA Powers ==
    /\ 2^1 = 2 /\ 2^2 = 4 /\ 2^3 = 8 /\ 2^4 = 16 /\ 2^5 = 32 /\ 2^6 = 64 /\ 2^7 = 128
    /\ 2^8 = 256 /\ 2^9 = 512 /\ 2^10 = 1024 /\ 2^11 = 2048 /\ 2^12 = 4096 /\ 2^13 = 8192
    /\ 2^14 = 16384 /\ 2^15 = 32768
OBVIOUS

\* The exponents above 13 give frequencies the chip does not have.
LEMMA LargePowers ==
    ASSUME NEW n \in 1 .. 15, Power(n) <= 8192
    PROVE  n <= 13
<1>1. ASSUME n = 14 PROVE FALSE
  <2>1. Power(n) = 2^14
    BY <1>1 DEF Power
  <2> QED BY <2>1, Powers
<1>2. ASSUME n = 15 PROVE FALSE
  <2>1. Power(n) = 2^15
    BY <1>2 DEF Power
  <2> QED BY <2>1, Powers
<1> QED BY <1>1, <1>2

\* The acknowledgement of timer or RTC ends its service on both chips.
LEMMA EoiEnds ==
    ASSUME TypeOK, ServiceMatches, handling \in {0, 8}, send_eoi(handling)
    PROVE  /\ isr'.master \subseteq {1} /\ isr'.slave = {} /\ isr' \in Chips(SUBSET Lines)
           /\ 1 \in isr'.master => 1 \in isr.master
<1>1. isr \in Chips(SUBSET Lines)
  BY DEF TypeOK, IntTypeOK
<1>2. CASE handling = 0
  <2>1. isr' = [isr EXCEPT !.master = isr.master \ {0}]
    BY <1>2 DEF send_eoi, Line
  <2>2. isr.slave = {} /\ 2 \notin isr.master /\ isr.master \subseteq {0, 1, 2}
    BY <1>2 DEF ServiceMatches
  <2> QED BY <1>1, <2>1, <2>2 DEF Chips
<1>3. CASE handling = 8
  <2>1. isr' = [master |-> isr.master \ {2}, slave |-> isr.slave \ {0}]
    BY <1>3 DEF send_eoi, Line
  <2>2. isr.slave = {0} /\ 0 \notin isr.master /\ isr.master \subseteq {0, 1, 2}
    BY <1>3 DEF ServiceMatches
  <2> QED BY <1>1, <2>1, <2>2 DEF Chips
<1> QED BY <1>2, <1>3

\* One for the keyboard ends no other service, whoever sends it.
LEMMA EoiKeyboard ==
    ASSUME TypeOK, ServiceMatches, handling \in {NoIrq, 1}, send_eoi(1)
    PROVE  isr'.master = {} /\ isr'.slave = {} /\ isr' \in Chips(SUBSET Lines)
<1>1. isr \in Chips(SUBSET Lines)
  BY DEF TypeOK, IntTypeOK
<1>2. isr' = [isr EXCEPT !.master = isr.master \ {1}]
  BY DEF send_eoi, Line
<1>3. handling # 0 /\ handling # 8
  BY DEF NoIrq
<1>4. isr.slave = {} /\ 0 \notin isr.master /\ 2 \notin isr.master /\ isr.master \subseteq {0, 1, 2}
  BY <1>3 DEF ServiceMatches
<1> QED BY <1>1, <1>2, <1>4 DEF Chips
-----------------------------------------------------------------------------
LEMMA InitIInv == Init => IInv
<1> SUFFICES ASSUME Init PROVE IInv
  OBVIOUS
<1>1. IntTypeOK
  <2>1. DOMAIN idt = {}
    BY DEF Init, IntInit
  <2> QED BY <2>1 DEF Init, IntInit, IntTypeOK, Chips
<1>2. TypeOK
  <2>1. 0 \in Terminals /\ 0 \in 0 .. MaxCount
    BY RtcTerminalsAssumption, MaxCountAssumption DEF Terminals
  <2>2. /\ rtc_virtual_interupt \in [Terminals -> 0 .. MaxCount]
        /\ place \in [Terminals -> {"user", "sti", "wait", "window"}]
        /\ frames \in [Terminals -> {"none", "row", "switch", "tail"}]
        /\ since \in [Terminals -> BOOLEAN]
    BY <2>1 DEF Init
  <2>3. rate \in 0 .. 15 /\ current_process \in Terminals /\ asked \in Rates \cup {2, 1024}
    BY <2>1 DEF Init, FirmwareRate
  <2>4. c_unread \in BOOLEAN
    BY DEF Init
  <2> QED BY <1>1, <2>2, <2>3, <2>4 DEF TypeOK
<1>3. BootComplete /\ IdtInstalled /\ HandlingBooted /\ PlacesBooted
  BY DEF Init, IntInit, BootComplete, Booted, IdtInstalled, HandlingBooted, PlacesBooted
<1>4. ServiceMatches
  BY DEF Init, IntInit, ServiceMatches, NoIrq
<1>5. CountedSince
  BY DEF Init, CountedSince
<1>6. RateAsked
  <2>1. asked = Power(10) /\ rate = RateBits(10)
    BY Powers DEF Init, Power, RateBits, FirmwareRate
  <2> QED BY <2>1 DEF RateAsked
<1> QED BY <1>2, <1>3, <1>4, <1>5, <1>6 DEF IInv

\* What concerns the driver only is kept when the driver's variables are.
LEMMA DriverKept ==
    ASSUME IInv, UNCHANGED rtcVars, Booted => Booted'
    PROVE  /\ CountedSince' /\ RateAsked' /\ PlacesBooted'
           /\ IntTypeOK' => TypeOK'
<1> USE DEF IInv, rtcVars
<1>1. CountedSince'
  BY DEF CountedSince
<1>2. RateAsked'
  BY DEF RateAsked
<1>3. PlacesBooted'
  BY DEF PlacesBooted
<1>4. IntTypeOK' => TypeOK'
  BY DEF TypeOK
<1> QED BY <1>1, <1>2, <1>3, <1>4

\* What concerns the interrupt path only is kept when its variables are.
LEMMA PathKept ==
    ASSUME IInv, UNCHANGED intVars
    PROVE  /\ IntTypeOK' /\ BootComplete' /\ IdtInstalled' /\ HandlingBooted'
           /\ Booted' = Booted /\ isr' = isr /\ handling' = handling
<1> USE DEF IInv, intVars, picVars
<1>1. IntTypeOK'
  BY DEF TypeOK, IntTypeOK
<1>2. BootComplete' /\ IdtInstalled' /\ HandlingBooted'
  BY DEF BootComplete, IdtInstalled, HandlingBooted, Booted
<1>3. Booted' = Booted /\ isr' = isr /\ handling' = handling
  BY DEF Booted
<1> QED BY <1>1, <1>2, <1>3

\* What is in service stays accounted for while the handlers in a row window stay.
LEMMA ServiceKept ==
    ASSUME ServiceMatches, isr' = isr, handling' = handling,
           \A t \in Terminals : frames[t] = "row" => frames'[t] = "row"
    PROVE  ServiceMatches'
BY DEF ServiceMatches

\* Boot: the functions called by entry.
LEMMA BootInv ==
    ASSUME IInv, Boot, UNCHANGED rtcVars
    PROVE  IInv'
<1>1. ASSUME NEW s \in BootSteps, BootStep(s)
      PROVE  /\ ready' \subseteq BootSteps /\ handling' = handling /\ BootComplete' /\ HandlingBooted'
             /\ Booted => Booted'
    <2>1. ready' = ready \cup {s} /\ handling' = handling
      BY <1>1 DEF BootStep
    <2>2. BootComplete'
      <3>1. CASE s = "execute"
        BY <1>1, <3>1, BootLast DEF BootComplete
      <3>2. CASE s # "execute"
        BY <2>1, <3>2 DEF IInv, BootComplete, Booted
      <3> QED BY <3>1, <3>2
    <2>3. HandlingBooted'
      BY <2>1 DEF IInv, HandlingBooted, Booted
    <2>4. Booted => Booted'
      BY <2>1 DEF Booted
    <2> QED BY <2>1, <2>2, <2>3, <2>4 DEF IInv, TypeOK, IntTypeOK
<1>2. CASE initialize_IDT
  <2>1. BootStep("idt") /\ ready = {}
    BY <1>2, BootFirst DEF initialize_IDT
  <2>2. handling = NoIrq
    BY <2>1 DEF IInv, HandlingBooted, Booted
  <2>3. /\ ready' \subseteq BootSteps /\ handling' = NoIrq /\ BootComplete' /\ HandlingBooted'
        /\ Booted => Booted'
    BY <1>1, <2>1, <2>2, BootNames
  <2>4. irr' = [master |-> {}, slave |-> {}] /\ isr' = [master |-> {}, slave |-> {}]
    BY <1>2 DEF initialize_IDT, i8259_init
  <2>5. idt' = InitialIdt /\ imr' = [master |-> Lines \ {1}, slave |-> Lines]
    BY <1>2 DEF initialize_IDT
  <2>6. DOMAIN InitialIdt \subseteq Vectors /\ \A v \in DOMAIN InitialIdt : InitialIdt[v] \in Handlers
    BY DEF InitialIdt, Handlers
  <2>7. IntTypeOK'
    BY <2>3, <2>4, <2>5, <2>6 DEF IntTypeOK, Chips
  <2>8. IdtInstalled'
    BY <2>5 DEF IdtInstalled
  <2>9. ServiceMatches'
    BY <2>3, <2>4 DEF ServiceMatches, NoIrq
  <2> QED BY <2>3, <2>7, <2>8, <2>9, DriverKept DEF IInv
<1>3. ASSUME NEW s \in BootSteps \ {"idt"}, BootStep(s), UNCHANGED <<idt, irr, isr>>,
             imr' \in Chips(SUBSET Lines)
      PROVE  IInv'
  <2>1. /\ ready' \subseteq BootSteps /\ handling' = handling /\ BootComplete' /\ HandlingBooted'
        /\ Booted => Booted'
    BY <1>1, <1>3
  <2>2. IntTypeOK'
    BY <1>3, <2>1 DEF IInv, TypeOK, IntTypeOK
  <2>3. IdtInstalled'
    BY <1>3 DEF IInv, IdtInstalled, BootStep
  <2>4. ServiceMatches'
    BY <1>3, <2>1, ServiceKept DEF IInv, rtcVars
  <2> QED BY <2>1, <2>2, <2>3, <2>4, DriverKept DEF IInv
<1>4. imr \in Chips(SUBSET Lines)
  BY DEF IInv, TypeOK, IntTypeOK
<1>6. CASE PIT_init
  <2>1. imr' \in Chips(SUBSET Lines)
    BY <1>4, <1>6 DEF PIT_init, enable_irq, Chips, Chip
  <2>2. "pit" \in BootSteps \ {"idt"}
    BY BootNames
  <2> QED BY <1>3, <1>6, <2>1, <2>2 DEF PIT_init
<1>7. CASE keyboard_init
  <2>1. imr' \in Chips(SUBSET Lines)
    BY <1>4, <1>7 DEF keyboard_init, enable_irq, Chips, Chip
  <2>2. "keyboard" \in BootSteps \ {"idt"}
    BY BootNames
  <2> QED BY <1>3, <1>7, <2>1, <2>2 DEF keyboard_init
<1>8. CASE RTC_init
  <2>1. imr' \in Chips(SUBSET Lines)
    BY <1>4, <1>8 DEF RTC_init, RTC_unmask, enable_irq, Chips, Chip
  <2>2. "rtc" \in BootSteps \ {"idt"}
    BY BootNames
  <2> QED BY <1>3, <1>8, <2>1, <2>2 DEF RTC_init
<1>9. CASE TablesInit
  BY <1>3, <1>4, <1>9, BootNames DEF TablesInit, picVars
<1> QED BY <1>2, <1>6, <1>7, <1>8, <1>9 DEF Boot
-----------------------------------------------------------------------------
(* Devices and handlers.                                                   *)

\* A request changes no line in service.
LEMMA RaiseInv ==
    ASSUME IInv, NEW irq \in Irqs, Raise(irq)
    PROVE  /\ IntTypeOK' /\ BootComplete' /\ IdtInstalled' /\ HandlingBooted'
           /\ Booted' = Booted /\ isr' = isr /\ handling' = handling
<1>1. UNCHANGED <<ready, idt, imr, isr, handling>>
  BY DEF Raise
<1>2. irr' \in Chips(SUBSET Lines)
  <2>1. irr \in Chips(SUBSET Lines)
    BY DEF IInv, TypeOK, IntTypeOK
  <2>2. irq = 0 \/ irq = 1 \/ irq = 8
    BY DEF Irqs
  <2>3. Line(irq) \in Lines /\ Chip(irq) \in {"master", "slave"}
    BY <2>2 DEF Line, Lines, Chip
  <2> QED BY <2>1, <2>3 DEF Raise, Chips
<1>3. IntTypeOK'
  BY <1>1, <1>2 DEF IInv, TypeOK, IntTypeOK
<1>4. BootComplete' /\ IdtInstalled' /\ HandlingBooted' /\ Booted' = Booted
  BY <1>1 DEF IInv, BootComplete, IdtInstalled, HandlingBooted, Booted
<1> QED BY <1>1, <1>3, <1>4

\* The chip requests its line once.
LEMMA RaiseRtcInv ==
    ASSUME IInv, RaiseRtc
    PROVE  IInv'
<1>1. 8 \in Irqs
  BY DEF Irqs
<1>2. /\ IntTypeOK' /\ BootComplete' /\ IdtInstalled' /\ HandlingBooted'
      /\ Booted' = Booted /\ isr' = isr /\ handling' = handling
  BY <1>1, RaiseInv DEF RaiseRtc
<1>3. TypeOK'
  BY <1>2 DEF IInv, TypeOK, RaiseRtc
<1>4. CountedSince' /\ RateAsked' /\ PlacesBooted'
  BY <1>2 DEF IInv, CountedSince, RateAsked, PlacesBooted, RaiseRtc
<1>5. ServiceMatches'
  BY <1>2, ServiceKept DEF IInv, RaiseRtc
<1> QED BY <1>2, <1>3, <1>4, <1>5 DEF IInv

\* PIT and keyboard.
LEMMA RaiseOtherInv ==
    ASSUME IInv, RaisePit \/ RaiseKey
    PROVE  IInv'
<1>1. 0 \in Irqs /\ 1 \in Irqs
  BY DEF Irqs
<1>2. /\ IntTypeOK' /\ BootComplete' /\ IdtInstalled' /\ HandlingBooted'
      /\ Booted' = Booted /\ isr' = isr /\ handling' = handling
  BY <1>1, RaiseInv DEF RaisePit, RaiseKey
<1>3. UNCHANGED rtcVars
  BY DEF RaisePit, RaiseKey
<1>4. ServiceMatches'
  BY <1>2, <1>3, ServiceKept DEF IInv, rtcVars
<1> QED BY <1>2, <1>3, <1>4, DriverKept DEF IInv

\* An interrupt is taken only by a booted system; at most the keyboard was in service
\* before it.
LEMMA TakeInv ==
    ASSUME IInv, NEW irq \in Irqs, TakeIrq(irq)
    PROVE  IInv'
<1>1. /\ UNCHANGED <<ready, idt, imr>> /\ UNCHANGED rtcVars
      /\ handling = NoIrq /\ handling' = irq
  BY DEF TakeIrq, Take
<1>2. irq = 0 \/ irq = 1 \/ irq = 8
  BY DEF Irqs
<1>3. isr \in Chips(SUBSET Lines) /\ irr \in Chips(SUBSET Lines)
  BY DEF IInv, TypeOK, IntTypeOK
<1>4. Booted /\ Booted'
  <2>1. current_process \in Terminals
    BY DEF IInv, TypeOK
  <2>2. Booted
    BY <2>1 DEF IInv, PlacesBooted, TakeIrq, Take, InterruptsOn
  <2> QED BY <1>1, <2>2 DEF Booted
<1>5. /\ isr.slave = {} /\ isr.master \subseteq {1}
      /\ 1 \in isr.master => \E t \in Terminals : frames[t] = "row"
  <2>1. handling # 0 /\ handling # 1 /\ handling # 8
    BY <1>1 DEF NoIrq
  <2>2. 0 \notin isr.master /\ 2 \notin isr.master /\ isr.master \subseteq {0, 1, 2}
    BY <2>1 DEF IInv, ServiceMatches
  <2>3. isr.slave = {} /\ (1 \in isr.master => \E t \in Terminals : frames[t] = "row")
    BY <2>1 DEF IInv, ServiceMatches
  <2> QED BY <2>2, <2>3
<1>6. irr' \in Chips(SUBSET Lines)
  <2>1. Chip(irq) \in {"master", "slave"}
    BY DEF Chip
  <2> QED BY <1>3, <2>1 DEF TakeIrq, Take, Chips
<1>7. frames' = frames
  BY <1>1 DEF rtcVars
<1>8. isr' \in Chips(SUBSET Lines) /\ ServiceMatches'
  <2>1. CASE irq = 8
    <3>1. isr' = [master |-> isr.master \cup {2}, slave |-> {0}]
      BY <1>5, <2>1 DEF TakeIrq, Take, Line
    <3>2. isr'.master = isr.master \cup {2} /\ isr'.slave = {0}
      BY <3>1
    <3>3. isr' \in Chips(SUBSET Lines)
      BY <1>3, <3>1 DEF Chips, Lines
    <3> QED BY <1>1, <1>5, <1>7, <2>1, <3>2, <3>3 DEF ServiceMatches
  <2>2. CASE irq = 0 \/ irq = 1
    <3>1. isr' = [isr EXCEPT !.master = isr.master \cup {irq}]
      BY <2>2 DEF TakeIrq, Take, Line
    <3>2. isr' \in Chips(SUBSET Lines) /\ isr'.master = isr.master \cup {irq} /\ isr'.slave = {}
      BY <1>3, <1>5, <2>2, <3>1 DEF Chips, Lines
    <3> QED BY <1>1, <1>5, <1>7, <2>2, <3>2 DEF ServiceMatches
  <2> QED BY <1>2, <2>1, <2>2
<1>9. IntTypeOK'
  BY <1>1, <1>6, <1>8 DEF IInv, TypeOK, IntTypeOK
<1>10. BootComplete' /\ IdtInstalled' /\ HandlingBooted'
  BY <1>1, <1>4 DEF IInv, BootComplete, IdtInstalled, HandlingBooted, Booted
<1> QED BY <1>1, <1>4, <1>8, <1>9, <1>10, DriverKept DEF IInv

\* The table leads each interrupt to its own handler.
LEMMA Dispatch ==
    ASSUME IInv
    PROVE  /\ Enters("schedule_wrapper") => handling = 0
           /\ Enters("keyboard_wrapper") => handling = 1
           /\ Enters("rtc_wrapper") => handling = 8
           /\ \A h : Enters(h) => Booted
<1> SUFFICES ASSUME NEW h, Enters(h)
             PROVE  /\ h = "schedule_wrapper" => handling = 0
                    /\ h = "keyboard_wrapper" => handling = 1
                    /\ h = "rtc_wrapper" => handling = 8
                    /\ Booted
  OBVIOUS
<1>1. handling # NoIrq /\ idt[Vector(handling)] = h
  BY DEF Enters
<1>2. handling = 0 \/ handling = 1 \/ handling = 8
  BY <1>1 DEF IInv, TypeOK, IntTypeOK, Irqs
<1>3. Booted
  BY <1>1 DEF IInv, HandlingBooted
<1>4. idt = InitialIdt
  BY <1>3, BootNames DEF IInv, IdtInstalled, BootComplete
<1>5. /\ 32 \in Vectors /\ 33 \in Vectors /\ 40 \in Vectors
      /\ Vector(0) = 32 /\ Vector(1) = 33 /\ Vector(8) = 40
  BY DEF Vectors, Vector
<1>6. /\ InitialIdt[32] = "schedule_wrapper" /\ InitialIdt[33] = "keyboard_wrapper"
      /\ InitialIdt[40] = "rtc_wrapper"
  BY <1>5 DEF InitialIdt
<1> QED BY <1>1, <1>2, <1>3, <1>4, <1>5, <1>6

\* A handler, or the rest of one, has sent an EOI and nobody handles.
LEMMA Acknowledged ==
    ASSUME IInv, isr'.master \subseteq {1}, isr'.slave = {}, isr' \in Chips(SUBSET Lines),
           handling' = NoIrq, UNCHANGED <<ready, idt, imr, irr>>,
           1 \in isr'.master => \E t \in Terminals : frames'[t] = "row"
    PROVE  /\ IntTypeOK' /\ BootComplete' /\ IdtInstalled' /\ HandlingBooted' /\ ServiceMatches'
           /\ Booted' = Booted
<1>1. IntTypeOK'
  BY DEF IInv, TypeOK, IntTypeOK
<1>2. BootComplete' /\ IdtInstalled' /\ HandlingBooted' /\ Booted' = Booted
  BY DEF IInv, BootComplete, IdtInstalled, HandlingBooted, Booted
<1>3. handling' # 0 /\ handling' # 8
  BY DEF NoIrq
<1>4. 0 \notin isr'.master /\ 2 \notin isr'.master /\ isr'.master \subseteq {0, 1, 2}
  OBVIOUS
<1>5. ServiceMatches'
  BY <1>3, <1>4 DEF ServiceMatches
<1> QED BY <1>1, <1>2, <1>5

\* The same for timer and RTC, which leave a keyboard handler's row window as it is.
LEMMA DeviceAcknowledged ==
    ASSUME IInv, handling \in {0, 8}, send_eoi(handling), handling' = NoIrq,
           UNCHANGED <<ready, idt, imr, irr, frames>>
    PROVE  /\ IntTypeOK' /\ BootComplete' /\ IdtInstalled' /\ HandlingBooted' /\ ServiceMatches'
           /\ Booted' = Booted
<1>1. /\ isr'.master \subseteq {1} /\ isr'.slave = {} /\ isr' \in Chips(SUBSET Lines)
      /\ 1 \in isr'.master => 1 \in isr.master
  BY EoiEnds DEF IInv
<1>2. 1 \in isr.master => \E t \in Terminals : frames[t] = "row"
  BY DEF IInv, ServiceMatches
<1> QED BY <1>1, <1>2, Acknowledged

\* handle_RTC counts for all terminals and tells all readers.
LEMMA HandleRtcInv ==
    ASSUME IInv, handle_RTC
    PROVE  IInv'
<1>1. handling = 8 /\ send_eoi(handling)
  BY Dispatch DEF handle_RTC
<1>2. /\ IntTypeOK' /\ BootComplete' /\ IdtInstalled' /\ HandlingBooted' /\ ServiceMatches'
      /\ Booted' = Booted
  BY <1>1, DeviceAcknowledged DEF handle_RTC
<1>3. rtc_virtual_interupt' \in [Terminals -> 0 .. MaxCount]
  <2>1. \A n \in 0 .. MaxCount : Count(n) \in 0 .. MaxCount
    BY MaxCountAssumption DEF Count
  <2> QED BY <2>1 DEF IInv, TypeOK, handle_RTC, Counted
<1>4. since' = [t \in Terminals |-> place[t] = "wait"] /\ place' = place
  BY DEF handle_RTC
<1>5. TypeOK'
  <2>1. since' \in [Terminals -> BOOLEAN]
    <3>1. \A t \in Terminals : (place[t] = "wait") \in BOOLEAN
      BY Zenon
    <3> QED BY <1>4, <3>1, Zenon
  <2>2. c_unread' \in BOOLEAN
    BY DEF handle_RTC
  <2> QED BY <1>2, <1>3, <2>1, <2>2 DEF IInv, TypeOK, handle_RTC
<1>6. CountedSince'
  BY <1>4 DEF CountedSince
<1>7. RateAsked' /\ PlacesBooted'
  BY <1>2 DEF IInv, RateAsked, PlacesBooted, handle_RTC
<1> QED BY <1>2, <1>5, <1>6, <1>7 DEF IInv

\* timer_handler acknowledges and gives the CPU away.
LEMMA TimerInv ==
    ASSUME IInv, timer_handler
    PROVE  IInv'
<1>1. handling = 0 /\ send_eoi(handling)
  BY Dispatch DEF timer_handler
<1>2. /\ IntTypeOK' /\ BootComplete' /\ IdtInstalled' /\ HandlingBooted' /\ ServiceMatches'
      /\ Booted' = Booted
  BY <1>1, DeviceAcknowledged DEF timer_handler
<1>3. current_process' \in Terminals
  <2>1. current_process \in Terminals
    BY DEF IInv, TypeOK
  <2>2. (current_process + 1) % NUM_TERMINALS \in 0 .. NUM_TERMINALS - 1
    BY <2>1, RtcTerminalsAssumption DEF Terminals
  <2> QED BY <2>2 DEF timer_handler, NextProcess, Terminals
<1>4. TypeOK'
  BY <1>2, <1>3 DEF IInv, TypeOK, timer_handler
<1>5. CountedSince' /\ RateAsked' /\ PlacesBooted'
  BY <1>2 DEF IInv, CountedSince, RateAsked, PlacesBooted, timer_handler
<1> QED BY <1>2, <1>4, <1>5 DEF IInv

\* A handler is pushed, moved on or popped, and nothing else of the driver changes.
LEMMA FrameInv ==
    ASSUME IInv, NEW t \in Terminals, NEW f \in {"none", "row", "switch", "tail"}, Frame(t, f),
           Booted, Booted', IntTypeOK',
           UNCHANGED <<rate, c_unread, rtc_virtual_interupt, current_process, place, asked, since>>
    PROVE  TypeOK' /\ CountedSince' /\ RateAsked' /\ PlacesBooted' /\ frames'[t] = f
<1>1. frames' \in [Terminals -> {"none", "row", "switch", "tail"}] /\ frames'[t] = f
  BY DEF IInv, TypeOK, Frame
<1>2. TypeOK'
  BY <1>1 DEF IInv, TypeOK
<1>3. CountedSince' /\ RateAsked' /\ PlacesBooted'
  BY DEF IInv, CountedSince, RateAsked, PlacesBooted
<1> QED BY <1>1, <1>2, <1>3

\* The handler of a key, with a window after its EOI or without one.
LEMMA KeyboardInv ==
    ASSUME IInv, handle_keyboard \/ KeyboardLetsIn
    PROVE  IInv'
<1>1. handling = 1 /\ Booted /\ send_eoi(1)
  BY Dispatch DEF handle_keyboard, KeyboardLetsIn
<1>2. handling' = NoIrq /\ UNCHANGED <<ready, idt, imr, irr>>
  BY DEF handle_keyboard, KeyboardLetsIn
<1>3. /\ IntTypeOK' /\ BootComplete' /\ IdtInstalled' /\ HandlingBooted' /\ ServiceMatches'
      /\ Booted' = Booted
  BY <1>1, <1>2, EoiKeyboard, Acknowledged DEF IInv
<1>4. CASE handle_keyboard
  BY <1>3, <1>4, DriverKept DEF IInv, handle_keyboard
<1>5. CASE KeyboardLetsIn
  <2>1. current_process \in Terminals
    BY DEF IInv, TypeOK
  <2> QED BY <1>1, <1>3, <1>5, <2>1, FrameInv DEF IInv, KeyboardLetsIn
<1> QED BY <1>4, <1>5

\* The echo of a key opens a window before the EOI: its handler is then in the row window.
LEMMA EchoRowInv ==
    ASSUME IInv, EchoRow
    PROVE  IInv'
<1>1. handling = 1 /\ Booted /\ handling' = NoIrq /\ UNCHANGED <<ready, idt, imr, irr, isr>>
  BY Dispatch DEF EchoRow, picVars
<1>2. current_process \in Terminals /\ isr \in Chips(SUBSET Lines)
  BY DEF IInv, TypeOK, IntTypeOK
<1>3. isr.slave = {} /\ isr.master \subseteq {1}
  <2>1. handling # 0 /\ handling # 8
    BY <1>1
  <2>2. 0 \notin isr.master /\ 2 \notin isr.master /\ isr.master \subseteq {0, 1, 2} /\ isr.slave = {}
    BY <2>1 DEF IInv, ServiceMatches
  <2> QED BY <2>2
<1>4. frames'[current_process] = "row"
  BY <1>2 DEF IInv, TypeOK, EchoRow, Frame
<1>5. /\ IntTypeOK' /\ BootComplete' /\ IdtInstalled' /\ HandlingBooted' /\ ServiceMatches'
      /\ Booted' = Booted
  BY <1>1, <1>2, <1>3, <1>4, Acknowledged
<1> QED BY <1>1, <1>2, <1>5, FrameInv DEF IInv, EchoRow

\* The rest of an echo and of a keyboard handler, and terminal_write or terminal_read of
\* a program, acknowledge the keyboard while no other handler runs.
LEMMA LaterEoiInv ==
    ASSUME IInv, NEW t \in Terminals, EchoStep(t) \/ OtherEoi(t)
    PROVE  IInv'
<1>1. handling = NoIrq /\ handling' = NoIrq /\ send_eoi(1) /\ UNCHANGED <<ready, idt, imr, irr>>
  BY DEF EchoStep, EchoGoesOn, KeyboardReturns, OtherEoi, Runs
<1>2. /\ IntTypeOK' /\ BootComplete' /\ IdtInstalled' /\ HandlingBooted' /\ ServiceMatches'
      /\ Booted' = Booted
  BY <1>1, EoiKeyboard, Acknowledged DEF IInv
<1>3. CASE EchoStep(t)
  <2>1. Booted
    BY <1>3 DEF IInv, PlacesBooted, EchoStep, EchoGoesOn, KeyboardReturns
  <2>2. PICK f \in {"none", "tail"} : Frame(t, f)
    BY <1>3 DEF EchoStep, EchoGoesOn, KeyboardReturns
  <2>3. UNCHANGED <<rate, c_unread, rtc_virtual_interupt, current_process, place, asked, since>>
    BY <1>3 DEF EchoStep, EchoGoesOn, KeyboardReturns
  <2> QED BY <1>2, <2>1, <2>2, <2>3, FrameInv DEF IInv
<1>4. CASE OtherEoi(t)
  BY <1>2, <1>4, DriverKept DEF IInv, OtherEoi
<1> QED BY <1>3, <1>4

\* The wait of terminal_switch ends.
LEMMA SwitchInv ==
    ASSUME IInv, NEW t \in Terminals, SwitchGoesOn(t)
    PROVE  IInv'
<1>1. /\ IntTypeOK' /\ BootComplete' /\ IdtInstalled' /\ HandlingBooted'
      /\ Booted' = Booted /\ isr' = isr /\ handling' = handling
  BY PathKept DEF SwitchGoesOn
<1>2. Booted
  BY DEF IInv, PlacesBooted, SwitchGoesOn
<1>3. \A u \in Terminals : frames[u] = "row" => frames'[u] = "row"
  BY DEF IInv, TypeOK, SwitchGoesOn, Frame
<1>4. ServiceMatches'
  BY <1>1, <1>3, ServiceKept DEF IInv
<1> QED BY <1>1, <1>2, <1>4, FrameInv DEF IInv, SwitchGoesOn

-----------------------------------------------------------------------------
(* System calls.                                                           *)

\* rtc_open and rtc_write set rate bits that belong to a power of two.
LEMMA RateInv ==
    ASSUME IInv, NEW t \in Terminals, RtcOpen(t) \/ \E hz \in Rates : RtcWrite(t, hz)
    PROVE  IInv'
<1>1. UNCHANGED intVars /\ frames' = frames /\ Booted
  BY DEF RtcOpen, RtcWrite, Runs
<1>4. PlacesBooted' /\ ServiceMatches'
  BY <1>1, PathKept, ServiceKept DEF IInv, PlacesBooted
<1>5. IntTypeOK'
  BY <1>1, PathKept
<1>2. CASE RtcOpen(t)
  <2>1. place' = [place EXCEPT ![t] = "window"] /\ rate' = 15 /\ asked' = 2
    BY <1>2 DEF RtcOpen, Goes, DefaultRate
  <2>2. TypeOK'
    BY <1>2, <1>5, <2>1 DEF IInv, TypeOK, RtcOpen
  <2>3. CountedSince'
    BY <1>2, <2>1 DEF IInv, TypeOK, CountedSince, RtcOpen
  <2>4. asked' = Power(1) /\ rate' = RateBits(1)
    BY <2>1, Powers DEF Power, RateBits
  <2>5. RateAsked'
    BY <2>4 DEF RateAsked, Power, RateBits
  <2> QED BY <1>1, <1>4, <2>2, <2>3, <2>5, PathKept DEF IInv
<1>3. ASSUME NEW hz \in Rates, RtcWrite(t, hz)
      PROVE  IInv'
  <2>1. PICK n \in 1 .. 15 : hz = Power(n) /\ rate' = RateBits(n)
    BY <1>3 DEF RtcWrite, Accepted
  <2>2. asked' = hz
    BY <1>3 DEF RtcWrite
  <2>3. RateAsked'
    BY <2>1, <2>2 DEF RateAsked, Power, RateBits
  <2>4. rate' \in 0 .. 15
    BY <2>1 DEF RateBits
  <2>5. rtc_virtual_interupt' = [rtc_virtual_interupt EXCEPT ![t] = 0] /\ UNCHANGED <<place, since>>
    BY <1>3 DEF RtcWrite
  <2>6. rtc_virtual_interupt' \in [Terminals -> 0 .. MaxCount]
    BY <2>5, MaxCountAssumption DEF IInv, TypeOK
  <2>7. TypeOK'
    BY <1>3, <1>5, <2>2, <2>4, <2>6 DEF IInv, TypeOK, RtcWrite
  <2>8. CountedSince'
    BY <2>5 DEF IInv, TypeOK, CountedSince
  <2> QED BY <1>1, <1>4, <2>3, <2>7, <2>8, PathKept DEF IInv
<1> QED BY <1>2, <1>3

\* rtc_read, step by step, and another call and its return.
LEMMA ReadInv ==
    ASSUME IInv, NEW t \in Terminals,
           RtcRead(t) \/ RtcReset(t) \/ RtcReadDone(t) \/ CallReturns(t) \/ OtherCall(t)
    PROVE  IInv'
<1>1. UNCHANGED <<intVars, rate, c_unread, current_process, frames, asked>>
  BY DEF RtcRead, RtcReset, RtcReadDone, CallReturns, OtherCall
<1>2. PICK p \in {"user", "sti", "wait", "window"} : place' = [place EXCEPT ![t] = p]
  BY DEF RtcRead, RtcReset, RtcReadDone, CallReturns, OtherCall, Goes
<1>3. \/ rtc_virtual_interupt' = [rtc_virtual_interupt EXCEPT ![t] = 0]
      \/ rtc_virtual_interupt' = rtc_virtual_interupt
  BY DEF RtcRead, RtcReset, RtcReadDone, CallReturns, OtherCall, ResetCounter
<1>4. since' = [since EXCEPT ![t] = FALSE] \/ since' = since
  BY DEF RtcRead, RtcReset, RtcReadDone, CallReturns, OtherCall
<1>5. TypeOK'
  <2>1. rtc_virtual_interupt' \in [Terminals -> 0 .. MaxCount]
    BY <1>3, MaxCountAssumption DEF IInv, TypeOK
  <2>2. place' \in [Terminals -> {"user", "sti", "wait", "window"}]
    BY <1>2 DEF IInv, TypeOK
  <2>3. since' \in [Terminals -> BOOLEAN]
    <3>1. since \in [Terminals -> BOOLEAN] /\ FALSE \in BOOLEAN
      BY DEF IInv, TypeOK
    <3> QED BY <1>4, <3>1, Zenon
  <2>4. IntTypeOK'
    BY <1>1, PathKept
  <2> QED BY <1>1, <2>1, <2>2, <2>3, <2>4 DEF IInv, TypeOK
<1>6. CountedSince'
  <2> SUFFICES ASSUME NEW u \in Terminals, place'[u] = "wait", rtc_virtual_interupt'[u] >= 1
               PROVE  since'[u]
    BY DEF CountedSince
  <2>1. CASE u # t
    <3>1. place[u] = "wait" /\ rtc_virtual_interupt[u] >= 1 /\ since'[u] = since[u]
      BY <1>2, <1>3, <1>4, <2>1 DEF IInv, TypeOK
    <3> QED BY <3>1 DEF IInv, CountedSince
  <2>2. CASE u = t
    <3>1. RtcReset(t)
      BY <2>2 DEF IInv, TypeOK, RtcRead, RtcReset, RtcReadDone, CallReturns, OtherCall, Goes
    <3>2. rtc_virtual_interupt'[t] = 0
      BY <3>1 DEF IInv, TypeOK, RtcReset, ResetCounter
    <3> QED BY <2>2, <3>2
  <2> QED BY <2>1, <2>2
<1>7. RateAsked'
  BY <1>1 DEF IInv, RateAsked
<1>8. Booted
  BY DEF RtcRead, RtcReset, RtcReadDone, CallReturns, OtherCall, Runs
<1>9. PlacesBooted' /\ ServiceMatches'
  BY <1>1, <1>8, PathKept, ServiceKept DEF IInv, PlacesBooted
<1> QED BY <1>1, <1>5, <1>6, <1>7, <1>9, PathKept DEF IInv

LEMMA NextIInv == IInv /\ [Next]_vars => IInv'
<1> SUFFICES ASSUME IInv, [Next]_vars PROVE IInv'
  OBVIOUS
<1>1. CASE Boot /\ UNCHANGED rtcVars
  BY <1>1, BootInv
<1>2. CASE RaiseRtc \/ RaisePit \/ RaiseKey
  BY <1>2, RaiseRtcInv, RaiseOtherInv
<1>3. CASE \E irq \in Irqs : TakeIrq(irq)
  BY <1>3, TakeInv
<1>4. CASE Handler
  BY <1>4, HandleRtcInv, TimerInv, KeyboardInv, EchoRowInv DEF Handler
<1>5. ASSUME NEW t \in Terminals, Program(t) \/ Return(t) \/ EchoStep(t) \/ SwitchGoesOn(t)
      PROVE  IInv'
  BY <1>5, RateInv, ReadInv, LaterEoiInv, SwitchInv DEF Program, Return
<1>6. CASE UNCHANGED vars
  <2>1. UNCHANGED intVars /\ UNCHANGED rtcVars
    BY <1>6 DEF vars
  <2>2. ServiceMatches'
    BY <2>1, PathKept, ServiceKept DEF IInv, rtcVars
  <2> QED BY <2>1, <2>2, PathKept, DriverKept DEF IInv
<1> QED BY <1>1, <1>2, <1>3, <1>4, <1>5, <1>6 DEF Next

-----------------------------------------------------------------------------
\* The ranges of the interrupt path and of the driver's variables.
THEOREM TypeCorrect == Spec => []TypeOK
<1>1. IInv => TypeOK
  BY DEF IInv
<1> QED BY <1>1, InitIInv, NextIInv, PTL DEF Spec

\* send_eoi: timer and RTC are in service exactly while their handlers run, however the
\* handlers of keys, with windows before and after their EOI, are preempted; the keyboard
\* only while some handler on a stack will still acknowledge it.
THEOREM ServiceCorrect == Spec => []ServiceMatches
<1>1. IInv => ServiceMatches
  BY DEF IInv
<1> QED BY <1>1, InitIInv, NextIInv, PTL DEF Spec

\* rtc_write and rtc_open: the chip runs at the frequency last asked for, for every
\* frequency it has.
THEOREM FrequencyCorrect == Spec => []FrequencyAsked
<1>1. IInv => FrequencyAsked
  <2> SUFFICES ASSUME IInv, asked <= 8192
               PROVE  Frequency(rate) = asked
    BY DEF FrequencyAsked
  <2>1. PICK n \in 1 .. 15 : asked = Power(n) /\ rate = 16 - n
    BY DEF IInv, RateAsked, RateBits
  <2>2. n <= 13
    BY <2>1, LargePowers
  <2>3. rate # 0 /\ rate # 1 /\ rate # 2 /\ 16 - rate = n
    BY <2>1, <2>2
  <2>4. Frequency(rate) = 2^(16 - rate)
    BY <2>3 DEF Frequency
  <2> QED BY <2>1, <2>3, <2>4 DEF Power
<1> QED BY <1>1, InitIInv, NextIInv, PTL DEF Spec

\* rtc_read returns only after an RTC interrupt that came while it waited.
THEOREM WaitCorrect == Spec => WaitsForInterrupt
<1>1. IInv /\ [Next]_vars => [\A t \in Terminals : RtcReadDone(t) => since[t]]_vars
  BY DEF IInv, CountedSince, RtcReadDone, Runs
<1> QED BY <1>1, InitIInv, NextIInv, PTL DEF Spec, WaitsForInterrupt
=============================================================================
