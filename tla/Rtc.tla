-------------------------------- MODULE Rtc ---------------------------------
(***************************************************************************)
(* The real-time clock on top of the interrupt path: the chip with its one *)
(* rate, handle_RTC (interrupts.c), the driver's open, read and write      *)
(* (rtc_driver.c), called by one program per terminal, and around them the *)
(* timer and keyboard handlers as far as they give the CPU away and let    *)
(* interrupts in.  place[t] is where the program of terminal t is:         *)
(*   "user"    user code, interrupts off (see Kernel)                      *)
(*   "sti"     rtc_read after sti, before it resets the counter            *)
(*   "wait"    the loop of rtc_read                                        *)
(*   "window"  another system call that has enabled interrupts             *)
(* frames[t] is the keyboard handler on the stack of terminal t that has   *)
(* enabled interrupts (bound: one such handler on a stack), if any:        *)
(*   "row"     the echo moves to the next row: sti comes before the EOI    *)
(*   "switch"  terminal_switch waits for a tick, its EOI sent              *)
(*   "tail"    from the last sti of terminal_write or terminal_switch to   *)
(*             the end of handle_keyboard                                  *)
(***************************************************************************)
EXTENDS Interrupts

CONSTANTS
    NUM_TERMINALS,
    Rates,        \* 32-bit values programs pass to rtc_write
    MaxCount      \* bound: value at which the counters stop growing

ASSUME RtcTerminalsAssumption == NUM_TERMINALS \in Nat \ {0}
ASSUME RatesAssumption == Rates \subseteq Int
ASSUME MaxCountAssumption == MaxCount \in Nat \ {0}

VARIABLES
    rate,                  \* rate bits of the chip's register A
    c_unread,              \* register C holds an interrupt nobody has read
    rtc_virtual_interupt,  \* interrupts counted for each terminal
    current_process,
    place,
    frames,
    asked,                 \* history: the frequency last set successfully
    since                  \* history: a waiting read has had an RTC interrupt

rtcVars == <<rate, c_unread, rtc_virtual_interupt, current_process, place, frames, asked, since>>
vars == <<intVars, rtcVars>>

Terminals == 0 .. NUM_TERMINALS - 1
MAX_RTC_RATE == 32768
DefaultRate == 15
FirmwareRate == 6            \* what a PC's firmware leaves: 1024 Hz

\* The range of each variable.
TypeOK ==
    /\ IntTypeOK
    /\ rate \in 0 .. 15
    /\ c_unread \in BOOLEAN
    /\ rtc_virtual_interupt \in [Terminals -> 0 .. MaxCount]
    /\ current_process \in Terminals
    /\ place \in [Terminals -> {"user", "sti", "wait", "window"}]
    /\ frames \in [Terminals -> {"none", "row", "switch", "tail"}]
    /\ asked \in Rates \cup {2, 1024}
    /\ since \in [Terminals -> BOOLEAN]

Init ==
    /\ IntInit
    /\ rate = FirmwareRate
    /\ c_unread = FALSE
    /\ rtc_virtual_interupt = [t \in Terminals |-> 0]
    /\ current_process = 0
    /\ place = [t \in Terminals |-> "user"]
    /\ frames = [t \in Terminals |-> "none"]
    /\ asked = 1024
    /\ since = [t \in Terminals |-> FALSE]

-----------------------------------------------------------------------------
(* Devices and handlers.                                                   *)

\* boot.S clears the interrupt flag and no boot function sets it (RTC_init restores flags
\* it never saved, all zero); after that the flag is on where the kernel executes sti.
InterruptsOn == frames[current_process] # "none" \/ place[current_process] # "user"

\* The chip interrupts once per period, and not again until register C is read.
RaiseRtc ==
    /\ "rtc" \in ready /\ ~c_unread
    /\ Raise(8)
    /\ c_unread' = TRUE
    /\ UNCHANGED <<rate, rtc_virtual_interupt, current_process, place, frames, asked, since>>

\* The period of the PIT is long against its handler, and the time between two keys
\* against the service of what is requested and against the handler of the key before,
\* as far as that runs without a tick.
RaisePit == 0 \notin irr.master /\ handling # 0 /\ Raise(0) /\ UNCHANGED rtcVars
RaiseKey ==
    /\ irr.master = {} /\ handling = NoIrq /\ 1 \notin isr.master
    /\ Raise(1)
    /\ UNCHANGED rtcVars

TakeIrq(irq) == Take(irq, InterruptsOn) /\ UNCHANGED rtcVars

Count(n) == IF n < MaxCount THEN n + 1 ELSE n

\* handle_RTC counts for all terminals.
Counted == [t \in Terminals |-> Count(rtc_virtual_interupt[t])]

\* handle_RTC with its wrapper.
handle_RTC ==
    /\ Enters("rtc_wrapper")
    /\ rtc_virtual_interupt' = Counted
    /\ since' = [t \in Terminals |-> place[t] = "wait"]
    /\ send_eoi(8)
    /\ c_unread' = FALSE
    /\ handling' = NoIrq
    /\ UNCHANGED <<ready, idt, imr, irr, rate, current_process, place, frames, asked>>

NextProcess == (current_process + 1) % NUM_TERMINALS

\* timer_handler: acknowledge, give the CPU to the next terminal.
timer_handler ==
    /\ Enters("schedule_wrapper")
    /\ send_eoi(0)
    /\ handling' = NoIrq
    /\ current_process' = NextProcess
    /\ UNCHANGED <<ready, idt, imr, irr, rate, c_unread, rtc_virtual_interupt, place, frames, asked, since>>

Frame(t, f) == frames' = [frames EXCEPT ![t] = f]

\* handle_keyboard: many keys return with the EOI.
handle_keyboard ==
    /\ Enters("keyboard_wrapper")
    /\ send_eoi(1)
    /\ handling' = NoIrq
    /\ UNCHANGED <<ready, idt, imr, irr, rtcVars>>

\* The echo of a key reaches the end of a row: terminal_write enables interrupts while
\* it moves to the next row, before it has acknowledged the key.
EchoRow ==
    /\ Enters("keyboard_wrapper") /\ frames[current_process] = "none"
    /\ handling' = NoIrq
    /\ Frame(current_process, "row")
    /\ UNCHANGED <<ready, idt, picVars, rate, c_unread, rtc_virtual_interupt, current_process, place, asked, since>>

\* The end of terminal_write and the wait of terminal_switch: EOI, then sti.
KeyboardLetsIn ==
    /\ Enters("keyboard_wrapper") /\ frames[current_process] = "none"
    /\ send_eoi(1)
    /\ handling' = NoIrq
    /\ Frame(current_process, "tail") \/ Frame(current_process, "switch")
    /\ UNCHANGED <<ready, idt, imr, irr, rate, c_unread, rtc_virtual_interupt, current_process, place, asked, since>>

\* The row is done: the rest of the echo, the EOI and the last sti of terminal_write.
EchoGoesOn(t) ==
    /\ current_process = t /\ handling = NoIrq /\ frames[t] = "row"
    /\ send_eoi(1)
    /\ Frame(t, "tail")
    /\ UNCHANGED <<ready, idt, imr, irr, handling, rate, c_unread, rtc_virtual_interupt,
                   current_process, place, asked, since>>

\* The wait of terminal_switch is over: cli, and the sti that ends the function.
\* (Whether it ends is decided in Kernel: see ReaderReturns.)
SwitchGoesOn(t) ==
    /\ current_process = t /\ handling = NoIrq /\ frames[t] = "switch"
    /\ Frame(t, "tail")
    /\ UNCHANGED <<intVars, rate, c_unread, rtc_virtual_interupt, current_process, place, asked, since>>

\* The rest of that handler acknowledges a second time.
KeyboardReturns(t) ==
    /\ current_process = t /\ handling = NoIrq /\ frames[t] = "tail"
    /\ send_eoi(1)
    /\ Frame(t, "none")
    /\ UNCHANGED <<ready, idt, imr, irr, handling, rate, c_unread, rtc_virtual_interupt,
                   current_process, place, asked, since>>

-----------------------------------------------------------------------------
(* The program of a terminal and its system calls.                         *)

Runs(t, p) == Booted /\ current_process = t /\ handling = NoIrq /\ frames[t] = "none" /\ place[t] = p

Goes(t, p) == place' = [place EXCEPT ![t] = p]

\* rtc_open sets two interrupts a second and enables interrupts.
RtcOpen(t) ==
    /\ Runs(t, "user") /\ Goes(t, "window")
    /\ rate' = DefaultRate
    /\ asked' = 2
    /\ UNCHANGED <<intVars, c_unread, rtc_virtual_interupt, current_process, frames, since>>

\* Mutant: starts one too low.
RateBits_low(n) == 15 - n

\* The loop of rtc_write: rate starts at 15 and drops by one per doubling of 2.
RateBits(n) == 16 - n

Power(n) == 2 ^ n
Accepted(hz) == \E n \in 1 .. 15 : hz = Power(n)

\* rtc_write; it fails, with no effect, for a value that is not a power of two up to
\* MAX_RTC_RATE.
RtcWrite(t, hz) ==
    /\ Runs(t, "user") /\ Accepted(hz)
    /\ rate' = RateBits(CHOOSE n \in 1 .. 15 : hz = Power(n))
    /\ asked' = hz
    /\ rtc_virtual_interupt' = [rtc_virtual_interupt EXCEPT ![t] = 0]
    /\ UNCHANGED <<intVars, c_unread, current_process, place, frames, since>>

\* rtc_read: sti, ...
RtcRead(t) ==
    /\ Runs(t, "user") /\ Goes(t, "sti")
    /\ UNCHANGED <<intVars, rate, c_unread, rtc_virtual_interupt, current_process, frames, asked, since>>

\* Mutant: the counter keeps what came before the call.
ResetCounter_none(t) == UNCHANGED rtc_virtual_interupt

ResetCounter(t) == rtc_virtual_interupt' = [rtc_virtual_interupt EXCEPT ![t] = 0]

\* ... reset, ...
RtcReset(t) ==
    /\ Runs(t, "sti") /\ Goes(t, "wait")
    /\ ResetCounter(t)
    /\ since' = [since EXCEPT ![t] = FALSE]
    /\ UNCHANGED <<intVars, rate, c_unread, current_process, frames, asked>>

\* ... wait for the counter, reset it, cli.
RtcReadDone(t) ==
    /\ Runs(t, "wait") /\ rtc_virtual_interupt[t] >= 1
    /\ Goes(t, "user")
    /\ rtc_virtual_interupt' = [rtc_virtual_interupt EXCEPT ![t] = 0]
    /\ since' = [since EXCEPT ![t] = FALSE]
    /\ UNCHANGED <<intVars, rate, c_unread, current_process, frames, asked>>

\* terminal_write, terminal_read and the others: interrupts come in at each row end, in
\* the wait for a line and between the last sti and the return.
OtherCall(t) ==
    /\ Runs(t, "user") /\ Goes(t, "window")
    /\ UNCHANGED <<intVars, rate, c_unread, rtc_virtual_interupt, current_process, frames, asked, since>>

\* Somewhere in between terminal_write and terminal_read acknowledge the keyboard,
\* whoever is in its handler.
OtherEoi(t) ==
    /\ Runs(t, "window")
    /\ send_eoi(1)
    /\ UNCHANGED <<ready, idt, imr, irr, handling, rtcVars>>

CallReturns(t) ==
    /\ Runs(t, "window") /\ Goes(t, "user")
    /\ UNCHANGED <<intVars, rate, c_unread, rtc_virtual_interupt, current_process, frames, asked, since>>

Program(t) == \/ RtcOpen(t) \/ RtcRead(t) \/ OtherCall(t) \/ OtherEoi(t)
              \/ \E hz \in Rates : RtcWrite(t, hz)
Return(t) == RtcReset(t) \/ RtcReadDone(t) \/ CallReturns(t)
EchoStep(t) == EchoGoesOn(t) \/ KeyboardReturns(t)
Handler == handle_RTC \/ timer_handler \/ handle_keyboard \/ EchoRow \/ KeyboardLetsIn

Next == \/ Boot /\ UNCHANGED rtcVars
        \/ RaiseRtc \/ RaisePit \/ RaiseKey
        \/ \E irq \in Irqs : TakeIrq(irq)
        \/ Handler
        \/ \E t \in Terminals : Program(t) \/ Return(t) \/ EchoStep(t) \/ SwitchGoesOn(t)

Spec == Init /\ [][Next]_vars

(* Devices keep interrupting and the CPU does not stand still; a request   *)
(* that is not outranked for ever is taken and a handler ends (the timer's *)
(* period is long against a handler); a program goes on whenever it is     *)
(* given the CPU again and again (a time slice is long against a step),    *)
(* and makes system calls, as user code runs with interrupts off.  Nothing *)
(* is assumed of the wait in terminal_switch, which may never end.         *)
Fairness ==
    /\ WF_vars(Boot /\ UNCHANGED rtcVars)
    /\ WF_vars(RaiseRtc) /\ WF_vars(RaisePit)
    /\ \A irq \in Irqs : SF_vars(TakeIrq(irq))
    /\ WF_vars(Handler)
    /\ \A t \in Terminals : SF_vars(Return(t) \/ OtherCall(t)) /\ SF_vars(EchoStep(t))

FairSpec == Spec /\ Fairness

-----------------------------------------------------------------------------
\* Timer and RTC are in service exactly while their handlers run (so no tick gives the
\* CPU away with one of these lines blocked, and no EOI meant for the keyboard ends their
\* service), and the keyboard only while a handler that will acknowledge it is on some
\* stack: in front of its EOI, or preempted in the row window of terminal_write.
ServiceMatches ==
    /\ isr.master \subseteq {0, 1, 2}
    /\ 0 \in isr.master <=> handling = 0
    /\ 2 \in isr.master <=> handling = 8
    /\ isr.slave = IF handling = 8 THEN {0} ELSE {}
    /\ 1 \in isr.master => handling = 1 \/ \E t \in Terminals : frames[t] = "row"

\* The keyboard, and with it the RTC that it outranks, is not blocked for ever when a tick
\* gives the CPU away in the row window of terminal_write, before send_eoi(IRQ1).
KeyboardAcknowledged == 1 \in isr.master ~> 1 \notin isr.master

\* rtc_read returns only after an RTC interrupt that came while it waited, although
\* handle_RTC counts for all terminals, whether they read or not.
WaitsForInterrupt == [][\A t \in Terminals : RtcReadDone(t) => since[t]]_vars

\* What the chip makes of its rate bits: 32768 Hz halved, but 1 and 2 stand for 256
\* and 128 Hz.
Frequency(bits) == CASE bits = 0 -> 0
                     [] bits = 1 -> 256
                     [] bits = 2 -> 128
                     [] OTHER -> 2 ^ (16 - bits)

\* The RTC runs at the frequency last asked for
\* (rtc_write, rtc_open), for all frequencies the chip has (2 to 8192 Hz).
FrequencyAsked == asked <= 8192 => Frequency(rate) = asked

\* A read of the RTC returns: an interrupt lost between the sti of rtc_read and the
\* reset of its counter is followed by another one that is counted for the reader even
\* when it does not have the CPU, and the reader gets the CPU back; but for a reader
\* interrupted by a terminal_switch, whose wait for a tick may never end.
ReadReturns ==
    [](\A t \in Terminals : place[t] = "wait" => <>(place[t] = "user" \/ frames[t] = "switch"))
=============================================================================
