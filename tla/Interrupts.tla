----------------------------- MODULE Interrupts -----------------------------
(***************************************************************************)
(* Boot and the interrupt path: the order in which entry (kernel.c) sets   *)
(* up IDT, devices and tables, the two 8259 chips (i8259.c), and the way   *)
(* of an interrupt from a device through the chips and the IDT to its      *)
(* handler and back.  The chips are external hardware in their default,    *)
(* fully nested mode: a request is delivered when its line is not masked   *)
(* and no line of the same or a higher priority is in service.             *)
(***************************************************************************)
EXTENDS Integers, Sequences, FiniteSets

VARIABLES
    ready,      \* the boot functions that have run
    idt,        \* vector |-> the handler installed
    imr,        \* per chip, the masked lines
    irr,        \* per chip, the requested lines
    isr,        \* per chip, the lines in service
    handling    \* the IRQ whose handler runs before its EOI, or NoIrq

picVars == <<imr, irr, isr>>
intVars == <<ready, idt, picVars, handling>>

Lines == 0 .. 7
Irqs  == {0, 1, 8}           \* PIT, keyboard and RTC, the last through line 2
NoIrq == -1
BootOrder == <<"idt", "pit", "keyboard", "rtc", "paging", "pcb", "first", "terminal", "execute">>
BootSteps == {BootOrder[i] : i \in DOMAIN BootOrder}
Handlers == {"exception", "schedule_wrapper", "keyboard_wrapper", "rtc_wrapper", "system_call"}
Vectors == 0 .. 31 \cup {32, 33, 40, 128}

Chips(S) == [master : S, slave : S]

IntTypeOK ==
    /\ ready \subseteq BootSteps
    /\ DOMAIN idt \subseteq Vectors /\ \A v \in DOMAIN idt : idt[v] \in Handlers
    /\ imr \in Chips(SUBSET Lines)
    /\ irr \in Chips(SUBSET Lines)
    /\ isr \in Chips(SUBSET Lines)
    /\ handling \in Irqs \cup {NoIrq}

-----------------------------------------------------------------------------
(* i8259.c.                                                                *)

Chip(irq) == IF irq < 8 THEN "master" ELSE "slave"
Line(irq) == irq % 8

\* enable_irq: read the mask of the chip, clear the bit.
enable_irq(masks, irq) == [masks EXCEPT ![Chip(irq)] = @ \ {Line(irq)}]

\* Mutant: the command byte without the number of the line.
send_eoi_line_0(irq) == isr' = [isr EXCEPT !.master = @ \ {0}]

\* Mutant: the slave alone is told.
send_eoi_slave_only(irq) == isr' = [isr EXCEPT ![Chip(irq)] = @ \ {Line(irq)}]

\* send_eoi: a specific EOI; for the slave also line 2 of the master.
send_eoi(irq) ==
    isr' = IF irq < 8 THEN [isr EXCEPT !.master = @ \ {Line(irq)}]
           ELSE [master |-> isr.master \ {2}, slave |-> isr.slave \ {Line(irq)}]

\* i8259_init: ICW1 clears requests and services of both chips.
i8259_init == irr' = [master |-> {}, slave |-> {}] /\ isr' = [master |-> {}, slave |-> {}]

-----------------------------------------------------------------------------
(* Boot, in the order of entry.                                            *)

IntInit ==
    /\ ready = {}
    /\ idt = [v \in {} |-> "exception"]
    /\ imr \in {[master |-> {}, slave |-> {}], [master |-> Lines, slave |-> Lines]}
    /\ irr = [master |-> {}, slave |-> {}]
    /\ isr = [master |-> {}, slave |-> {}]
    /\ handling = NoIrq

BootStep(s) ==
    /\ \E i \in DOMAIN BootOrder : BootOrder[i] = s /\ ready = {BootOrder[j] : j \in 1 .. i - 1}
    /\ ready' = ready \cup {s}
    /\ UNCHANGED handling

\* The table that initialize_IDT builds with create_idt_entry and SET_IDT_ENTRY.
InitialIdt ==
    [v \in Vectors |-> CASE v = 32 -> "schedule_wrapper"
                         [] v = 33 -> "keyboard_wrapper"
                         [] v = 40 -> "rtc_wrapper"
                         [] v = 128 -> "system_call"
                         [] OTHER -> "exception"]

\* initialize_IDT: chips, masks 0xFD and 0xFF, table.
initialize_IDT ==
    /\ BootStep("idt")
    /\ i8259_init
    /\ imr' = [master |-> Lines \ {1}, slave |-> Lines]
    /\ idt' = InitialIdt

PIT_init ==
    /\ BootStep("pit")
    /\ imr' = enable_irq(imr, 0)
    /\ UNCHANGED <<idt, irr, isr>>

keyboard_init ==
    /\ BootStep("keyboard")
    /\ imr' = enable_irq(imr, 1)
    /\ UNCHANGED <<idt, irr, isr>>

\* Mutant: the cascade stays masked.
RTC_unmask_slave(masks) == enable_irq(masks, 8)

\* The two enable_irq calls of RTC_init.
RTC_unmask(masks) == enable_irq(enable_irq(masks, 2), 8)

RTC_init ==
    /\ BootStep("rtc")
    /\ imr' = RTC_unmask(imr)
    /\ UNCHANGED <<idt, irr, isr>>

\* paging_init, process_control_block_init, first_process_init, terminal_open and the
\* execute of the first shell.
TablesInit ==
    /\ \E s \in {"paging", "pcb", "first", "terminal", "execute"} : BootStep(s)
    /\ UNCHANGED <<idt, picVars>>

Boot == initialize_IDT \/ PIT_init \/ keyboard_init \/ RTC_init \/ TablesInit
Booted == "execute" \in ready

-----------------------------------------------------------------------------
(* Delivery.                                                               *)

\* A line of a chip is passed on: requested, not masked, above all in service.
Passes(chip, l) ==
    /\ l \in irr[chip] \ imr[chip]
    /\ \A k \in isr[chip] : l < k
    /\ \A k \in irr[chip] \ imr[chip] : l <= k

\* The request line 2 of the master is the output of the slave.
Deliverable(irq) ==
    IF irq < 8
    THEN Passes("master", irq)
    ELSE /\ Passes("slave", Line(irq))
         /\ 2 \notin imr.master
         /\ \A k \in isr.master : 2 < k
         /\ \A k \in irr.master \ imr.master : 2 < k

\* A device raises its line.
Raise(irq) ==
    /\ irr' = [irr EXCEPT ![Chip(irq)] = @ \cup {Line(irq)}]
    /\ UNCHANGED <<ready, idt, imr, isr, handling>>

\* The CPU, with interrupts enabled, takes the interrupt: an interrupt gate disables them.
Take(irq, enabled) ==
    /\ enabled /\ handling = NoIrq
    /\ Deliverable(irq)
    /\ irr' = [irr EXCEPT ![Chip(irq)] = @ \ {Line(irq)}]
    /\ isr' = IF irq < 8 THEN [isr EXCEPT !.master = @ \cup {Line(irq)}]
              ELSE [master |-> isr.master \cup {2}, slave |-> isr.slave \cup {Line(irq)}]
    /\ handling' = irq
    /\ UNCHANGED <<ready, idt, imr>>

\* The vector under which a chip announces a line (ICW2 of i8259_init).
Vector(irq) == IF irq < 8 THEN 32 + irq ELSE 40 + (irq - 8)

\* The CPU is at the start of handler h, by way of the table.
Enters(h) == handling # NoIrq /\ idt[Vector(handling)] = h
=============================================================================
