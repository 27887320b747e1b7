------------------------------- MODULE Kernel -------------------------------
(***************************************************************************)
(* The process and scheduling core of the kernel: process control blocks   *)
(* (process_control.c), execute and halt (syscalls.c), the PIT handler and *)
(* its context switch (interrupts.c, schedule_wrapper.S), the terminal     *)
(* switch run by the keyboard handler and the return-key handshake of      *)
(* terminal_read (terminal.c).                                             *)
(*                                                                         *)
(* One CPU runs one CONTEXT at a time: the kernel stack of a process, or   *)
(* context 0, the stack on which a root shell was (re)started.  Every      *)
(* interrupt and system call enters through an interrupt gate and execute  *)
(* pushes the flags it was entered with, so user code runs with interrupts *)
(* disabled; an interrupt is taken only in the places where the kernel     *)
(* itself executes sti.  pc[c] names those places:                         *)
(*   "user"    user code, interrupts off                                   *)
(*   "read"    the wait loop of terminal_read                              *)
(*   "window"  any other stretch of a system call between sti and its iret *)
(*             (terminal_write, the end of terminal_read, rtc_open, ...)   *)
(*   "halted"  the tail of execute after the label HALTED                  *)
(*   "exec"    inside execute, waiting for the child to halt               *)
(* Where the kernel keeps interrupts off, what it does is one step.        *)
(***************************************************************************)
EXTENDS Integers, Sequences, FiniteSets

CONSTANTS
    NUM_TERMINALS,   \* terminals the user can switch between (3)
    MAX_PROCESSES,   \* processes that may be live at a time (6)
    MaxNest,         \* bound: keyboard handlers nested on one kernel stack
    Followed         \* bound: the hazards after which behaviours are still explored

ASSUME NumTerminalsAssumption == NUM_TERMINALS \in Nat \ {0}
ASSUME MaxProcessesAssumption == MAX_PROCESSES \in Nat \ {0}
ASSUME MaxNestAssumption == MaxNest \in Nat
ASSUME FollowedAssumption ==
    Followed \subseteq {"exec_elsewhere"}

VARIABLES
    live,                  \* pids whose control block holds their own pid (not -1)
    parent,                \* control_blocks[p].parent
    stack_pos,             \* context on whose stack control_blocks[p].stack_pos lies
    num_active_processes,
    current_pid,
    current_terminal,      \* the terminal on the screen
    current_process,       \* the terminal whose program has the CPU
    terminal_running,
    terminal_request,      \* terminal the next tick must switch to, or -1
    schedule_tick,         \* one bit, flipped by every tick
    schedule_top,
    schedule_stack,
    schedule_esp,          \* saved position of each scheduled process, or NotSaved
    return_switch,         \* TRUE: a reader of that terminal waits for the return key
    cip,                   \* the local variable of terminal_read, per context
    cpu,                   \* the context that is running
    pc,
    kbd,                   \* per context, its nested keyboard handlers with interrupts on
    mode,                  \* "run"; "loop": stuck in timer_handler; "fault": undefined
    hazard                 \* history: the risky interleavings met so far

procVars  == <<live, parent, stack_pos, num_active_processes>>
schedVars == <<schedule_top, schedule_stack, schedule_esp>>
termVars  == <<current_terminal, terminal_running>>
tickVars  == <<current_process, terminal_request, schedule_tick>>
readVars  == <<return_switch, cip>>
vars == <<procVars, schedVars, termVars, tickVars, readVars,
          current_pid, cpu, pc, kbd, mode, hazard>>

TOTAL_PROCESSES == MAX_PROCESSES + 1
SENTINEL_PROCESS == 0
Terminals == 0 .. NUM_TERMINALS - 1
Pids      == 1 .. MAX_PROCESSES           \* control_blocks[1 .. TOTAL_PROCESSES - 1]
Contexts  == 0 .. MAX_PROCESSES
Slots     == 0 .. TOTAL_PROCESSES - 1

Places == {"boot", "user", "read", "window", "halted", "exec", "dead"}
Hazards == {"exec_elsewhere", "open_unsaved", "tick_at_root_exit"}

\* A handler in the loop of terminal_switch is its schedule_ticked.  ENDING is one with
\* interrupts on that waits for nothing: in the row window of terminal_write, or behind
\* the sti at the end of terminal_write or of terminal_switch.
Ticked == {0, 1}
ENDING == 2
Handlers == Ticked \cup {ENDING}

\* A loop keeps the stack pointer where it is: all of the first n handlers are in theirs.
Looping(c, n) == \A i \in 1 .. n : kbd[c][i] \in Ticked

\* A saved stack pointer: whose stack, at which place, under how many handlers, and
\* whether all of them were in their loops.
Position == [ctx : Contexts, at : Places, nest : 0 .. MaxNest, looping : BOOLEAN]
NotSaved == [ctx |-> 0, at |-> "dead", nest |-> 0, looping |-> TRUE]   \* the 0 of schedule_ebp
Here == [ctx |-> cpu, at |-> pc[cpu], nest |-> Len(kbd[cpu]), looping |-> Looping(cpu, Len(kbd[cpu]))]

TypeOK ==
    /\ live \subseteq Pids
    /\ parent \in [Contexts -> Contexts]
    /\ stack_pos \in [Contexts -> Contexts]
    /\ num_active_processes \in 0 .. MAX_PROCESSES
    /\ current_pid \in Contexts
    /\ current_terminal \in Terminals
    /\ current_process \in Terminals
    /\ terminal_running \in [Terminals -> {0, 1}]
    /\ terminal_request \in Terminals \cup {-1}
    /\ schedule_tick \in {0, 1}
    /\ schedule_top \in [Terminals -> 0 .. TOTAL_PROCESSES]
    /\ schedule_stack \in [Terminals -> [Slots -> Contexts]]
    /\ schedule_esp \in [Terminals -> [Slots -> Position]]
    /\ return_switch \in [Terminals -> BOOLEAN]
    /\ cip \in [Contexts -> Terminals]
    /\ cpu \in Contexts
    /\ pc \in [Contexts -> Places]
    /\ kbd \in [Contexts -> Seq(Handlers)]
    /\ mode \in {"run", "loop", "fault"}
    /\ hazard \subseteq Hazards

-----------------------------------------------------------------------------
(* Process control and the schedule stacks.                                *)

\* Boot, up to the first execute: PIT_init, process_control_block_init,
\* first_process_init and terminal_open.
Init ==
    /\ live = {}
    /\ parent = [p \in Contexts |-> SENTINEL_PROCESS]
    /\ stack_pos = [p \in Contexts |-> SENTINEL_PROCESS]
    /\ num_active_processes = 0
    /\ current_pid = SENTINEL_PROCESS
    /\ current_terminal = 0
    /\ current_process = 0
    /\ terminal_running = [t \in Terminals |-> 0]
    /\ terminal_request = -1
    /\ schedule_tick = 0
    /\ schedule_top = [t \in Terminals |-> 0]
    /\ schedule_stack = [t \in Terminals |-> [i \in Slots |-> 0]]
    /\ schedule_esp = [t \in Terminals |-> [i \in Slots |-> NotSaved]]
    /\ return_switch = [t \in Terminals |-> FALSE]
    /\ cip = [c \in Contexts |-> 0]
    /\ cpu = SENTINEL_PROCESS
    /\ pc = [c \in Contexts |-> IF c = SENTINEL_PROCESS THEN "boot" ELSE "dead"]
    /\ kbd = [c \in Contexts |-> << >>]
    /\ mode = "run"
    /\ hazard = {}

\* create_new_pcb takes the first block whose pid field is -1.
FreePids == Pids \ live
NewPid == CHOOSE p \in FreePids : \A q \in FreePids : p <= q

\* Mutant: the parent field is left as first_process_init set it.
create_new_pcb_orphan(p, par) ==
    live' = live \cup {p} /\ num_active_processes' = num_active_processes + 1 /\ UNCHANGED parent

create_new_pcb(p, par) ==
    /\ live' = live \cup {p}
    /\ parent' = [parent EXCEPT ![p] = par]
    /\ num_active_processes' = num_active_processes + 1

\* Mutants of destroy_pcb: the counter is forgotten, or decremented by halt as well.
destroy_pcb_uncounted(p) == live' = live \ {p} /\ UNCHANGED <<num_active_processes, parent>>
destroy_pcb_twice(p) ==
    live' = live \ {p} /\ num_active_processes' = num_active_processes - 2 /\ UNCHANGED parent

destroy_pcb(p) ==
    /\ live' = live \ {p}
    /\ num_active_processes' = num_active_processes - 1
    /\ UNCHANGED parent

\* schedule() pushes on the stack of the terminal it is given; the caller in the
\* code always lets it use current_terminal.
schedule(t, p) ==
    /\ schedule_top' = [schedule_top EXCEPT ![t] = @ + 1]
    /\ schedule_stack' = [schedule_stack EXCEPT ![t][schedule_top[t]] = p]
    /\ UNCHANGED schedule_esp

\* Mutant: pops the stack of the terminal on the screen.
deschedule_displayed ==
    /\ schedule_top' = [schedule_top EXCEPT ![current_terminal] = @ - 1]
    /\ UNCHANGED <<schedule_stack, schedule_esp>>

\* deschedule() pops the stack of current_process and clears the popped slot.
deschedule ==
    LET t == current_process
        top == schedule_top[t] - 1
    IN  /\ schedule_top' = [schedule_top EXCEPT ![t] = @ - 1]
        /\ schedule_stack' = [schedule_stack EXCEPT ![t][top] = 0]
        /\ schedule_esp' = [schedule_esp EXCEPT ![t][top] = NotSaved]

\* The machine runs, and the behaviour is still to be explored.
Going == mode = "run" /\ hazard \subseteq Followed

\* Mutant: terminal_switch waits for the tick without sti.
InterruptsOn_not_in_switch ==
    IF kbd[cpu] # << >> THEN kbd[cpu][Len(kbd[cpu])] = ENDING ELSE pc[cpu] \in {"read", "window", "halted"}

\* Interrupts are enabled where the running context is.
InterruptsOn == \/ kbd[cpu] # << >>
                \/ pc[cpu] \in {"read", "window", "halted"}

InUser(c) == Going /\ cpu = c /\ pc[c] = "user"

-----------------------------------------------------------------------------
(* execute and halt.                                                       *)

\* The successful path of execute, called in context c by process par while
\* terminal t is on the screen: the child gets the CPU and runs user code.
\* tss.esp0 and the program page are set from current_pid here, in halt and in
\* timer_handler, wherever current_pid itself is set.
execute(c, par, t) ==
    /\ num_active_processes < MAX_PROCESSES
    /\ create_new_pcb(NewPid, par)
    /\ stack_pos' = [stack_pos EXCEPT ![NewPid] = c]
    /\ current_pid' = NewPid
    /\ terminal_running' = [terminal_running EXCEPT ![t] = 1]
    /\ schedule(t, NewPid)
    /\ cpu' = NewPid
    /\ pc' = [pc EXCEPT ![c] = "exec", ![NewPid] = "user"]
    /\ kbd' = [kbd EXCEPT ![c] = << >>, ![NewPid] = << >>]

\* schedule() takes current_terminal, deschedule() and the timer current_process:
\* a program started while another terminal is on the screen lands on its stack.
ExecHazard == IF current_process # current_terminal THEN {"exec_elsewhere"} ELSE {}

\* The boot code starts the first shell.
Boot ==
    /\ Going /\ pc[cpu] = "boot"
    /\ execute(SENTINEL_PROCESS, current_pid, current_terminal)
    /\ UNCHANGED <<current_terminal, tickVars, readVars, mode, hazard>>

\* The execute system call; its failures (no such program, MAX_PROCESSES
\* reached) return -1 and change none of this state.
SysExecute(c) ==
    /\ InUser(c)
    /\ execute(c, current_pid, current_terminal)
    /\ hazard' = hazard \cup ExecHazard
    /\ UNCHANGED <<current_terminal, tickVars, readVars, mode>>

\* halt, called by the program or by an exception handler, up to the sti after
\* HALTED: the CPU goes on at the stack position saved by the execute that
\* started the process.
SysHalt(c) ==
    LET past_pid == current_pid
        back == stack_pos[past_pid]
    IN  /\ InUser(c)
        /\ destroy_pcb(past_pid)
        /\ current_pid' = parent[past_pid]
        /\ cpu' = back
        /\ IF schedule_top[current_process] > 0 /\ pc[back] = "exec"
           THEN deschedule /\ UNCHANGED mode
           ELSE mode' = "fault" /\ UNCHANGED schedVars
        /\ pc' = [pc EXCEPT ![c] = "dead", ![back] = "halted"]
        /\ UNCHANGED <<stack_pos, termVars, tickVars, readVars, kbd, hazard>>

\* The rest of execute: return to the parent, or start a new root shell.
AfterHalted(c) ==
    /\ Going /\ cpu = c /\ pc[c] = "halted" /\ kbd[c] = << >>
    /\ \/ /\ current_pid = SENTINEL_PROCESS
          /\ execute(c, current_pid, current_terminal)
          /\ hazard' = hazard \cup ExecHazard
       \/ /\ current_pid # SENTINEL_PROCESS
          /\ pc' = [pc EXCEPT ![c] = "user"]
          /\ UNCHANGED <<procVars, schedVars, terminal_running, current_pid, cpu, kbd, hazard>>
    /\ UNCHANGED <<current_terminal, tickVars, readVars, mode>>

-----------------------------------------------------------------------------
(* terminal_read and the other system calls that open an interrupt window. *)

\* Mutant: waits on the switch of the terminal on the screen.
SysRead_displayed(c) ==
    /\ InUser(c)
    /\ return_switch' = [return_switch EXCEPT ![current_terminal] = TRUE]
    /\ cip' = [cip EXCEPT ![c] = current_process]
    /\ pc' = [pc EXCEPT ![c] = "read"]
    /\ UNCHANGED <<procVars, schedVars, termVars, tickVars, current_pid, cpu, kbd, mode, hazard>>

SysRead(c) ==
    /\ InUser(c)
    /\ return_switch' = [return_switch EXCEPT ![current_process] = TRUE]
    /\ cip' = [cip EXCEPT ![c] = current_process]
    /\ pc' = [pc EXCEPT ![c] = "read"]
    /\ UNCHANGED <<procVars, schedVars, termVars, tickVars, current_pid, cpu, kbd, mode, hazard>>

ReadDone(c) ==
    /\ Going /\ cpu = c /\ pc[c] = "read" /\ kbd[c] = << >>
    /\ ~return_switch[cip[c]]
    /\ cip' = [cip EXCEPT ![c] = 0]          \* the local is dead
    /\ pc' = [pc EXCEPT ![c] = "window"]
    /\ UNCHANGED <<procVars, schedVars, termVars, tickVars, return_switch, current_pid, cpu, kbd, mode, hazard>>

SysWrite(c) ==
    /\ InUser(c)
    /\ pc' = [pc EXCEPT ![c] = "window"]
    /\ UNCHANGED <<procVars, schedVars, termVars, tickVars, readVars, current_pid, cpu, kbd, mode, hazard>>

WindowClose(c) ==
    /\ Going /\ cpu = c /\ pc[c] = "window" /\ kbd[c] = << >>
    /\ pc' = [pc EXCEPT ![c] = "user"]
    /\ UNCHANGED <<procVars, schedVars, termVars, tickVars, readVars, current_pid, cpu, kbd, mode, hazard>>

-----------------------------------------------------------------------------
(* The PIT interrupt.                                                      *)

\* Mutants: does not skip terminals without a process; starts at the current one.
NextTerminal_any == (current_process + 1) % NUM_TERMINALS
NextTerminal_same == current_process

\* The loop that looks for the next terminal with a scheduled process.
NextTerminal ==
    LET t(k) == (current_process + k) % NUM_TERMINALS
        k == CHOOSE k \in 1 .. NUM_TERMINALS :
                /\ schedule_top[t(k)] # 0
                /\ \A j \in 1 .. k - 1 : schedule_top[t(j)] = 0
    IN  t(k)

\* Mutant: a slot that holds a position is not saved again.
SavedEsp_once ==
    LET top == schedule_top[current_process] - 1
    IN  IF top < 0 \/ schedule_esp[current_process][top] # NotSaved THEN schedule_esp
        ELSE [schedule_esp EXCEPT ![current_process][top] = Here]

\* schedule_esp after the save at the start of timer_handler.
SavedEsp ==
    IF schedule_top[current_process] = 0 THEN schedule_esp
    ELSE [schedule_esp EXCEPT ![current_process][schedule_top[current_process] - 1] = Here]

\* The stack still reaches down to a saved stack pointer: the context is where it was
\* saved, or it is still in those loops, where every interrupt leaves the frame of an
\* interrupt at the same depth; handlers nested deeper since then are dropped.
Reaches(s) == IF s.looping
              THEN s.nest <= Len(kbd[s.ctx]) /\ Looping(s.ctx, s.nest)
              ELSE s.nest = Len(kbd[s.ctx])

\* A context can go on from a saved stack pointer.
Usable(s) == pc[s.ctx] = s.at /\ Reaches(s)

\* timer_handler and schedule_wrapper: save, choose, load, flip the tick.
TimerTick ==
    /\ Going /\ InterruptsOn
    /\ hazard' = hazard \cup IF cpu = SENTINEL_PROCESS THEN {"tick_at_root_exit"} ELSE {}
    /\ schedule_esp' = SavedEsp
    /\ IF terminal_request = -1 /\ \A t \in Terminals : schedule_top[t] = 0
       THEN /\ mode' = "loop"
            /\ UNCHANGED <<tickVars, current_pid, cpu, kbd>>
       ELSE LET next == IF terminal_request = -1 THEN NextTerminal ELSE terminal_request
                top == schedule_top[next] - 1
                s == SavedEsp[next][top]
            IN  /\ current_process' = next
                /\ terminal_request' = -1
                /\ schedule_tick' = 1 - schedule_tick
                /\ IF top >= 0 /\ s # NotSaved
                   THEN /\ current_pid' = schedule_stack[next][top]
                        /\ cpu' = s.ctx
                        /\ IF Usable(s)
                           THEN kbd' = [kbd EXCEPT ![s.ctx] = SubSeq(@, 1, s.nest)] /\ UNCHANGED mode
                           ELSE mode' = "fault" /\ UNCHANGED kbd
                   ELSE UNCHANGED <<current_pid, cpu, mode, kbd>>
    /\ UNCHANGED <<procVars, termVars, readVars, schedule_top, schedule_stack, pc>>

-----------------------------------------------------------------------------
(* The keyboard interrupt, as far as it changes this state.                *)

\* The return key: terminal_return releases the reader of the terminal on screen.
KeyEnter ==
    /\ Going /\ InterruptsOn
    /\ return_switch[current_terminal]
    /\ return_switch' = [return_switch EXCEPT ![current_terminal] = FALSE]
    /\ UNCHANGED <<procVars, schedVars, termVars, tickVars, cip, current_pid, cpu, pc, kbd, mode, hazard>>

\* terminal_switch to a terminal that runs: ask the timer for it and wait, inside
\* the handler, until schedule_tick has changed.
KeySwitchRunning(num) ==
    /\ Going /\ InterruptsOn
    /\ num # current_terminal /\ terminal_running[num] = 1
    /\ Len(kbd[cpu]) < MaxNest
    /\ current_terminal' = num
    /\ terminal_request' = num
    /\ kbd' = [kbd EXCEPT ![cpu] = Append(@, schedule_tick)]
    /\ UNCHANGED <<procVars, schedVars, readVars, terminal_running, current_process,
                   schedule_tick, current_pid, cpu, pc, mode, hazard>>

\* A key that is echoed: terminal_write enables interrupts around next_line and at its
\* end.  Keys whose handlers never do so are not steps of this module.
KeyEcho ==
    /\ Going /\ InterruptsOn
    /\ Len(kbd[cpu]) < MaxNest
    /\ kbd' = [kbd EXCEPT ![cpu] = Append(@, ENDING)]
    /\ UNCHANGED <<procVars, schedVars, termVars, tickVars, readVars, current_pid, cpu, pc, mode, hazard>>

\* The wait in terminal_switch is over; the handler enables interrupts and ends.
SwitchEnds(c) ==
    /\ Going /\ cpu = c /\ kbd[c] # << >>
    /\ kbd[c][Len(kbd[c])] \in Ticked \ {schedule_tick}
    /\ kbd' = [kbd EXCEPT ![c] = Append(SubSeq(@, 1, Len(@) - 1), ENDING)]
    /\ UNCHANGED <<procVars, schedVars, termVars, tickVars, readVars, current_pid, cpu, pc, mode, hazard>>

\* restore_flags and iret at the end of a keyboard handler.
HandlerReturns(c) ==
    /\ Going /\ cpu = c /\ kbd[c] # << >>
    /\ kbd[c][Len(kbd[c])] = ENDING
    /\ kbd' = [kbd EXCEPT ![c] = SubSeq(@, 1, Len(@) - 1)]
    /\ UNCHANGED <<procVars, schedVars, termVars, tickVars, readVars, current_pid, cpu, pc, mode, hazard>>

\* The saved position from which the interrupted process would be resumed.
SlotOfCurrent == schedule_esp[current_process][schedule_top[current_process] - 1]

\* The interrupted context can be resumed later although its position is not saved now:
\* the last tick found it in loops in which it still is.
Resumable == /\ schedule_top[current_process] > 0
             /\ SlotOfCurrent.ctx = cpu /\ SlotOfCurrent.at = "read" /\ pc[cpu] = "read"
             /\ SlotOfCurrent.looping /\ Reaches(SlotOfCurrent)

\* terminal_switch to a terminal without a shell: start one, on top of the
\* interrupted context, whose position nobody saves.
KeySwitchNew(num) ==
    /\ Going /\ InterruptsOn
    /\ num # current_terminal /\ terminal_running[num] = 0
    /\ current_terminal' = num
    /\ current_process' = num
    /\ execute(SENTINEL_PROCESS, SENTINEL_PROCESS, num)
    /\ hazard' = hazard \cup IF Resumable THEN {} ELSE {"open_unsaved"}
    /\ UNCHANGED <<terminal_request, schedule_tick, readVars, mode>>

-----------------------------------------------------------------------------
\* Nothing happens any more after a hang, a fault or a hazard not followed.
Stopped == ~Going /\ UNCHANGED vars

KernelStep(c) == \/ AfterHalted(c)
                 \/ ReadDone(c)
                 \/ WindowClose(c)
                 \/ SwitchEnds(c)
                 \/ HandlerReturns(c)

UserStep(c) == SysExecute(c) \/ SysHalt(c) \/ SysRead(c) \/ SysWrite(c)

Keyboard == KeyEnter \/ KeyEcho \/ \E num \in Terminals : KeySwitchRunning(num) \/ KeySwitchNew(num)

Next == \/ Boot
        \/ \E c \in Contexts : KernelStep(c) \/ UserStep(c)
        \/ TimerTick
        \/ Keyboard
        \/ Stopped

Spec == Init /\ [][Next]_vars

-----------------------------------------------------------------------------
(* Safety.  Three interleavings break the kernel (see Hazards); as long as  *)
(* none of them has happened:                                              *)

Top(t) == schedule_stack[t][schedule_top[t] - 1]
Scheduled(t) == {schedule_stack[t][i] : i \in 0 .. schedule_top[t] - 1}

\* num_active_processes counts the control blocks in use (create_new_pcb,
\* destroy_pcb), so execute's test against MAX_PROCESSES leaves a free block.
Accounting == hazard = {} => num_active_processes = Cardinality(live)

\* The context on the CPU, current_pid (hence tss.esp0 and the program page) and
\* the top of the schedule stack of current_process are one and the same process,
\* through every tick, switch, execute and halt.
InSync ==
    hazard = {} =>
        /\ cpu = current_pid
        /\ cpu # SENTINEL_PROCESS =>
               schedule_top[current_process] > 0 /\ Top(current_process) = cpu

\* Each live process is on exactly one schedule stack, once; a stack is a chain of
\* parents with a root shell at the bottom, and everyone below the top waits in
\* execute for the process above it.
StackDiscipline ==
    hazard = {} =>
        /\ live = UNION {Scheduled(t) : t \in Terminals}
        /\ \A t, u \in Terminals :
             \A i \in 0 .. schedule_top[t] - 1, j \in 0 .. schedule_top[u] - 1 :
               schedule_stack[t][i] = schedule_stack[u][j] => t = u /\ i = j
        /\ \A t \in Terminals : \A i \in 0 .. schedule_top[t] - 1 :
             LET p == schedule_stack[t][i]
                 below == IF i = 0 THEN SENTINEL_PROCESS ELSE schedule_stack[t][i - 1]
             IN  /\ parent[p] = below
                 /\ stack_pos[p] = below
                 /\ i < schedule_top[t] - 1 => pc[p] = "exec"

\* Whoever is preempted can be resumed: the slot that timer_handler would load for
\* a terminal without the CPU is the position at which its top process stopped.
SavedContexts ==
    hazard = {} =>
        \A t \in Terminals \ {current_process} :
            schedule_top[t] > 0 =>
                LET s == schedule_esp[t][schedule_top[t] - 1]
                IN  s # NotSaved /\ s.ctx = Top(t) /\ Usable(s)

\* Apart from the three hazards, the kernel never hangs in timer_handler, resumes
\* a stale stack pointer, or pops an empty schedule stack.
NoHang == hazard = {} => mode = "run"

\* No lost wake-up: a return switch is on only while the top process of that very
\* terminal waits for it in terminal_read.
Handshake ==
    hazard = {} =>
        \A t \in Terminals : return_switch[t] =>
            schedule_top[t] > 0 /\ pc[Top(t)] = "read" /\ cip[Top(t)] = t

\* A terminal marked running has a process to schedule, except while its root shell
\* is being restarted at the end of execute.
RunningHasShell ==
    hazard = {} =>
        \A t \in Terminals :
            terminal_running[t] = 1 =>
                \/ schedule_top[t] > 0
                \/ cpu = SENTINEL_PROCESS /\ t = current_process

-----------------------------------------------------------------------------
(* Liveness.  The PIT raises its line every 10 ms and the PIC holds it      *)
(* until the CPU enables interrupts, so a tick cannot be missed for ever    *)
(* by short windows (SF); a time slice is long enough for the kernel code   *)
(* of the running context to take its next step (SF).  Users owe nothing.   *)
(* Whether a program keeps making system calls is up to the program.        *)

MachineFairness == SF_vars(TimerTick) /\ WF_vars(Boot)
                   /\ \A c \in Contexts : SF_vars(KernelStep(c))
ProgramFairness == \A c \in Contexts : WF_vars(UserStep(c))

MachineSpec == Spec /\ MachineFairness
FairSpec    == MachineSpec /\ ProgramFairness

KeySwitch == \E num \in Terminals : KeySwitchRunning(num) \/ KeySwitchNew(num)

\* Once the user stops switching, timer_handler's round robin gives every running
\* terminal the CPU again and again.
RoundRobin ==
    (<>[][~KeySwitch]_vars /\ [](hazard = {})) =>
        \A t \in Terminals : []<>(terminal_running[t] = 1 => current_process = t)

\* The terminal asked for by terminal_switch gets the CPU, unless the user has moved on to
\* another one by then (the second of two nested switches replaces the request).
RequestServed ==
    \A t \in Terminals :
        terminal_request = t ~> (current_process = t \/ current_terminal # t \/ hazard # {})

-----------------------------------------------------------------------------
(* What the comments of the code say, where the code does otherwise.       *)

\* syscalls.h on schedule_stack: "Holds the processes present within a terminal."
\* A child belongs to the terminal of its parent.
ProcessesOfATerminal ==
    hazard \subseteq {"exec_elsewhere"} =>
        \A t \in Terminals : \A i \in 1 .. schedule_top[t] - 1 :
            parent[schedule_stack[t][i]] = schedule_stack[t][i - 1]

\* terminal_read: "Waits for an return key press, and then copies the keyboard
\* buffer": once the return key was pressed, the reader gets on.
ReaderReturns ==
    \A c \in Contexts :
        (pc[c] = "read" /\ ~return_switch[cip[c]])
            ~> (pc[c] # "read" \/ return_switch[cip[c]] \/ hazard # {})

=============================================================================
