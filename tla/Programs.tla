------------------------------ MODULE Programs ------------------------------
(***************************************************************************)
(* What a program gets from the kernel: its arguments (execute, getargs),  *)
(* the values its system calls return (syscalls_wrapper.S, halt), and a    *)
(* kernel stack nobody else writes to (execute's buffer).                  *)
(*                                                                         *)
(* Interrupts are on only in calls that enabled them (terminal_read and    *)
(* terminal_write, execute behind HALTED) until their iret; everything     *)
(* else runs from int 0x80 to iret without a tick and is one step.  The    *)
(* schedule stacks are those of Kernel before one of its hazards: programs *)
(* start on the terminal of their caller, and no tick finds a terminal     *)
(* between two root shells.                                                *)
(***************************************************************************)
EXTENDS Lib, FiniteSets, SequencesExt

CONSTANTS
    NUM_TERMINALS,
    MAX_PROCESSES,
    Executables,       \* programs in the file system, "shell" among them
    Size,              \* their sizes in bytes
    Arguments,         \* what may stand behind the program's name: sequences of characters
    ARGS_BUFFER_SIZE,
    BufferSizes,       \* nbytes of a getargs call
    Statuses,          \* what programs pass to halt
    Vectors,           \* exceptions programs raise
    MaxRestarts        \* bound on the exits of root shells

ASSUME BoundsAssumption == NUM_TERMINALS \in Nat \ {0} /\ MAX_PROCESSES \in Nat \ {0}
ASSUME ShellAssumption == "shell" \in Executables /\ Size \in [Executables -> Nat]
ASSUME ArgumentsAssumption ==
    /\ ARGS_BUFFER_SIZE \in Nat \ {0}
    /\ \A a \in Arguments : a \in Seq(Nat \ {NUL}) /\ Len(a) < ARGS_BUFFER_SIZE
ASSUME NumbersAssumption == Statuses \subseteq Int /\ BufferSizes \subseteq Int /\ MaxRestarts \in Nat

Terminals == 0 .. NUM_TERMINALS - 1
Pids == 1 .. MAX_PROCESSES

VARIABLES
    chain,        \* the processes of each terminal, each started by the one before it
    cpu,          \* the terminal that has the processor
    pc,           \* where each process is: "free", "user", "waits" in execute for its child,
                  \* "halted" behind HALTED, "window" in a call with interrupts on,
                  \* "store" and "load": before the two uses of return_val
    eax,          \* the value on its way to the process
    return_val,   \* the one word of syscalls_wrapper.S
    slot,         \* for a process at "halted": the pid whose kernel stack holds the value
    args,         \* the args buffer of each control block
    base,         \* the stack pointer at which the root execute of a terminal was called
    restarts,
    stopped,      \* an exception handler spins with interrupts off
    (* history *)
    given,        \* the arguments each process was started with
    consumed,     \* processes that have called getargs successfully, or execute
    mixed,        \* processes started over a longer argument nobody had read
    due,          \* what the call in progress has to return
    torn          \* processes whose live kernel stack was overwritten

stackvars == <<base, torn>>
argvars == <<args, given, consumed, mixed>>
retvars == <<eax, return_val, slot, due>>
vars == <<chain, cpu, pc, restarts, stopped, argvars, retvars, stackvars>>

Running == Last(chain[cpu])
Alive == {p \in Pids : pc[p] # "free"}
LowestFree(used) == CHOOSE p \in Pids \ used : \A q \in Pids \ used : p <= q
Runs(p) == ~stopped /\ chain[cpu] # << >> /\ p = Running

\* The phases in which a tick or a key can interrupt the process.
InterruptsOn(p) == pc[p] \in {"halted", "window", "store", "load"}

-----------------------------------------------------------------------------
(* Kernel stacks.  The frame of execute is that of the build in mp3.img:    *)
(* buf starts 40036 bytes below a frame pointer 72 bytes below the entry.  *)

\* Mutant: a buffer of 9000 words.
BUF_DEPTH_small == 36108

\* From the stack pointer at the call down to buf, 10000 words.
BUF_DEPTH == 40108

KERNEL_TOP == 8388608                  \* KERNEL_ADDR + M_4
ROOT_STEP == 40292                     \* what a finished root shell leaves on the stack
READ_LENGTH == 10000                   \* bytes of the program that execute reads
LIVE == 1024                           \* more than any other call and its interrupts use
STACK_DEPTH == 40252                   \* from the stack pointer at the call down to stack_pos
HANDLER_DEPTH == 512                   \* from the interrupted place down to a keyboard handler's call

esp0(pid) == KERNEL_TOP - 15 - 32768 * pid

\* Where a process has live frames: below its esp0 and, behind HALTED, where esp is
\* stack_pos again, also at the bottom of its execute.
Tops(q) == {esp0(q)} \cup {esp0(q) - STACK_DEPTH : r \in {q} \cap {p \in Pids : pc[p] = "halted"}}

\* The processes with live frames among the bytes that are stored when execute is called
\* with stack pointer sp: by the functions it calls, and by read into buf.
Overwritten(sp, prog, procs) ==
    LET lo == sp - STACK_DEPTH - LIVE
        hi == sp - BUF_DEPTH + Lesser(Size[prog], READ_LENGTH)
    IN  {q \in procs : \E top \in Tops(q) : lo < top /\ top - LIVE < hi}

-----------------------------------------------------------------------------
(* Arguments. *)

Empty == [i \in 0 .. ARGS_BUFFER_SIZE - 1 |-> NUL]
Cells0(a) == [i \in 0 .. Len(a) |-> IF i < Len(a) THEN a[i + 1] ELSE NUL]
Pending(buffer) == [i \in 1 .. strlen(buffer) |-> buffer[i - 1]]

\* The loop stops at the first NUL.
clear_args(buffer) == [i \in DOMAIN buffer |-> IF i < strlen(buffer) THEN NUL ELSE buffer[i]]

\* Mutant: the buffer is left alone when there are no arguments.
PassArgs_keep(buffer, a) == IF a = << >> THEN buffer ELSE strncpy(buffer, Cells0(a), Len(a))

\* execute: clear the buffer, or copy the characters without their NUL.
PassArgs(buffer, a) ==
    IF a = << >> THEN clear_args(buffer) ELSE strncpy(buffer, Cells0(a), Len(a))

\* What execute does for the new process c; create_new_pcb has just cleared the buffer
\* of current_pid, which is still the caller (nobody, for a root shell).
StartArgs(c, callers, a) ==
    /\ args' = [p \in Pids |-> IF p = c THEN PassArgs(args[c], a)
                               ELSE IF p \in callers THEN clear_args(args[p]) ELSE args[p]]
    /\ given' = [given EXCEPT ![c] = a]
    /\ consumed' = (consumed \ {c}) \cup callers
    /\ mixed' = IF a # << >> /\ strlen(args[c]) > Len(a) THEN mixed \cup {c} ELSE mixed \ {c}

\* The kernel stack of c comes into use again: a value kept there since its last process
\* halted is overwritten sooner or later.
ReuseStack(c) ==
    LET hit == {p \in Alive : pc[p] = "halted" /\ slot[p] = c}
    IN  eax' \in {eax, [p \in Pids |-> IF p \in hit THEN -2 ELSE eax[p]]}

-----------------------------------------------------------------------------
Init ==
    /\ chain = [t \in Terminals |-> IF t = 0 THEN <<1>> ELSE << >>]
    /\ cpu = 0
    /\ pc = [p \in Pids |-> IF p = 1 THEN "user" ELSE "free"]
    /\ eax = [p \in Pids |-> 0] /\ return_val = 0 /\ slot = [p \in Pids |-> 0]
    /\ args = [p \in Pids |-> Empty]
    /\ base = [t \in Terminals |-> KERNEL_TOP - 100]
    /\ restarts = 0 /\ stopped = FALSE
    /\ given = [p \in Pids |-> << >>] /\ consumed = {} /\ mixed = {}
    /\ due = [p \in Pids |-> 0] /\ torn = {}

\* A system call that ends with interrupts still off: the value is stored and loaded
\* without a break.
Returns(v) == return_val' = v

\* set_handler, sigreturn, vidmap on a kernel address, any descriptor call that refuses
\* its arguments, execute of a name that is not there, of a command of 128 characters or
\* with every control block in use; and a number outside 1 .. 10, for which -1 does not
\* pass through return_val.
Refused(p) ==
    /\ Runs(p) /\ pc[p] = "user"
    /\ Returns(-1) \/ UNCHANGED return_val
    /\ UNCHANGED <<chain, cpu, pc, restarts, stopped, argvars, stackvars, eax, slot, due>>

Execute(p, prog, a) ==
    /\ Runs(p) /\ pc[p] = "user"
    /\ Cardinality(Alive) < MAX_PROCESSES
    /\ LET c == LowestFree(Alive)
       IN  /\ chain' = [chain EXCEPT ![cpu] = Append(@, c)]
           /\ pc' = [pc EXCEPT ![p] = "waits", ![c] = "user"]
           /\ StartArgs(c, {p}, a)
           /\ ReuseStack(c)
           /\ torn' = (torn \ {c}) \cup Overwritten(esp0(p), prog, Alive)
    /\ UNCHANGED <<cpu, restarts, stopped, return_val, slot, due, base>>

\* terminal_switch to a terminal that has no shell yet: do_call on the stack of the
\* process whose call the keyboard interrupted.
OpenTerminal(t) ==
    /\ Runs(Running) /\ InterruptsOn(Running)
    /\ chain[t] = << >>
    /\ Cardinality(Alive) < MAX_PROCESSES
    /\ LET c == LowestFree(Alive)
           sp == esp0(Running) - HANDLER_DEPTH - (IF pc[Running] = "halted" THEN STACK_DEPTH ELSE 0)
       IN  /\ chain' = [chain EXCEPT ![t] = <<c>>]
           /\ cpu' = t
           /\ pc' = [pc EXCEPT ![c] = "user"]
           /\ StartArgs(c, {}, << >>)
           /\ ReuseStack(c)
           /\ base' = [base EXCEPT ![t] = sp]
           /\ torn' = (torn \ {c}) \cup Overwritten(sp, "shell", Alive)
    /\ UNCHANGED <<restarts, stopped, return_val, slot, due>>

getargs(p, nbytes) ==
    /\ Runs(p) /\ pc[p] = "user"
    /\ LET args_size == strlen(args[p])
       IN  IF nbytes <= 0 \/ args_size > nbytes \/ args_size = 0
           THEN Returns(-1) /\ UNCHANGED <<args, consumed>>
           ELSE /\ Returns(0)
                /\ args' = [args EXCEPT ![p] = clear_args(@)]
                /\ consumed' = consumed \cup {p}
    /\ UNCHANGED <<chain, cpu, pc, restarts, stopped, given, mixed, stackvars, eax, slot, due>>

\* xorl clears eax before movb loads the status into al.  The compiler may keep the
\* status in al itself (the build in mp3.img does), and then it is lost.
HaltValues(status) == {0, status % 256}

\* halt of a program with a parent, up to the sti behind HALTED: the value is a local
\* of execute addressed through the frame pointer of halt, so it lies in the stack of p.
HaltToParent(p, status) ==
    LET parent == chain[cpu][Len(chain[cpu]) - 1]
    IN  /\ Len(chain[cpu]) > 1
        /\ chain' = [chain EXCEPT ![cpu] = Front(@)]
        /\ pc' = [pc EXCEPT ![p] = "free", ![parent] = "halted"]
        /\ slot' = [slot EXCEPT ![parent] = p]
        /\ \E v \in HaltValues(status) : eax' = [eax EXCEPT ![parent] = v]
        /\ due' = [due EXCEPT ![parent] = status]
        /\ torn' = torn \ {p}
        /\ given' = [given EXCEPT ![p] = << >>]
        /\ consumed' = consumed \ {p}
        /\ mixed' = mixed \ {p}
        /\ UNCHANGED <<cpu, restarts, stopped, args, return_val, base>>

\* halt of a root shell: execute calls itself for a new one, below its own frame.
HaltRoot(p) ==
    /\ Len(chain[cpu]) = 1
    /\ restarts < MaxRestarts
    /\ restarts' = restarts + 1
    /\ LET others == Alive \ {p}
           c == LowestFree(others)
           sp == base[cpu] - ROOT_STEP
       IN  /\ chain' = [chain EXCEPT ![cpu] = <<c>>]
           /\ pc' = [q \in Pids |-> IF q = c THEN "user" ELSE IF q = p THEN "free" ELSE pc[q]]
           /\ StartArgs(c, {}, << >>)
           /\ ReuseStack(c)
           /\ base' = [base EXCEPT ![cpu] = sp]
           /\ torn' = (torn \ {c, p}) \cup Overwritten(sp, "shell", others)
    /\ UNCHANGED <<cpu, stopped, return_val, slot, due>>

Halt(p, status) ==
    /\ Runs(p) /\ pc[p] = "user"
    /\ HaltToParent(p, status) \/ HaltRoot(p)

\* Divide error, overflow, bound, invalid opcode, stack, general protection and page
\* faults halt the program with 256; the handlers of the others never return.
HaltingVectors == {0, 4, 5, 6, 12, 13, 14}
Exception(p, vector) ==
    \/ vector \in HaltingVectors /\ Halt(p, 256)
    \/ /\ vector \notin HaltingVectors
       /\ Runs(p) /\ pc[p] = "user"
       /\ stopped' = TRUE
       /\ UNCHANGED <<chain, cpu, pc, restarts, argvars, retvars, stackvars>>

\* terminal_read and terminal_write enable interrupts and leave them on; here they
\* read or write one character.
COUNT == 1
Call(p) ==
    /\ Runs(p) /\ pc[p] = "user"
    /\ pc' = [pc EXCEPT ![p] = "window"]
    /\ due' = [due EXCEPT ![p] = COUNT]
    /\ UNCHANGED <<chain, cpu, restarts, stopped, argvars, stackvars, eax, return_val, slot>>

\* The call returns to system_call with its count, or execute with its child's status.
CallReturns(p) ==
    /\ Runs(p) /\ pc[p] \in {"window", "halted"}
    /\ eax' = IF pc[p] = "window" THEN [eax EXCEPT ![p] = COUNT] ELSE eax
    /\ pc' = [pc EXCEPT ![p] = "store"]
    /\ slot' = [slot EXCEPT ![p] = 0]
    /\ UNCHANGED <<chain, cpu, restarts, stopped, argvars, stackvars, return_val, due>>

\* movl %eax, return_val
Store(p) ==
    /\ Runs(p) /\ pc[p] = "store"
    /\ Returns(eax[p])
    /\ pc' = [pc EXCEPT ![p] = "load"]
    /\ eax' = [eax EXCEPT ![p] = 0]
    /\ UNCHANGED <<chain, cpu, restarts, stopped, argvars, stackvars, slot, due>>

\* movl return_val, %eax and iret, which disables interrupts.
Load(p) ==
    /\ Runs(p) /\ pc[p] = "load"
    /\ due' = [due EXCEPT ![p] = 0]
    /\ pc' = [pc EXCEPT ![p] = "user"]
    /\ UNCHANGED <<chain, cpu, restarts, stopped, argvars, stackvars, eax, return_val, slot>>

\* timer_handler gives the processor to the next terminal that has a process.
Tick ==
    /\ Runs(Running) /\ InterruptsOn(Running)
    /\ LET away == CHOOSE k \in 1 .. NUM_TERMINALS :
                     /\ chain[(cpu + k) % NUM_TERMINALS] # << >>
                     /\ \A j \in 1 .. k - 1 : chain[(cpu + j) % NUM_TERMINALS] = << >>
       IN  cpu' = (cpu + away) % NUM_TERMINALS
    /\ UNCHANGED <<chain, pc, restarts, stopped, argvars, stackvars, eax, return_val, slot, due>>

\* A spinning handler is the end of everything.
Stopped == stopped /\ UNCHANGED vars

Next ==
    \/ \E p \in Pids :
         \/ Refused(p) \/ Call(p) \/ CallReturns(p) \/ Store(p) \/ Load(p)
         \/ \E prog \in Executables, a \in Arguments : Execute(p, prog, a)
         \/ \E n \in BufferSizes : getargs(p, n)
         \/ \E s \in Statuses : Halt(p, s)
         \/ \E v \in Vectors : Exception(p, v)
    \/ \E t \in Terminals : OpenTerminal(t)
    \/ Tick
    \/ Stopped

Spec == Init /\ [][Next]_vars

-----------------------------------------------------------------------------
\* What getargs stores in the caller's buffer: strncpy without the NUL, and the NUL.
Given(p) ==
    LET n == strlen(args[p])
        full == [i \in 0 .. ARGS_BUFFER_SIZE |-> 9]
    IN  Pending([strncpy(full, args[p], n) EXCEPT ![n] = NUL])

\* Although halt clears nothing, pids are reused, execute copies arguments without their
\* end and clears the buffer of the caller, a process finds in its control block exactly
\* the arguments it was started with, once, and nothing when it was started with none,
\* unless a longer argument was left there unread.
ArgsDelivered ==
    \A p \in Alive \ mixed : Given(p) = IF p \in consumed THEN << >> ELSE given[p]

\* What terminal_write says of its return value, "The amount of characters written": a
\* program whose call wrote one character is about to load 1 from return_val.  Programs
\* of other terminals run between the two uses of that word.
CountReturned ==
    \A p \in Pids : Runs(p) /\ pc[p] = "load" /\ due[p] = COUNT => return_val = COUNT

\* What the shell expects of execute, "256 == rval" for a program that was ended by an
\* exception: the 256 of the exception handlers reaches the parent through halt.
ExceptionReported ==
    \A p \in Alive : pc[p] = "halted" /\ due[p] = 256 => eax[p] = 256

\* The library routines, which keep no state, compute what they are for; they are tried
\* on all bounded inputs in the state the first shell starts in.
LibraryWorks == (Alive = {1} /\ restarts = 0 /\ pc[1] = "user" /\ return_val = 0) => LibraryCorrect

\* execute reads the program into a buffer that reaches into the kernel stack of the next
\* pid, and root shells are started ever deeper: no live frame is overwritten.
FramesIntact == torn = {}

\* The end of buf that read fills lies below the live frames of the next pid only for
\* programs of at most this size.
SAFE_SIZE == 6316

\* A live frame is overwritten only by an execute of a program longer than SAFE_SIZE, and
\* only a frame of the pid behind the caller's: not by the shell of a new terminal,
\* wherever the keyboard interrupted, nor by the first new root shells.
OnlyLongPrograms ==
    [][torn' \ torn # {} =>
          /\ \E p \in Pids, prog \in Executables, a \in Arguments :
                Execute(p, prog, a) /\ torn' \ torn = {p + 1}
          /\ \A p \in Pids, prog \in Executables, a \in Arguments :
                Execute(p, prog, a) => Size[prog] > SAFE_SIZE]_vars
=============================================================================
