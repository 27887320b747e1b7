# A TLA+ verification of the 391 kernel

This directory holds TLA+ models of the kernel in `student-distrib/`: a small
uniprocessor x86 operating system with three terminals, six processes, a
read-only file system, a line-editing keyboard driver and a 10 ms timer. The
models are translated from the C and assembly source; `PROJECT.json` maps each
definition to the lines it stands for.

## 1. The system

| component | state | operations | interacts with |
|---|---|---|---|
| process control blocks (`process_control.c`) | `control_blocks[]` (pid, parent, stack position, descriptor table, args), `num_active_processes`, `current_pid` | `create_new_pcb`, `destroy_pcb`, `getargs` helpers | execute, halt, timer |
| execute and halt (`syscalls.c`) | `schedule_stack`, `schedule_top`, `schedule_esp`, `terminal_running` | `execute`, `halt`, `schedule`, `deschedule` | control blocks, descriptor tables, terminal switch |
| scheduler (`interrupts.c`, `schedule_wrapper.S`) | `current_process`, `schedule_tick`, `terminal_request` | `timer_handler` | saves and loads the stack pointer of every scheduled process; answers `terminal_switch` |
| terminals (`terminal.c`) | `current_terminal`, `return_switch[]` | `terminal_switch`, `terminal_read`, `terminal_write`, `terminal_return` | called by the keyboard handler; starts shells; waits for ticks |
| keyboard (`keyboard.c`, `keyboard.h`) | line buffer, size and cursor, history rings, modifier flags | one branch of `handle_keyboard_input` per key | echoes with `terminal_write`, releases `terminal_read` |
| file system (`filesystem_driver.c`) | inodes, data blocks, directory entries | `read_dentry_by_name`, `read_data`, `file_*`, `directory_*` | descriptor tables |
| descriptor tables (`syscalls.c`, drivers) | eight slots per process | `open`, `close`, `read` | file system, RTC, execute |
| RTC (`rtc_driver.c`, `interrupts.c`) | rate bits of the chip, `rtc_virtual_interupt[]` | `rtc_open/read/write/close`, `handle_RTC` | descriptor tables, interrupt controller |
| interrupts and boot (`kernel.c`, `interrupts.c`, `i8259.c`) | IDT, masks and services of two 8259 chips | `initialize_IDT`, `*_init`, `enable_irq`, `send_eoi` | every handler; every `sti` |
| display (`lib.c`, `terminal.c`) | `screen_x`, `screen_y`, `video_mem`, the vidmap page, screen and backing pages | `putc`, `next_line`, `scroll`, `backspace`, cursor functions | every writer, timer, keyboard handler, execute |
| programs' view (`syscalls.c`, `syscalls_wrapper.S`, `exception-handlers.c`) | `args` buffers, `return_val`, kernel stacks | `getargs`, `vidmap`, `halt`'s status, exceptions | execute, timer |
| library (`lib.c`, `ece391support.c`) | none | memory, string and number routines | all |

What makes it hard. Every gate is an interrupt gate and `execute` pushes the
flags it was entered with, so user code runs with interrupts *off*: the only
places where a tick or a key is taken are the stretches in which the kernel
itself executes `sti` (`terminal_read`'s wait, `terminal_write`, the tail of
`execute` after `HALTED`, the wait of `terminal_switch`, ...). A handler that
executes `sti` can be entered again by the next interrupt on the same stack.
`halt` jumps back into the frame of the `execute` that started the process;
`timer_handler` jumps into whatever stack pointer was saved in a slot;
`terminal_switch` starts a shell from inside an interrupt handler. Two variables
name "the terminal": `current_terminal` (on the screen) and `current_process`
(has the CPU), and the code uses now one, now the other. The file reader mixes
block arithmetic with a position that survives between calls; the line buffer
and the history ring are index arithmetic on shared arrays. `video_mem`, the
cursor, `return_val` and the RTC rate are single globals that processes of all
terminals use in turn.

What makes each component correct:

- processes and scheduler: control blocks, counters, schedule stacks, saved
  contexts and the context on the CPU agree after every interleaving; nothing
  stale is resumed; every running terminal gets its turn; a requested terminal
  is served; a reader is released by its own return key and no other;
- keyboard: the buffer holds exactly the line on the screen with the cursor in
  it, whatever the order of insertions, deletions and recalls; a released
  reader finds one whole line; the history ring shows only lines that exist;
- file system: a sequence of reads delivers the file, over any placement of its
  blocks;
- descriptor tables: a slot's marks agree, only free slots are taken, positions
  stay inside files, standard input stays what it is;
- interrupts: a service lasts as long as its handler, or for the keyboard until
  somebody acknowledges it, and never for ever; a read of the RTC waits for an
  interrupt and returns;
- display: the screen shows the line being edited; each terminal's output
  reaches its own page; modifiers follow the keys;
- programs: arguments, results and kernel stacks belong to one process.

`PROJECT.json` lists every hazard at its line ("hazards") and the property that
watches it.

## 2. Modules

| module | models |
|---|---|
| `Kernel` | control blocks, `execute`/`halt`, schedule stacks, the PIT handler, terminal switch, the return-key handshake |
| `Kernel_proofs` | inductive invariant of `Kernel` |
| `EditLine` | abstract line editor: text before and after the cursor, list of past lines |
| `LineEditor` | the arrays and indices of `keyboard.c`, `terminal_read`'s copy, `terminal_return` |
| `Console_proofs` | inductive invariants of `LineEditor` and `Console`, refinement of `EditLine`, the loops of `Screen` |
| `ReadData` | `read_data` in closed form |
| `FileRead` | `read_data`'s loop, byte by byte, and `file_read`'s position |
| `FileDescriptors` | descriptor tables with `open`, `close`, `read` of all three drivers, `execute`'s use of its caller's table |
| `Interrupts` | boot order, IDT, both 8259 chips, the way of an interrupt to its handler |
| `Rtc` | extends `Interrupts`: the RTC chip and driver, the three interrupt handlers, a program per terminal |
| `Screen` | `lib.c`'s and `terminal.c`'s screen functions as operators on one screen |
| `Console` | composes `LineEditor` and `Screen` with a program that writes |
| `Display` | `video_mem`, vidmap page and backing pages of all terminals, nested keyboard handlers |
| `Keys` | `handle_keyboard_input`'s dispatch, modifiers and tables |
| `Lib` | memory, string and number routines as recursive functions, with what they are for |
| `Programs` | extends `Lib`: arguments, results, exit status, exceptions, kernel stack addresses |
| `FileRead_proofs`, `FileDescriptors_proofs`, `Rtc_proofs`, `Display_proofs`, `Keys_proofs`, `Programs_proofs` | inductive invariants of these modules |
| `MCxxx` | the same modules instantiated for TLC |

An operator named after a definition with a suffix (`destroy_pcb_twice`,
`NextByte_same_block`) and marked "Mutant" stands just before it: a plausible bug in
the same code. No specification uses it; substituting it for the definition must
make a run fail, which shows that the property it is paired with in
`PROJECT.json` depends on that code.

### Kernel

The unit of control is a *context*: the kernel stack of a process, or context 0,
the stack on which a root shell is (re)started. `cpu` is the running context,
`pc[c]` the place where context `c` is: `user`, `exec` (in `execute`, waiting for
the child), `read` (the wait of `terminal_read`), `window` (any other stretch with
interrupts on), `halted` (after `HALTED`), `boot` and `dead`. `kbd[c]` is the
sequence of keyboard handlers with interrupts on that are nested on `c`'s stack: one in
the wait of `terminal_switch` is the tick it saw on entry, and `ENDING` is one that waits
for nothing, in the row window of `terminal_write` (terminal.c:184) or behind the last
`sti` of `terminal_write` or `terminal_switch` (194, 72). A saved stack pointer is
abstracted to whose stack it lies on, at which place, under how many handlers and whether
all of these were in their loops (`Position`). It is *usable* while the context is still
at that place and its stack still reaches down to it (`Reaches`): a loop is left only at
its end, so that the frame of a later interrupt is the same; under an `ENDING` handler the
pointer is good only until the handlers on the stack change, because the handler's frames
are overwritten once it has returned. Everything the kernel does with interrupts off is
one action.

| action | code |
|---|---|
| `Boot` | the end of `entry` in `kernel.c`, the first `execute` |
| `SysExecute`, `SysHalt`, `AfterHalted` | `execute` up to the jump to user code; `halt` up to the `sti` after `HALTED`; the rest of `execute` |
| `SysRead`, `ReadDone`, `SysWrite`, `WindowClose` | `terminal_read`'s set-up and wait; the other interrupt windows |
| `TimerTick` | `timer_handler` with `schedule_wrapper` |
| `KeyEnter`, `KeySwitchRunning`, `KeySwitchNew` | the return key; the two branches of `terminal_switch` |
| `KeyEcho`, `SwitchEnds`, `HandlerReturns` | a key echoed by `terminal_write`; the end of the wait in `terminal_switch`; the end of a keyboard handler |

Three interleavings break the kernel's own assumptions. The variable `hazard`
records them when they happen:

- `exec_elsewhere`: a program is started by a terminal that is not on the
  screen (`schedule` pushes on `current_terminal`'s stack, `deschedule` and the
  timer use `current_process`);
- `open_unsaved`: a switch to a terminal without a shell interrupts a context
  whose position no tick has saved, or was last saved under an echoing handler that
  has ended since, so it can never be resumed properly;
- `tick_at_root_exit`: a tick arrives between the exit of a root shell and its
  restart.

The safety invariants have the form `hazard = {} => ...`: they hold in every
behaviour up to the step that meets a hazard. `Followed` names the hazards beyond
which behaviours are still explored; a run that shows what such a hazard leads to
sets it (only `exec_elsewhere` may be followed). This keeps the two questions apart: what
the design guarantees, and where exactly it stops guaranteeing it. The hazards are *conditions met*, not
consequences, and none of them is a property of the model: each is reached within
a few steps of the run `kernel`.

### LineEditor

`keyboard_insert`, `keyboard_backspace`, arrows, `clear_keyboard_buffer`, the
history keys and the return key are one action each, on the arrays, indices and
shift loops of the code. The one place where the handler lets another interrupt
in before its indices are final, the echo in `keyboard_insert`, is a separate step:
`MaxPending` bounds how many handlers may wait there (0: the handlers run to
their end). `EditLine` says what an editor
promises; the refinement mapping reads the text left and right of the cursor out
of the arrays. The histories of different control blocks are independent, so one
is modelled. `terminal_read` stores its `'\0'` at `nbytes - 1` without a test: for an
`nbytes` beyond the row (terminal.c:229) the byte hits data outside `read_buffer`'s row that
no module has, and `Terminated` leaves the row as it is.

### FileRead, ReadData, FileDescriptors

`FileRead` takes `read_data`'s loop one byte per step over blocks placed at
arbitrary indices, and checks it against the closed form in `ReadData`, which
`FileDescriptors` then uses in one step. `FileDescriptors` keeps one table per
process; `execute` opens, reads and closes the program in its *caller's* table, and
pids are reused after `halt`. A new table is cleared from slot 2 on only, so what a full
table left in slot 0 stays there (`StdinKept`).

### Interrupts, Rtc

`Interrupts` holds the chips as sets of masked, requested and serviced lines and
delivers a request the way the 8259 does in its default, fully nested mode; that
part is external hardware, modelled from the command words `i8259.c` writes. Boot is
one action per function that `entry` calls, in its order, with masks of either kind
at power-on and devices that may request at any time. `Rtc` adds the clock chip
(which does not interrupt again until register C is read), one program per terminal
and the three handlers. Interrupts stay off through boot (boot.S:23; `RTC_init` restores
that flag). A handler runs to its EOI in one step, but for the keyboard handlers that
enable interrupts, which are frames on the stack they interrupted: `row`, the row window
of an echo, *before* the key is acknowledged (`EchoRow`); `switch`, the wait of
`terminal_switch` behind its EOI; `tail`, behind the last `sti`, from where the handler
acknowledges a second time at its end (`KeyboardReturns`). `terminal_write` and
`terminal_read` acknowledge IRQ 1 too, whoever is in its handler (`OtherEoi`). `rtc_read`
is three steps, split at `sti` and at the reset of the counter. `asked` and `since`
are history variables.

### Screen, Console

`Screen` keeps what the code keeps: signed `x` and `y`, the remainders of `putc` with C's
sign, and the position last programmed into the VGA. `Console` joins each key of
`LineEditor` with its output; a program writes in between, with the window of
`terminal_write` around `next_line` as a step, and its exceptions print a message
(`Fault`). A line end that reaches `putc` itself, a `'\r'` from a program or the `'\n'` of an
exception message, adds a row without scrolling (lib.c:287-289); on the last row that
puts the cursor below the screen (`start = Lost`). From there what is under way ends and
only Ctrl-L goes on: a bound, since everything stored then lies outside the screen. `start` remembers the column in which the
line began. `LineOnScreen` holds for lines that span at most two rows (`TwoRows`): with
80 columns and 127 characters that is every line that begins in the first 33
columns. Beyond that, `x` falls below `-NUM_COLS` and the remainder in `putc` loses a row.

### Display

Contents are abstracted to the set of terminals whose output a page shows (`ink`). A
keyboard handler that has enabled interrupts is a frame on the stack it interrupted,
holding its `video_past` and the terminal whose line it echoes (`who`, fixed when the key
was typed); ticks and further keys come while it is there. `stale` marks
the one case in which a handler restores a page that was exchanged meanwhile,
`crossed` an echo that ran over a row end while a tick moved `video_mem` or a switch put
another terminal on the screen; both are
exceptions stated in the properties, and behaviours are not followed past `crossed`.
The cursor is not modelled here: `screen_x` and `screen_y` are one pair for all terminals,
and `terminal_switch` saves them in `uint8_t` fields although `screen_x` may be negative.

### Keys

Each key is up or down; codes repeat and get lost. `slips` counts, modulo two, what has
happened to the shift keys beyond press and release.

### Lib, Programs

`Lib` writes the assembly and C loops as recursive functions on memory, strings and
numbers and states next to them what each is for. Two header comments say otherwise and
are not what is checked: `memset_word` and `memset_dword` (lib.c:429, 450) call `n` the
"number of bytes to set" and set that many words and dwords, and `itoa` (lib.c:319) returns its
buffer, not the "number of bytes written". They keep no state,
so `Programs`' run evaluates the comparison once, in its first state
(`LibraryWorks`). `Programs` has one chain of processes per terminal. Calls that keep
interrupts off are one step; after `terminal_read`, `terminal_write` and `HALTED` the
store to and the load from `return_val` are steps of their own. The exit status passes through
`xorl %eax,%eax; movb status,%al` and a local addressed through the frame of `halt`: the
status arrives, or 0 where the compiler kept it in `al` (as in `mp3.img`), and it lies
in the dead child's stack until it is read. Kernel stacks are addresses: the frame
sizes are those of the build in `mp3.img` (execute reserves `0x9cf4` bytes and `buf` starts
40036 bytes below its frame pointer), `LIVE` is an upper bound for the other frames on a
stack and `HANDLER_DEPTH` the depth at which a keyboard handler calls `execute`. Behind
`HALTED` the stack pointer is `stack_pos` again, the bottom of execute's own frame, with
interrupts on: there a process has live frames `STACK_DEPTH` bytes further down (`Tops`), and
a handler that opens a terminal starts from there.

## 3. Runs

| run | question | result |
|---|---|---|
| `kernel` | do processes, stacks, saved contexts and return switches agree until a hazard, without hang or fault? | yes: 3 terminals, 3 processes |
| `kernel_live` | does every running terminal get the CPU, and the requested one? | yes, when programs keep making system calls; a request until another switch overtakes it |
| `kernel_reader` | does a reader get on after its return key? | no: it can stay in the nested wait of `terminal_switch`, whose one-bit tick is back at its old value whenever the context is resumed |
| `line` | do editing and recalling implement the abstract editor, and are whole lines delivered? | yes |
| `console` | does the screen show the line that will be delivered, at the cursor? | yes, for lines on at most two rows |
| `file_read` | do reads deliver the file? | yes, up to the last read |
| `descriptors` | do tables stay consistent, positions inside files? | yes |
| `rtc` | do services match handlers, with echoes preempted before their EOI; is a preempted key acknowledged in the end; does `rtc_read` wait for its interrupt and return? | yes; a read returns unless a terminal switch waits on the reader's stack |
| `terminals` | does each terminal's output reach its own page? | yes, but for the two exceptions named above |
| `keys` | do modifiers follow the keys, and the case of letters follow them? | yes, until a shift code repeats or is lost |
| `programs` | do arguments reach their own process, which programs overwrite kernel stacks, do library routines do what they are for? | arguments with the exception the property names; only programs of more than 6316 bytes; yes |
| `programs_stacks` | do stacks hold with a program of more than 6316 bytes? | no: with `fish` running on one terminal, the stack of a process on another is overwritten |

The runs marked "no" check a sentence of the repository's own comments or bug log; the
"findings" quote it.

Some further statements fail and are kept as definitions without a run of their own,
to be put into a configuration when that code changes:

| statement | module | configuration | what happens |
|---|---|---|---|
| `ProcessesOfATerminal` | `Kernel` | `Followed = {"exec_elsewhere"}` | a program started in the background lands on the displayed terminal's stack |
| `RoundRobin` under `MachineSpec` | `Kernel` | as `kernel_live` | a program that makes no system call keeps the CPU |
| `LineFits` | `LineEditor` | `MaxPending = 1` | a key that interrupts the echo of another passes the size test with the old size |
| `ZeroMeansEnd` | `FileRead` | as `file_read` | a read over the end of the file returns 0 and drops the tail |
| `StdinKept` | `FileDescriptors` | as `descriptors` | `file_open` promises -1 for a full table (filesystem_driver.c:197) and overwrites slot 0; `halt` closes nothing, so the next process with the pid has that file as its standard input |
| `ScrollsIfNecessary` | `Console` | as `console` | `'\r'` on the last row moves the cursor below the screen although "Will move to next line/scroll if necessary" (terminal.c:147, lib.c:288) |
| `CountReturned` | `Programs` | as `programs` | a system call on another terminal stores into `return_val` between the store and the load of a writer's count |
| `ExceptionReported` | `Programs` | as `programs` | the 256 of an exception does not fit `halt`'s `uint8_t`; the shell's test `256 == rval` never succeeds |

**Bounds.** `MAX_PROCESSES = 3` with three terminals lets every terminal have a
shell, or one have a chain of three while another fills the limit; the proof in
`Kernel_proofs` removes the bound. `MaxNest` bounds unfinished keyboard handlers: 1 per
stack in `kernel`, enough for a tick, a return or a new shell inside one; 2 in
`kernel_live`, with two processes, so that a second switch overtakes the request of the
first, and 2 in `Display`, so that a handler is interrupted by another one. The run `line` uses a buffer of three
cells over two characters (insertion before and behind, full lines) and a ring of three
rows, filled, wrapped and walked in both directions; the proofs cover every size, the
real one included. Its view drops `read_buffer` while no reader has been released,
because a delivery overwrites it up to the `'\n'`. `console` has rows of two columns, so
that every line of three characters wraps, and three of them, so that the screen
scrolls; a line torn by other output is not edited further (`Edited`).
`FILE_SIZE = 3` with files up to three blocks has reads that start and end inside, at
and across each block boundary. Two processes and tables of four slots (two of them
standard input and output) can be full, reused and inherited. In `rtc` the counters
stop at `MaxCount = 1`, the only value `rtc_read` tells from 0; programs switch between
the rate `rtc_open` sets and 1024 Hz, the one the firmware left, and the proof covers every
set of rates. A key is pressed only
when the one before has been acknowledged. `keys` has lines of up to two characters (empty, neither,
full). `programs` has words of 8 bits, strings of three characters and ten bytes of memory, which hold every
alignment and a whole dword, two terminals, three processes and `MaxRestarts = 2` exits of root
shells. Sizes of programs are those of the image's files.

**Fairness.** The PIT raises its line every 10 ms and the PIC keeps it until the
CPU enables interrupts, so a tick is taken even when windows with interrupts on
are short and keep closing: strong fairness of `TimerTick`. A time slice is long
enough for the running context's kernel code to take its next step, although a
tick may interrupt it before: strong fairness of `KernelStep(c)`. These two are
`MachineFairness`. Nothing makes a program call the kernel; `ProgramFairness` says
that it does, and without it `RoundRobin` fails. `Rtc` states the same of its smaller
machine: the clock and the timer keep requesting (weak fairness), a request that is not outranked for ever is taken
(strong), handlers end (weak), programs go on when they get the CPU again and again
(strong), an echo that gets the CPU again and again ends (strong). Nothing is assumed of
the wait in `terminal_switch`, which by `kernel_reader` need not end, nor of the user at
the keyboard.

## 4. Proofs

Eight modules hold theorems. Nearly all of them argue in the same way: an inductive
invariant `IInv`, a lemma for each action that the action keeps it, and theorems that
draw the properties from it. What follows says what each `IInv` adds to the properties
and why the addition is needed.

**`Console_proofs`, the line editor** (every alphabet, every buffer size from 2 to 256, every number
of history rows; handlers not interrupted, `MaxPending = 0`): `TypeOK`, `LineFits`,
`LineText`, `DeliveredLine`, `HistoryRing`, and that the specification implements
`EditLine`. `IInv` adds

- `HistoryLines`: every stored row ends in a terminator, so that the length of a
  recalled line (a least index) exists;
- `RingIndices`: the ring's top, count and cursor related without `%`, from which
  the modular statement of `HistoryRing` follows;
- `OneHandler`: no echo is pending.

The refinement has one lemma per action (`InsertRefines`, ..., `EnterRefines`). A line is
identified with its characters (`SameText`), so that a shift loop is compared with
`EditLine`'s concatenation index by index (`InsertedText`, `RemovedText`). The past lines
are counted backwards from `historyBASE` (`RowBack`, `PastOf`); `RememberedPast` shows that
moving `historyBASE` on by one row appends the entered line and drops the oldest one
exactly when the ring is full. The end of a handler, and `up_history` at the oldest line,
are the steps that change nothing a user or a reader sees.

**`Console_proofs`, the console** (every screen, every line that is shorter than the
screen less one row): `LineOnScreen` and `StoresInside`. The output of a key runs through
the loops of `Screen`, which are recursive functions, so the proof first shows that a loop
is its iterations. `LeastElement` (from the well-foundedness of `<`) gives `LoopInduction`,
induction over a set of iterations; with it `LoopRuns` shows that a function with the
recursive equation exists, and `WriteRuns` and `EraseRuns` that the `CHOOSE` behind
`terminal_write` and `reset_terminal_keyboard_input` is one. The rest is about one
iteration. `Placed` relates `x` to the column the line began in and the place in the line,
modulo `NUM_COLS`, which is all that `putc`'s remainder keeps; `Near` says that `x` counts
from the row of the line's begin or from the one below, so that no row is lost; `Shows` and
`BlankFrom` say which cells hold the line and which hold nothing. `WriteStep` and `EraseStep` show
that one character keeps the four, scrolling included. The invariant is `LInv`: `CInv` until
the cursor is lost below the screen, and of a lost cursor only its types (`Adrift`). `CInv`
is the editor's `IInv` with

- `CursorShown`: the VGA cursor is where the next character goes;
- `LineDrawn`: the line is placed and, if it spans at most two rows, shown. Half-finished
  handlers count with the end of their echo (`At`), and `x` leaves room for the rest of
  the line, since `up_history` moves over it before erasing;
- `CleanScreen`: nothing follows the line, nor stands below it. The last part is needed
  because `next_line` brings the row below under the cursor when it does not scroll.

**`Kernel_proofs`** (every number of terminals and processes, every nesting depth, every
`Followed`): `Accounting`, `InSync`, `StackDiscipline`, `SavedContexts`, `NoHang`,
`Handshake` and `RunningHasShell`; and, with `Followed = {}`, `TypeOK`, the step that
meets a hazard included. The constants are assumed positive (`MaxNest` may be 0) and
nothing else. The invariant is `IInv == hazard = {} => TypeOK /\ Core`; `Core` adds

- `CpuPlace`: a running process is never at `exec`, context 0 waits in `execute`
  whenever a process runs, and while context 0 runs the stack of
  `current_process` is empty. Without it `halt` could pop to a frame that is not
  waiting, and `Boot` or a restarted root shell could land on top of a process;
- `SavedAt`: a saved position is always at `read`, `window` or `halted`, the only
  places that enable interrupts, so it can never be a place a process leaves
  without having the CPU;
- `Nesting`: handlers are nested only on such contexts, so that user code and
  `exec` have none;
- what `SavedContexts` says of a slot covers the handlers too: the position a tick saves
  is usable (`Reaches`) until its context runs again, because nobody else changes the
  handlers on its stack, and `Resumable` is what makes an older one good enough;
- `Running` also says that a requested terminal is a running one (the tick that
  serves the request finds a process) and that a terminal not running has an
  empty stack (a new shell is at the bottom of it);
- `StackHeight` (a lemma, by injection of a stack into the live processes) keeps
  every push inside the table.

`ExecuteCore` is the heart of the argument: one lemma for the four callers of
`execute`, with the condition each of them has to meet. The hazards
`exec_elsewhere` and `open_unsaved` are exactly the cases in which a caller does
not meet it, and `tick_at_root_exit` the one in which the tick finds no process to
save.

**`FileRead_proofs`** (every block size, placing of blocks, file size and sequence of
buffer lengths; `BlocksAssumption` says that a file has a block for each of its bytes):
`TypeOK`, `CopiesFile`, `SeenIsPrefix` and the action property `LoopComputesReadData`.
`InLoop` is the loop invariant: `file_position + i = FILE_SIZE * loop + j`, a place
written as block and offset without division, and `block` the one at `loop`. That
quotient and remainder are the only such pair turns it into the division of
`ReadData`.

**`FileDescriptors_proofs`** (every number of processes and slots, every set of files,
every layout of the directory): `TypeOK`, `SlotMarksAgree`, `DirectoryCount`,
`PositionInFile` and `OnlyFreeSlotsTaken`. The properties speak of live
processes; `IInv` says the same of every slot of every table, because `execute` works
in its caller's table before the child is alive and a dead process's slots are
inherited by the next one with its pid.

**`Rtc_proofs`** (every number of terminals, every set of rates): `TypeOK`,
`ServiceMatches`, `FrequencyAsked` and the action property `WaitsForInterrupt`. `IInv`
adds that the shell starts after all of boot (`BootComplete`), that no program has made a call
or been interrupted before (`PlacesBooted`), that the table `initialize_IDT` wrote is unchanged (`IdtInstalled`),
that nothing is handled before boot is over (`HandlingBooted`), that a counter that
moved was moved by an interrupt of the reader's own time (`CountedSince`) and that the
rate bits come from a power of two (`RateAsked`).

**`Display_proofs`** (every number of terminals, every nesting of handlers): `TypeOK`,
`Routed`, `OwnInk`. `PageMapped` is the key: vidmap's page belongs to
another terminal only between a switch and the next tick, while the handler that
switched is still on the running stack. `OwnVideo` and `OwnPast` say which pointers lib.c
may hold and a handler may put back; `CpuRuns` that a tick finds a terminal with a shell.

**`Keys_proofs`** (every line length): `TypeOK`, `ModifiersFollow`, `CaseTyped`. The parity
of the held shift keys is written without counting (`ShiftParity`), which makes the four
shift events cases of propositional logic.

**`Programs_proofs`** (every number of terminals and processes, every set of programs,
arguments and buffer sizes): `ArgsDelivered` and `OnlyLongTear`. Both rest on
`Core`: a process is in one place of one chain, alive, and waiting unless it is the last.
`ArgsDelivered` needs what each `args` buffer holds behind its first `'\0'` (`ArgBlocks`),
since `execute` copies a line without clearing the buffer. `OnlyLongTear` says which steps
may overwrite a live kernel frame: an `execute` of a program of more than
`SAFE_SIZE = BUF_DEPTH - LIVE - 32768 = 6316` bytes, which reaches the frames of the next
pid and no other, and the restart of a root shell, which moves deeper with every exit and
is left to TLC (`MaxRestarts`). `ExecuteApart` and `OpenApart` are the arithmetic of the
addresses, for a process below its `esp0` and behind `HALTED`. The hypothesis is that the
shell itself is no longer than that (`fsdir/shell` has 5605 bytes). Of the programs under
`fsdir/` only `fish` (36164 bytes) and `syserr` (8037 bytes) are longer; the run
`programs_stacks` shows what `fish` does.

**`Programs_proofs`, the library** (memory of every size, strings of every length, words of
every width that is a multiple of four): `LibraryWorks`. The routines are recursive
functions, so each proof has two parts. A closed form satisfies the recursive equation (for
the bytes copied so far `Moved`, for `strrev` `EndsSwapped`), or a function that does is
built (`LoopExists`, for `itoa`'s digits `RunExists`); and whatever satisfies the equation
has, by induction over its argument (`LoopInduction`, `StrongInduction`), the property
claimed. `MovedTwice` puts `memcpy`'s bytes, dwords and rest together, under the condition
`Upwards` that no byte is stored before it is read; `ComparesZero` is shared by the three
string comparisons, as is `ComparesSign` (the sign of the first difference);
`AgreeMeansSame` turns the former into equality of texts. `DigitsWorth` says
what the digits are worth, `DigitsFit` that `WIDTH / 4` hexadecimal digits hold a word.
Powers of two are the function `Words`, because the provers know nothing of `^`.

**Only model-checked.** Liveness under fairness (`RoundRobin`, `RequestServed`,
`KeyboardAcknowledged`, `ReadReturns`) is outside the prover's reach, and
`OnlyLongPrograms` is proved but for the restarts of root shells (`OnlyLongTear`). Every
other property of a passing run is a theorem, under the hypotheses named above.

## 5. Not modelled

Paging beyond the video page, segment descriptors and multiboot parsing are constants
written once. `printf`'s format parsing serves boot and exception messages only (its
number conversions are in `Lib`). `disable_irq`, `memmove` and `force_putc` have no caller
that matters; `memmove` is in `Lib` all the same. User programs appear as arbitrary
sequences of system calls; their own memory is not modelled, so the byte `getargs`
stores behind a buffer of exactly the argument's length has no property. Colours,
attributes and the tests of `tests.c` are left out. `Kernel`, `Display`, `Rtc` and `Programs` each
keep their own, coarser or finer, picture of who has the CPU; `Display` and `Programs`
describe behaviours before one of `Kernel`'s hazards.

## 6. What could follow

`TerminalSessions`, an abstract specification of what the user sees (each terminal a stack
of programs, the top one served in turn), implemented by `Kernel` while `hazard = {}`.
