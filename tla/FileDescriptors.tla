-------------------------- MODULE FileDescriptors ---------------------------
(***************************************************************************)
(* The file descriptor tables of the processes and the system calls that   *)
(* use them: open, close and read (syscalls.c) with the drivers behind     *)
(* them (filesystem_driver.c, rtc_driver.c), the open / read / close that  *)
(* execute does in the table of its caller, and the table a new control    *)
(* block starts with (process_control.c).  These calls run with interrupts *)
(* off, so each is one step.                                               *)
(***************************************************************************)
EXTENDS ReadData, FiniteSets

CONSTANTS
    MAX_PROCESSES,
    FDT_SIZE,           \* slots of a table (8); 0 and 1 are stdin and stdout
    Files,              \* regular files
    Programs,           \* those that carry the magic number
    Size,               \* length of each file
    MAX_DIR_ENTRIES,    \* directory slots (63)
    Entries,            \* the slots that hold a name
    Lengths             \* lengths of reads

ASSUME MaxProcessesAssumption == MAX_PROCESSES \in Nat \ {0}
ASSUME FdtAssumption == FDT_SIZE \in Nat /\ FDT_SIZE > 2
ASSUME FilesAssumption == Programs \subseteq Files /\ Size \in [Files -> Nat]
ASSUME EntriesAssumption ==
    MAX_DIR_ENTRIES \in Nat /\ Entries \subseteq 0 .. MAX_DIR_ENTRIES - 1 /\ IsFiniteSet(Entries)
ASSUME LengthsAssumption == Lengths \subseteq Nat

VARIABLES
    live,        \* pids with a control block in use
    fd_table     \* fd_table[p][fd]: operations, inode, position and flags

vars == <<live, fd_table>>

Pids  == 1 .. MAX_PROCESSES
Fds   == 0 .. FDT_SIZE - 1
Other == 2 .. FDT_SIZE - 1
num_dir_entries == Cardinality(Entries)
EXEC_LENGTH == 10000     \* bytes of the program execute asks for

Drivers == {"none", "stdin", "stdout", "file", "dir", "rtc"}
NoInode == "no inode"
Slot(ops, inode, pos, flags) == [ops |-> ops, inode |-> inode, pos |-> pos, flags |-> flags]

TypeOK ==
    /\ live \subseteq Pids
    /\ fd_table \in [Pids -> [Fds -> [ops : Drivers, inode : Files \cup {NoInode},
                                      pos : Nat, flags : {-1, 1} \cup 0 .. num_dir_entries]]]

\* Mutant: flags are not reset.
Cleared_flags(s) == [s EXCEPT !.ops = "none", !.inode = NoInode]

\* What closing does to a slot; the position stays.
Cleared(s) == [s EXCEPT !.ops = "none", !.flags = -1, !.inode = NoInode]

\* process_control_block_init
Init ==
    /\ live = {}
    /\ fd_table = [p \in Pids |-> [fd \in Fds |->
                     IF fd = 0 THEN Slot("stdin", NoInode, 0, 1)
                     ELSE IF fd = 1 THEN Slot("stdout", NoInode, 0, 1)
                     ELSE Slot("none", NoInode, 0, -1)]]

-----------------------------------------------------------------------------
(* Opening.                                                                *)

Full(t) == \A fd \in Other : t[fd].flags # -1

\* Mutant: the loop does not look at the flags.
FirstFree_any(t) == FDT_SIZE - 1

FirstFree(t) == CHOOSE fd \in Other :
                    t[fd].flags = -1 /\ \A g \in 2 .. fd - 1 : t[g].flags # -1

\* The slot file_open and rtc_open use: the test for a full table inside their loop
\* is never true, so that the initial value 0 is used.
OpenSlot(t) == IF Full(t) THEN 0 ELSE FirstFree(t)

file_open(t, f) == [t EXCEPT ![OpenSlot(t)] = Slot("file", f, 0, 1)]

HasRtc(t) == \E fd \in Other : t[fd].flags # -1 /\ t[fd].ops = "rtc"

OpenFile(p, f) ==
    /\ p \in live
    /\ fd_table' = [fd_table EXCEPT ![p] = file_open(@, f)]
    /\ UNCHANGED live

OpenRtc(p) ==
    /\ p \in live
    /\ ~HasRtc(fd_table[p])
    /\ fd_table' = [fd_table EXCEPT ![p][OpenSlot(fd_table[p])] = Slot("rtc", NoInode, 0, 1)]
    /\ UNCHANGED live

\* directory_open does return -1 when the table is full; flags counts the entries left.
OpenDirectory(p) ==
    /\ p \in live
    /\ ~Full(fd_table[p])
    /\ fd_table' = [fd_table EXCEPT ![p][FirstFree(fd_table[p])] =
                      Slot("dir", NoInode, 0, num_dir_entries)]
    /\ UNCHANGED live

-----------------------------------------------------------------------------
(* Closing and reading.                                                    *)

\* close, with file_close, directory_close and rtc_close behind it; rtc_close alone
\* tests the flags against 0.
Close(p, fd) ==
    LET s == fd_table[p][fd]
    IN  /\ p \in live /\ fd \in Other
        /\ s.ops # "none"
        /\ IF s.ops = "rtc" THEN s.flags # 0 ELSE s.flags # -1
        /\ fd_table' = [fd_table EXCEPT ![p][fd] = Cleared(@)]
        /\ UNCHANGED live

\* directory_read: skip empty slots, return one name.
NextEntry(pos) == CHOOSE e \in Entries : e >= pos /\ \A g \in Entries : g >= pos => e <= g

\* Mutants: counts up; returns empty slots too.
directory_read_up(s) ==
    IF s.flags = 0 \/ s.pos = MAX_DIR_ENTRIES THEN s
    ELSE [s EXCEPT !.pos = @ + 1, !.flags = @ + 1]
directory_read_all(s) ==
    IF s.flags = 0 \/ s.pos = MAX_DIR_ENTRIES THEN s
    ELSE [s EXCEPT !.pos = @ + 1, !.flags = @ - 1]

directory_read(s) ==
    IF s.flags = 0 \/ s.pos = MAX_DIR_ENTRIES THEN s
    ELSE IF \E e \in Entries : e >= s.pos
    THEN [s EXCEPT !.pos = NextEntry(s.pos) + 1, !.flags = @ - 1]
    ELSE [s EXCEPT !.pos = MAX_DIR_ENTRIES]

\* Mutant: moves by the length asked for.
file_read_asked(s, n) == [s EXCEPT !.pos = @ + n]

file_read(s, n) == [s EXCEPT !.pos = PositionAfter(Size[s.inode], @, n)]

\* read on the descriptors whose state it moves.
Read(p, fd, n) ==
    LET s == fd_table[p][fd]
    IN  /\ p \in live
        /\ s.flags # -1 /\ s.ops \in {"file", "dir"}
        /\ fd_table' = [fd_table EXCEPT ![p][fd] =
                          IF s.ops = "dir" THEN directory_read(s) ELSE file_read(s, n)]
        /\ UNCHANGED live

-----------------------------------------------------------------------------
(* Processes.                                                              *)

FirstPid == CHOOSE q \in Pids \ live : \A r \in Pids \ live : q <= r

\* create_new_pcb: slots 2 and up are cleared, 0 and 1 stay as they were.
NewTable(t) == [fd \in Fds |-> IF fd \in Other THEN Cleared(t[fd]) ELSE t[fd]]

\* execute opens the program in the table of its caller, reads it and closes the slot
\* again, and close rejects slot 0.
ExecTable(t, f) ==
    LET fd == OpenSlot(t)
        s == file_read(Slot("file", f, 0, 1), EXEC_LENGTH)
    IN  [t EXCEPT ![fd] = IF fd = 0 THEN s ELSE Cleared(s)]

Execute(p, f) ==
    /\ p \in live
    /\ Cardinality(live) < MAX_PROCESSES
    /\ IF f \in Programs
       THEN /\ live' = live \cup {FirstPid}
            /\ fd_table' = [fd_table EXCEPT ![p] = ExecTable(@, f), ![FirstPid] = NewTable(@)]
       ELSE /\ fd_table' = [fd_table EXCEPT ![p] = ExecTable(@, f)]
            /\ UNCHANGED live

\* A root shell: execute by the sentinel process, whose own table is not modelled.
StartShell ==
    /\ Cardinality(live) < MAX_PROCESSES
    /\ live' = live \cup {FirstPid}
    /\ fd_table' = [fd_table EXCEPT ![FirstPid] = NewTable(@)]

\* halt: pcb_close does nothing, so that the table keeps what was open.
Halt(p) ==
    /\ p \in live
    /\ live' = live \ {p}
    /\ UNCHANGED fd_table

Next ==
    \/ StartShell
    \/ \E p \in Pids :
         \/ \E f \in Files : OpenFile(p, f) \/ Execute(p, f)
         \/ OpenRtc(p) \/ OpenDirectory(p)
         \/ \E fd \in Fds : Close(p, fd) \/ \E n \in Lengths : Read(p, fd, n)
         \/ Halt(p)

Spec == Init /\ [][Next]_vars

-----------------------------------------------------------------------------
(* Safety.                                                                 *)

\* The two marks of a free slot, flags -1 (tested by open, read and write) and a null
\* operations pointer (tested by close), never disagree, although directory_read
\* counts the flags of an open directory down and pids are reused.
SlotMarksAgree ==
    \A p \in Pids, fd \in Fds : fd_table[p][fd].flags = -1 <=> fd_table[p][fd].ops = "none"

\* open hands out only slots that were free - except slot 0 when all others are taken.
OnlyFreeSlotsTaken ==
    [][\A p \in Pids, fd \in Fds :
         LET before == fd_table[p][fd].ops
             after == fd_table'[p][fd].ops
         IN  after \notin {before, "none"} =>
                 before = "none" \/ (fd = 0 /\ Full(fd_table[p]))]_vars

\* Listing a directory: with the counter in flags and the slot in file_position, each
\* name is returned once and the counter is 0 exactly when all names were returned.
DirectoryCount ==
    \A p \in Pids, fd \in Fds :
        fd_table[p][fd].ops = "dir" =>
            fd_table[p][fd].flags = Cardinality({e \in Entries : e >= fd_table[p][fd].pos})

\* No sequence of reads moves the position of a file beyond its end.
PositionInFile ==
    \A p \in Pids, fd \in Fds :
        fd_table[p][fd].ops = "file" => fd_table[p][fd].pos <= Size[fd_table[p][fd].inode]

-----------------------------------------------------------------------------
\* file_open: "If there is not anavailable spot, return -1": the table is left alone,
\* so that a process always has its standard input.  The code takes slot 0 of a
\* full table, halt closes nothing and create_new_pcb clears slots 2 and up only, so that
\* the next process with the pid starts with that file as its standard input too.
StdinKept == \A p \in live : fd_table[p][0].ops = "stdin"
=============================================================================
