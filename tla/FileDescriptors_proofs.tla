----------------------- MODULE FileDescriptors_proofs -----------------------
(***************************************************************************)
(* Proofs about FileDescriptors, for every number of processes and slots,  *)
(* every set of files and sizes and every layout of the directory.         *)
(***************************************************************************)
EXTENDS FileDescriptors, FiniteSetTheorems, WellFoundedInduction, TLAPS

-----------------------------------------------------------------------------
(* The inductive invariant: what is true of every slot of every table, in  *)
(* use or not.                                                             *)

SlotType == [ops : Drivers, inode : Files \cup {NoInode}, pos : Nat,
             flags : {-1, 1} \cup 0 .. num_dir_entries]

Left(pos) == {e \in Entries : e >= pos}

SlotOK(s) ==
    /\ s \in SlotType
    /\ s.flags = -1 <=> s.ops = "none"
    /\ s.ops = "dir" => s.flags = Cardinality(Left(s.pos))
    /\ s.ops = "file" => s.inode \in Files /\ s.pos <= Size[s.inode]

GoodSlots == {s \in SlotType : SlotOK(s)}
Tables == [Fds -> GoodSlots]

IInv == live \subseteq Pids /\ fd_table \in [Pids -> Tables]

-----------------------------------------------------------------------------
(* Lemmas about slots.                                                     *)

LEMMA EntriesFinite ==
    /\ IsFiniteSet(Entries) /\ num_dir_entries \in Nat /\ Entries \subseteq Nat
    /\ \A pos \in Nat : /\ IsFiniteSet(Left(pos))
                        /\ Cardinality(Left(pos)) \in 0 .. num_dir_entries
<1>1. IsFiniteSet(Entries) /\ Entries \subseteq Nat
  BY EntriesAssumption
<1>2. num_dir_entries \in Nat
  BY <1>1, FS_CardinalityType DEF num_dir_entries
<1>3. ASSUME NEW pos \in Nat
      PROVE  /\ IsFiniteSet(Left(pos))
             /\ Cardinality(Left(pos)) \in 0 .. num_dir_entries
  <2>1. Left(pos) \in SUBSET Entries
    BY DEF Left
  <2>2. IsFiniteSet(Left(pos)) /\ Cardinality(Left(pos)) <= Cardinality(Entries)
    BY <1>1, <2>1, FS_Subset
  <2>3. Cardinality(Left(pos)) \in Nat
    BY <2>2, FS_CardinalityType
  <2> QED BY <1>2, <2>2, <2>3 DEF num_dir_entries
<1> QED BY <1>1, <1>2, <1>3

\* A non-empty set of naturals has a least element.
LEMMA LeastElement ==
    ASSUME NEW T \in SUBSET Nat, T # {}
    PROVE  \E x \in T : \A y \in T : x <= y
<1>1. PICK x \in T : \A y \in T : <<y, x>> \notin OpToRel(<, Nat)
  BY WFMin, NatLessThanWellFounded, Zenon
<1>2. \A y \in T : ~(y < x)
  BY <1>1, Zenon DEF OpToRel
<1> QED BY <1>2

\* A slot has four fields.
LEMMA SlotFields ==
    ASSUME NEW ops \in Drivers, NEW inode \in Files \cup {NoInode}, NEW pos \in Nat,
           NEW flags \in {-1, 1} \cup 0 .. num_dir_entries
    PROVE  /\ Slot(ops, inode, pos, flags) \in SlotType
           /\ Slot(ops, inode, pos, flags).ops = ops
           /\ Slot(ops, inode, pos, flags).inode = inode
           /\ Slot(ops, inode, pos, flags).pos = pos
           /\ Slot(ops, inode, pos, flags).flags = flags
BY DEF Slot, SlotType

\* What open puts into a slot.
LEMMA OpenedOK ==
    /\ \A f \in Files : Slot("file", f, 0, 1) \in GoodSlots
    /\ Slot("rtc", NoInode, 0, 1) \in GoodSlots
    /\ Slot("dir", NoInode, 0, num_dir_entries) \in GoodSlots
<1>1. ASSUME NEW f \in Files
      PROVE  Slot("file", f, 0, 1) \in GoodSlots
  <2>1. Size[f] \in Nat
    BY FilesAssumption
  <2>2. "file" \in Drivers
    BY DEF Drivers
  <2> QED BY <2>1, <2>2, SlotFields DEF GoodSlots, SlotOK
<1>2. Slot("rtc", NoInode, 0, 1) \in GoodSlots
  <2>1. "rtc" \in Drivers
    BY DEF Drivers
  <2> QED BY <2>1, SlotFields DEF GoodSlots, SlotOK
<1>3. Slot("dir", NoInode, 0, num_dir_entries) \in GoodSlots
  <2>1. "dir" \in Drivers
    BY DEF Drivers
  <2>2. Left(0) = Entries
    <3>1. \A e \in Entries : e >= 0
      BY EntriesFinite
    <3> QED BY <3>1 DEF Left
  <2>3. num_dir_entries \in {-1, 1} \cup 0 .. num_dir_entries /\ num_dir_entries # -1
    BY EntriesFinite
  <2> QED BY <2>1, <2>2, <2>3, SlotFields DEF GoodSlots, SlotOK, num_dir_entries
<1> QED BY <1>1, <1>2, <1>3

\* Closing leaves both marks of a free slot.
LEMMA ClearedOK ==
    ASSUME NEW s \in GoodSlots
    PROVE  Cleared(s) \in GoodSlots /\ Cleared(s).ops = "none"
<1>1. s \in SlotType
  BY DEF GoodSlots
<1>2. /\ Cleared(s) \in SlotType /\ Cleared(s).ops = "none" /\ Cleared(s).flags = -1
  BY <1>1 DEF Cleared, SlotType, Drivers
<1> QED BY <1>2 DEF GoodSlots, SlotOK

\* A read of any length leaves the position inside the file.
LEMMA FileReadOK ==
    ASSUME NEW s \in GoodSlots, s.ops = "file", NEW n \in Nat
    PROVE  file_read(s, n) \in GoodSlots /\ file_read(s, n).ops = "file"
<1>1. s \in SlotType /\ s.inode \in Files /\ s.pos \in Nat /\ s.pos <= Size[s.inode] /\ s.flags # -1
  BY DEF GoodSlots, SlotOK, SlotType
<1>2. Size[s.inode] \in Nat
  BY <1>1, FilesAssumption
<1>3. PICK m \in Nat : m = PositionAfter(Size[s.inode], s.pos, n) /\ m <= Size[s.inode]
  BY <1>1, <1>2 DEF PositionAfter, ReadReturns, Least
<1>4. file_read(s, n) = [s EXCEPT !.pos = m]
  BY <1>1, <1>3 DEF file_read, SlotType
<1>5. /\ file_read(s, n) \in SlotType /\ file_read(s, n).ops = "file"
      /\ file_read(s, n).flags = s.flags /\ file_read(s, n).inode = s.inode
      /\ file_read(s, n).pos = m
  BY <1>1, <1>4 DEF SlotType
<1> QED BY <1>1, <1>3, <1>5 DEF GoodSlots, SlotOK

\* directory_read returns one name and counts it.
LEMMA DirectoryReadOK ==
    ASSUME NEW s \in GoodSlots, s.ops = "dir"
    PROVE  directory_read(s) \in GoodSlots /\ directory_read(s).ops = "dir"
<1>1. s \in SlotType /\ s.pos \in Nat /\ s.flags = Cardinality(Left(s.pos)) /\ s.flags # -1
  BY DEF GoodSlots, SlotOK, SlotType
<1>2. CASE s.flags = 0 \/ s.pos = MAX_DIR_ENTRIES
  BY <1>2 DEF directory_read
<1>3. CASE ~(s.flags = 0 \/ s.pos = MAX_DIR_ENTRIES)
  <2>1. Left(s.pos) # {}
    BY <1>1, <1>3, FS_EmptySet
  <2>2. Left(s.pos) \in SUBSET Nat
    BY EntriesFinite DEF Left
  <2>3. \E e \in Left(s.pos) : \A g \in Left(s.pos) : e <= g
    BY <2>1, <2>2, LeastElement
  <2>4. \E e \in Entries : e >= s.pos /\ \A g \in Entries : g >= s.pos => e <= g
    BY <2>3 DEF Left
  <2>5. /\ NextEntry(s.pos) \in Entries /\ NextEntry(s.pos) >= s.pos
        /\ \A g \in Entries : g >= s.pos => NextEntry(s.pos) <= g
    BY <2>4 DEF NextEntry
  <2>6. PICK e \in Entries : e = NextEntry(s.pos) /\ e >= s.pos /\ \A g \in Entries : g >= s.pos => e <= g
    BY <2>5
  <2>7. e \in Nat /\ \A g \in Entries : g \in Nat
    BY EntriesFinite
  <2>8. Left(e + 1) = Left(s.pos) \ {e} /\ e \in Left(s.pos)
    <3>1. \A g \in Entries : g >= e + 1 <=> g >= s.pos /\ g # e
      BY <1>1, <2>6, <2>7
    <3>2. \A g : g \in Left(e + 1) <=> g \in Left(s.pos) \ {e}
      BY <3>1 DEF Left
    <3>3. e \in Left(s.pos)
      BY <2>6 DEF Left
    <3> QED BY <3>2, <3>3
  <2>9. Cardinality(Left(e + 1)) = Cardinality(Left(s.pos)) - 1
    <3>1. IsFiniteSet(Left(s.pos))
      BY <1>1, EntriesFinite
    <3> QED BY <2>8, <3>1, FS_RemoveElement
  <2>10. PICK c \in 0 .. num_dir_entries : c = Cardinality(Left(e + 1)) /\ c = s.flags - 1
    BY <1>1, <2>7, <2>9, EntriesFinite
  <2>11. directory_read(s) = [s EXCEPT !.pos = e + 1, !.flags = c]
    <3>1. \E x \in Entries : x >= s.pos
      BY <2>6
    <3>2. directory_read(s) = [s EXCEPT !.pos = NextEntry(s.pos) + 1, !.flags = @ - 1]
      BY <1>3, <3>1 DEF directory_read
    <3> QED BY <1>1, <2>6, <2>10, <3>2 DEF SlotType
  <2>12. /\ directory_read(s) \in SlotType /\ directory_read(s).ops = "dir"
         /\ directory_read(s).pos = e + 1 /\ directory_read(s).flags = c
    <3>1. PICK m \in Nat : m = e + 1
      BY <2>7
    <3>2. c \in {-1, 1} \cup 0 .. num_dir_entries
      OBVIOUS
    <3>3. directory_read(s) = [s EXCEPT !.pos = m, !.flags = c]
      BY <2>11, <3>1
    <3>4. /\ directory_read(s) \in SlotType /\ directory_read(s).ops = "dir"
          /\ directory_read(s).pos = m /\ directory_read(s).flags = c
      BY <1>1, <3>2, <3>3 DEF SlotType
    <3> QED BY <3>1, <3>4
  <2>13. c # -1
    OBVIOUS
  <2> QED BY <2>10, <2>12, <2>13 DEF GoodSlots, SlotOK
<1> QED BY <1>2, <1>3
-----------------------------------------------------------------------------
(* Lemmas about tables.                                                    *)

LEMMA SlotNumbers ==
    /\ Other \subseteq Fds /\ 0 \in Fds /\ 1 \in Fds /\ 0 \notin Other /\ 1 \notin Other
    /\ Other \subseteq Nat
BY FdtAssumption DEF Other, Fds

\* The loop of open finds the first free slot when there is one.
LEMMA FirstFreeOK ==
    ASSUME NEW t \in Tables, ~Full(t)
    PROVE  FirstFree(t) \in Other /\ t[FirstFree(t)].flags = -1
<1> DEFINE free == {fd \in Other : t[fd].flags = -1}
<1>1. free # {} /\ free \in SUBSET Nat
  BY SlotNumbers DEF Full
<1>2. PICK fd \in free : \A g \in free : fd <= g
  BY <1>1, LeastElement
<1>3. fd \in Other /\ fd \in Nat /\ t[fd].flags = -1
  BY <1>1
<1>4. \A g \in 2 .. fd - 1 : t[g].flags # -1
  <2> SUFFICES ASSUME NEW g \in 2 .. fd - 1, t[g].flags = -1
               PROVE  FALSE
    OBVIOUS
  <2>1. g \in Other
    BY <1>3, FdtAssumption DEF Other
  <2>2. g \in free
    BY <2>1
  <2> QED BY <1>2, <1>3, <2>2
<1>5. \E x \in Other : t[x].flags = -1 /\ \A g \in 2 .. x - 1 : t[g].flags # -1
  BY <1>3, <1>4
<1> QED BY <1>5 DEF FirstFree

\* open uses a free slot, or slot 0 of a full table.
LEMMA OpenSlotOK ==
    ASSUME NEW t \in Tables
    PROVE  /\ OpenSlot(t) \in Fds
           /\ OpenSlot(t) = 0 => Full(t)
           /\ OpenSlot(t) # 0 => OpenSlot(t) \in Other /\ t[OpenSlot(t)].ops = "none"
<1>1. CASE Full(t)
  BY <1>1, SlotNumbers DEF OpenSlot
<1>2. CASE ~Full(t)
  <2>1. OpenSlot(t) = FirstFree(t) /\ FirstFree(t) \in Other /\ t[FirstFree(t)].flags = -1
    BY <1>2, FirstFreeOK DEF OpenSlot
  <2>2. t[FirstFree(t)] \in GoodSlots
    BY <2>1, SlotNumbers DEF Tables
  <2>3. t[FirstFree(t)].ops = "none"
    BY <2>1, <2>2 DEF GoodSlots, SlotOK
  <2> QED BY <2>1, <2>3, SlotNumbers
<1> QED BY <1>1, <1>2

LEMMA StoreOK ==
    ASSUME NEW t \in Tables, NEW fd \in Fds, NEW s \in GoodSlots
    PROVE  [t EXCEPT ![fd] = s] \in Tables
BY DEF Tables

\* A new control block has nothing open besides 0 and 1.
LEMMA NewTableOK ==
    ASSUME NEW t \in Tables
    PROVE  NewTable(t) \in Tables /\ \A fd \in Other : NewTable(t)[fd].ops = "none"
<1>1. \A fd \in Fds : t[fd] \in GoodSlots
  BY DEF Tables
<1>2. \A fd \in Fds : Cleared(t[fd]) \in GoodSlots /\ Cleared(t[fd]).ops = "none"
  BY <1>1, ClearedOK
<1> QED BY <1>1, <1>2, SlotNumbers DEF NewTable, Tables

\* What execute leaves in the table of its caller: a used slot is free again, except 0.
LEMMA ExecTableOK ==
    ASSUME NEW t \in Tables, NEW f \in Files
    PROVE  /\ ExecTable(t, f) \in Tables
           /\ \A fd \in Fds : ExecTable(t, f)[fd].ops \in {t[fd].ops, "none"} \/ (fd = 0 /\ Full(t))
<1> DEFINE o == OpenSlot(t)
           s == file_read(Slot("file", f, 0, 1), EXEC_LENGTH)
<1>1. s \in GoodSlots
  <2>1. Slot("file", f, 0, 1) \in GoodSlots /\ Slot("file", f, 0, 1).ops = "file"
    BY OpenedOK DEF Slot
  <2>2. EXEC_LENGTH \in Nat
    BY DEF EXEC_LENGTH
  <2> QED BY <2>1, <2>2, FileReadOK
<1>2. Cleared(s) \in GoodSlots /\ Cleared(s).ops = "none"
  BY <1>1, ClearedOK
<1>3. o \in Fds /\ (o = 0 => Full(t))
  BY OpenSlotOK
<1>4. ExecTable(t, f) = [t EXCEPT ![o] = IF o = 0 THEN s ELSE Cleared(s)]
  BY DEF ExecTable
<1> HIDE DEF o, s
<1>5. ExecTable(t, f) \in Tables
  BY <1>1, <1>2, <1>3, <1>4, StoreOK
<1>6. ASSUME NEW fd \in Fds
      PROVE  ExecTable(t, f)[fd].ops \in {t[fd].ops, "none"} \/ (fd = 0 /\ Full(t))
  <2>1. ExecTable(t, f)[fd] = IF fd = o THEN (IF o = 0 THEN s ELSE Cleared(s)) ELSE t[fd]
    BY <1>3, <1>4, <1>6 DEF Tables
  <2> QED BY <1>2, <1>3, <2>1
<1> QED BY <1>5, <1>6

\* create_new_pcb finds a free pid when one is left.
LEMMA FirstPidOK ==
    ASSUME live \subseteq Pids, Cardinality(live) < MAX_PROCESSES
    PROVE  FirstPid \in Pids \ live
<1>1. IsFiniteSet(Pids) /\ Cardinality(Pids) = MAX_PROCESSES
  BY FS_Interval, MaxProcessesAssumption DEF Pids
<1>2. Pids \ live # {}
  <2>1. live # Pids
    BY <1>1, MaxProcessesAssumption
  <2> QED BY <2>1
<1>3. Pids \ live \in SUBSET Nat
  BY MaxProcessesAssumption DEF Pids
<1>4. \E q \in Pids \ live : \A r \in Pids \ live : q <= r
  BY <1>2, <1>3, LeastElement
<1> QED BY <1>4 DEF FirstPid
-----------------------------------------------------------------------------
(* Steps.                                                                  *)

\* How the slots of a table may change in a step: to closed, or from free to open, or slot
\* 0 of a full table.
Allowed(old, new) ==
    \A fd \in Fds : new[fd].ops \notin {old[fd].ops, "none"} =>
                      old[fd].ops = "none" \/ (fd = 0 /\ Full(old))

StepOK ==
    /\ IInv'
    /\ \A p \in Pids : Allowed(fd_table[p], fd_table'[p])

\* A step that changes one table, and starts no process.
LEMMA OneTable ==
    ASSUME IInv, NEW p \in Pids, NEW t \in Tables, Allowed(fd_table[p], t),
           fd_table' = [fd_table EXCEPT ![p] = t], live' \subseteq live
    PROVE  StepOK
<1>1. fd_table' \in [Pids -> Tables] /\ live' \subseteq Pids
  BY DEF IInv
<1>3. \A q \in Pids : fd_table'[q] = IF q = p THEN t ELSE fd_table[q]
  BY DEF IInv
<1>4. \A q \in Pids : Allowed(fd_table[q], fd_table'[q])
  BY <1>3 DEF Allowed
<1> QED BY <1>1, <1>4 DEF StepOK, IInv

\* A slot of one table changes.
LEMMA OneSlot ==
    ASSUME IInv, NEW p \in Pids, NEW fd \in Fds, NEW s \in GoodSlots,
           \/ s.ops \in {fd_table[p][fd].ops, "none"}
           \/ fd_table[p][fd].ops = "none"
           \/ fd = 0 /\ Full(fd_table[p]),
           fd_table' = [fd_table EXCEPT ![p] = [fd_table[p] EXCEPT ![fd] = s]], UNCHANGED live
    PROVE  StepOK
<1> DEFINE t == [fd_table[p] EXCEPT ![fd] = s]
<1>1. fd_table[p] \in Tables
  BY DEF IInv
<1>2. t \in Tables
  BY <1>1, StoreOK
<1>3. Allowed(fd_table[p], t)
  BY <1>1 DEF Allowed, Tables
<1> QED BY <1>2, <1>3, OneTable

LEMMA OpenStep ==
    ASSUME IInv, NEW p \in Pids,
           OpenRtc(p) \/ OpenDirectory(p) \/ \E f \in Files : OpenFile(p, f)
    PROVE  StepOK
<1> DEFINE t == fd_table[p]
<1>1. t \in Tables
  BY DEF IInv
<1>2. /\ OpenSlot(t) \in Fds
      /\ t[OpenSlot(t)].ops = "none" \/ (OpenSlot(t) = 0 /\ Full(t))
  BY <1>1, OpenSlotOK
<1>3. ASSUME NEW f \in Files, OpenFile(p, f)
      PROVE  StepOK
  <2>1. fd_table' = [fd_table EXCEPT ![p] = [t EXCEPT ![OpenSlot(t)] = Slot("file", f, 0, 1)]]
    BY <1>3 DEF OpenFile, file_open, IInv
  <2>2. Slot("file", f, 0, 1) \in GoodSlots
    BY OpenedOK
  <2>3. UNCHANGED live
    BY <1>3 DEF OpenFile
  <2> QED BY <1>2, <2>1, <2>2, <2>3, OneSlot
<1>4. CASE OpenRtc(p)
  <2>1. fd_table' = [fd_table EXCEPT ![p] = [t EXCEPT ![OpenSlot(t)] = Slot("rtc", NoInode, 0, 1)]]
    BY <1>4 DEF OpenRtc, IInv
  <2>2. Slot("rtc", NoInode, 0, 1) \in GoodSlots
    BY OpenedOK
  <2>3. UNCHANGED live
    BY <1>4 DEF OpenRtc
  <2> QED BY <1>2, <2>1, <2>2, <2>3, OneSlot
<1>5. CASE OpenDirectory(p)
  <2>1. OpenSlot(t) = FirstFree(t)
    BY <1>5 DEF OpenDirectory, OpenSlot
  <2>2. fd_table' = [fd_table EXCEPT ![p] = [t EXCEPT ![OpenSlot(t)] = Slot("dir", NoInode, 0, num_dir_entries)]]
    BY <1>5, <2>1 DEF OpenDirectory, IInv
  <2>3. Slot("dir", NoInode, 0, num_dir_entries) \in GoodSlots
    BY OpenedOK
  <2>4. UNCHANGED live
    BY <1>5 DEF OpenDirectory
  <2> QED BY <1>2, <2>2, <2>3, <2>4, OneSlot
<1> QED BY <1>3, <1>4, <1>5

LEMMA CloseStep ==
    ASSUME IInv, NEW p \in Pids, NEW fd \in Fds, Close(p, fd)
    PROVE  StepOK
<1>1. fd_table[p][fd] \in GoodSlots
  BY DEF IInv, Tables
<1>2. Cleared(fd_table[p][fd]) \in GoodSlots /\ Cleared(fd_table[p][fd]).ops = "none"
  BY <1>1, ClearedOK
<1>3. fd_table' = [fd_table EXCEPT ![p] = [fd_table[p] EXCEPT ![fd] = Cleared(fd_table[p][fd])]]
  BY DEF Close, IInv, Tables
<1>4. UNCHANGED live
  BY DEF Close
<1> QED BY <1>2, <1>3, <1>4, OneSlot

LEMMA ReadStep ==
    ASSUME IInv, NEW p \in Pids, NEW fd \in Fds, NEW n \in Lengths, Read(p, fd, n)
    PROVE  StepOK
<1> DEFINE s == fd_table[p][fd]
<1>1. s \in GoodSlots /\ n \in Nat
  BY LengthsAssumption DEF IInv, Tables
<1>2. s.ops \in {"file", "dir"} /\ UNCHANGED live
  BY DEF Read
<1>3. PICK r \in GoodSlots :
        /\ r.ops = s.ops
        /\ r = IF s.ops = "dir" THEN directory_read(s) ELSE file_read(s, n)
  BY <1>1, <1>2, FileReadOK, DirectoryReadOK
<1>4. fd_table' = [fd_table EXCEPT ![p] = [fd_table[p] EXCEPT ![fd] = r]]
  BY <1>3 DEF Read
<1> QED BY <1>2, <1>3, <1>4, OneSlot

\* execute of a program gives the caller's table back and the child a fresh one.
LEMMA ExecuteStep ==
    ASSUME IInv, NEW p \in Pids, NEW f \in Files, Execute(p, f)
    PROVE  StepOK
<1>0. p \in live /\ live \subseteq Pids /\ Cardinality(live) < MAX_PROCESSES
  BY DEF Execute, IInv
<1>1. fd_table[p] \in Tables
  BY DEF IInv
<1>2. ExecTable(fd_table[p], f) \in Tables /\ Allowed(fd_table[p], ExecTable(fd_table[p], f))
  BY <1>1, ExecTableOK DEF Allowed
<1>3. CASE f \notin Programs
  <2>1. fd_table' = [fd_table EXCEPT ![p] = ExecTable(fd_table[p], f)] /\ live' \subseteq live
    BY <1>3 DEF Execute
  <2> QED BY <1>2, <2>1, OneTable
<1>4. CASE f \in Programs
  <2>1. PICK c \in Pids \ live : c = FirstPid
    BY <1>0, FirstPidOK
  <2>2. c # p
    BY <1>0
  <2>3. fd_table[c] \in Tables
    BY DEF IInv
  <2>4. PICK t \in Tables : t = NewTable(fd_table[c]) /\ \A fd \in Other : t[fd].ops = "none"
    BY <2>3, NewTableOK
  <2>5. PICK e \in Tables : e = ExecTable(fd_table[p], f) /\ Allowed(fd_table[p], e)
    BY <1>2
  <2>6. live' = live \cup {c} /\ fd_table' = [fd_table EXCEPT ![p] = e, ![c] = t]
    BY <1>4, <2>1, <2>2, <2>4, <2>5 DEF Execute, IInv
  <2>7. \A q \in Pids : fd_table'[q] = IF q = c THEN t ELSE IF q = p THEN e ELSE fd_table[q]
    BY <2>2, <2>6 DEF IInv
  <2>8. fd_table' \in [Pids -> Tables]
    BY <2>6 DEF IInv
  <2>9. IInv'
    BY <1>0, <2>6, <2>8 DEF IInv
  <2>11. Allowed(fd_table[c], t)
    <3>1. \A fd \in Fds : t[fd].ops = "none" \/ t[fd] = fd_table[c][fd]
      BY <2>4 DEF NewTable
    <3> QED BY <3>1 DEF Allowed
  <2>12. \A q \in Pids : Allowed(fd_table[q], fd_table'[q])
    BY <2>5, <2>7, <2>11 DEF Allowed
  <2> QED BY <2>9, <2>12 DEF StepOK
<1> QED BY <1>3, <1>4

LEMMA ShellStep ==
    ASSUME IInv, StartShell
    PROVE  StepOK
<1>0. live \subseteq Pids /\ Cardinality(live) < MAX_PROCESSES
  BY DEF StartShell, IInv
<1>1. PICK c \in Pids \ live : c = FirstPid
  BY <1>0, FirstPidOK
<1>2. fd_table[c] \in Tables
  BY DEF IInv
<1>3. PICK t \in Tables : t = NewTable(fd_table[c]) /\ \A fd \in Other : t[fd].ops = "none"
  BY <1>2, NewTableOK
<1>4. live' = live \cup {c} /\ fd_table' = [fd_table EXCEPT ![c] = t]
  BY <1>1, <1>3 DEF StartShell
<1>5. \A q \in Pids : fd_table'[q] = IF q = c THEN t ELSE fd_table[q]
  BY <1>4 DEF IInv
<1>6. IInv'
  BY <1>0, <1>4 DEF IInv
<1>8. \A q \in Pids : Allowed(fd_table[q], fd_table'[q])
  <2>1. \A fd \in Fds : t[fd].ops = "none" \/ t[fd] = fd_table[c][fd]
    BY <1>3 DEF NewTable
  <2> QED BY <1>5, <2>1 DEF Allowed
<1> QED BY <1>6, <1>8 DEF StepOK

\* halt closes nothing.
LEMMA KeptStep ==
    ASSUME IInv, UNCHANGED fd_table, live' \subseteq live
    PROVE  StepOK
BY DEF StepOK, IInv, Allowed

LEMMA NextStep == IInv /\ [Next]_vars => StepOK
<1> SUFFICES ASSUME IInv, [Next]_vars PROVE StepOK
  OBVIOUS
<1>1. CASE StartShell
  BY <1>1, ShellStep
<1>2. ASSUME NEW p \in Pids, NEW f \in Files, OpenFile(p, f) \/ Execute(p, f)
      PROVE  StepOK
  BY <1>2, OpenStep, ExecuteStep
<1>3. ASSUME NEW p \in Pids, OpenRtc(p) \/ OpenDirectory(p)
      PROVE  StepOK
  BY <1>3, OpenStep
<1>4. ASSUME NEW p \in Pids, NEW fd \in Fds, Close(p, fd)
      PROVE  StepOK
  BY <1>4, CloseStep
<1>5. ASSUME NEW p \in Pids, NEW fd \in Fds, NEW n \in Lengths, Read(p, fd, n)
      PROVE  StepOK
  BY <1>5, ReadStep
<1>6. ASSUME NEW p \in Pids, Halt(p)
      PROVE  StepOK
  BY <1>6, KeptStep DEF Halt
<1>7. CASE UNCHANGED vars
  BY <1>7, KeptStep DEF vars
<1> QED BY <1>1, <1>2, <1>3, <1>4, <1>5, <1>6, <1>7 DEF Next

\* process_control_block_init
LEMMA InitIInv == Init => IInv
<1> SUFFICES ASSUME Init PROVE IInv
  OBVIOUS
<1>1. /\ Slot("stdin", NoInode, 0, 1) \in GoodSlots
      /\ Slot("stdout", NoInode, 0, 1) \in GoodSlots
      /\ Slot("none", NoInode, 0, -1) \in GoodSlots
  <2>1. "stdin" \in Drivers /\ "stdout" \in Drivers /\ "none" \in Drivers
    BY DEF Drivers
  <2> QED BY <2>1, SlotFields DEF GoodSlots, SlotOK
<1> QED BY <1>1 DEF Init, IInv, Tables

-----------------------------------------------------------------------------
\* The ranges of the process and descriptor tables.
THEOREM TypeCorrect == Spec => []TypeOK
<1>1. IInv => TypeOK
  BY DEF IInv, TypeOK, Tables, GoodSlots, SlotType
<1>2. IInv /\ [Next]_vars => IInv'
  BY NextStep DEF StepOK
<1> QED BY <1>1, <1>2, InitIInv, PTL DEF Spec

\* The two marks of a free slot, tested by different system calls, never disagree.
THEOREM MarksCorrect == Spec => []SlotMarksAgree
<1>1. IInv => SlotMarksAgree
  BY DEF IInv, SlotMarksAgree, Tables, GoodSlots, SlotOK
<1>2. IInv /\ [Next]_vars => IInv'
  BY NextStep DEF StepOK
<1> QED BY <1>1, <1>2, InitIInv, PTL DEF Spec

\* directory_read: the counter in flags is the number of names still to be returned.
THEOREM DirectoryCorrect == Spec => []DirectoryCount
<1>1. IInv => DirectoryCount
  BY DEF IInv, DirectoryCount, Tables, GoodSlots, SlotOK, Left
<1>2. IInv /\ [Next]_vars => IInv'
  BY NextStep DEF StepOK
<1> QED BY <1>1, <1>2, InitIInv, PTL DEF Spec

\* file_read: no sequence of reads moves the position of a file beyond its end.
THEOREM PositionCorrect == Spec => []PositionInFile
<1>1. IInv => PositionInFile
  BY DEF IInv, PositionInFile, Tables, GoodSlots, SlotOK
<1>2. IInv /\ [Next]_vars => IInv'
  BY NextStep DEF StepOK
<1> QED BY <1>1, <1>2, InitIInv, PTL DEF Spec

\* open: only a free slot changes its driver, or slot 0 of a full table.
THEOREM FreeSlotsCorrect == Spec => OnlyFreeSlotsTaken
<1> DEFINE Free == \A p \in Pids, fd \in Fds :
         LET before == fd_table[p][fd].ops
             after == fd_table'[p][fd].ops
         IN  after \notin {before, "none"} =>
                 before = "none" \/ (fd = 0 /\ Full(fd_table[p]))
<1>1. IInv /\ [Next]_vars => IInv' /\ Free
  BY NextStep DEF StepOK, Allowed
<1> QED BY <1>1, InitIInv, PTL DEF Spec, OnlyFreeSlotsTaken
=============================================================================
