-------------------------------- MODULE Lib --------------------------------
(***************************************************************************)
(* The memory, string and number routines of lib.c, and the copies of them *)
(* that user programs carry (syscalls/ece391support.c), as operators: the  *)
(* loops of the code are recursive functions, and LibraryCorrect compares  *)
(* each with what it is used for.  Two header comments say something else  *)
(* and are not what is compared: memset_word and memset_dword take n for   *)
(* "number of bytes to set" and set n words and dwords, and itoa returns   *)
(* its buffer, not the "number of bytes written".                          *)
(*                                                                         *)
(* Memory is a function from addresses to bytes; a string is memory read   *)
(* from an address up to the first NUL.  A word of the machine has WIDTH   *)
(* bits, so that overflow happens at small numbers.                        *)
(***************************************************************************)
EXTENDS Integers, Sequences

CONSTANTS
    LibCells,     \* size of the memory the routines are tried on
    LibText,      \* longest string they are tried on
    WIDTH         \* bits in an int (32)

ASSUME LibCellsAssumption == LibCells \in Nat
ASSUME LibTextAssumption == LibText \in Nat \ {0}
ASSUME WidthAssumption == WIDTH \in Nat \ {0} /\ WIDTH % 4 = 0

NUL == 0

-----------------------------------------------------------------------------
(* Memory. *)

Lesser(a, b) == IF a <= b THEN a ELSE b

\* The bytes to store one by one before the destination is aligned, at most n.
Unaligned(dest, n) == Lesser(n, (4 - (dest % 4)) % 4)

\* movb, k times upwards: each byte is read after the one before it was stored.
CopyBytes(mem, dest, src, k) ==
    LET run[i \in 0 .. k] ==
            IF i = 0 THEN mem
            ELSE [run[i - 1] EXCEPT ![dest + i - 1] = run[i - 1][src + i - 1]]
    IN  run[k]

\* rep movsl, k times: four bytes are read and then stored.
CopyDwords(mem, dest, src, k) ==
    LET Dword(m, i) == [a \in DOMAIN m |->
                          IF a \in dest + 4 * i .. dest + 4 * i + 3
                          THEN m[a - dest + src] ELSE m[a]]
        run[i \in 0 .. k] == IF i = 0 THEN mem ELSE Dword(run[i - 1], i - 1)
    IN  run[k]

\* Mutant: the rest behind the last whole dword is not copied.
memcpy_no_tail(mem, dest, src, n) ==
    LET h == Unaligned(dest, n)
    IN  CopyDwords(CopyBytes(mem, dest, src, h), dest + h, src + h, (n - h) \div 4)

\* Bytes up to an aligned destination, dwords, and the rest in bytes.
memcpy(mem, dest, src, n) ==
    LET h == Unaligned(dest, n)
        d == (n - h) \div 4
        aligned == CopyDwords(CopyBytes(mem, dest, src, h), dest + h, src + h, d)
    IN  CopyBytes(aligned, dest + h + 4 * d, src + h + 4 * d, (n - h) % 4)

\* rep movsb from the end that the move does not overwrite first.
memmove(mem, dest, src, n) ==
    LET down[i \in 0 .. n] ==
            IF i = 0 THEN mem
            ELSE [down[i - 1] EXCEPT ![dest + n - i] = down[i - 1][src + n - i]]
    IN  IF src >= dest THEN CopyBytes(mem, dest, src, n) ELSE down[n]

Fill(mem, from, k, c) == [a \in DOMAIN mem |-> IF a \in from .. from + k - 1 THEN c ELSE mem[a]]

memset(mem, s, c, n) ==
    LET h == Unaligned(s, n)
        d == (n - h) \div 4
    IN  Fill(Fill(Fill(mem, s, h, c), s + h, 4 * d, c), s + h + 4 * d, (n - h) % 4, c)

\* rep stosw and rep stosl store the bytes of c, lowest first; n counts words and dwords.
FillWith(mem, s, c, size, n) ==
    [a \in DOMAIN mem |-> IF a \in s .. s + size * n - 1 THEN c[(a - s) % size] ELSE mem[a]]
memset_word(mem, s, c, n)  == FillWith(mem, s, c, 2, n)
memset_dword(mem, s, c, n) == FillWith(mem, s, c, 4, n)

\* What copying n bytes means: every byte gets the old value of its source.
Moved(mem, dest, src, n) ==
    [a \in DOMAIN mem |-> IF a \in dest .. dest + n - 1 THEN mem[a - dest + src] ELSE mem[a]]

-----------------------------------------------------------------------------
(* Strings: functions from 0 that hold a NUL. *)

strlen(s) == CHOOSE k \in DOMAIN s : s[k] = NUL /\ \A i \in 0 .. k - 1 : s[i] # NUL

\* Copies up to n bytes; after the end of src the rest of the n bytes become NUL, and
\* without an end among them no NUL is stored.
strncpy(dest, src, n) ==
    LET end == IF \E k \in 0 .. n - 1 : src[k] = NUL THEN strlen(src) ELSE n
    IN  [i \in DOMAIN dest |-> IF i < end THEN src[i] ELSE IF i < n THEN NUL ELSE dest[i]]

\* The bytes up to and with the NUL, each read when its turn comes.
strcpy(mem, dest, src) ==
    LET End(a) == mem[a] = NUL /\ \A b \in src .. a - 1 : mem[b] # NUL
    IN  CopyBytes(mem, dest, src, (CHOOSE a \in DOMAIN mem : a >= src /\ End(a)) - src + 1)

\* The loop returns at the first difference or common end, or 0 after n bytes.
strncmp(s1, s2, n) ==
    LET from[i \in 0 .. n] ==
            IF i = n THEN 0
            ELSE IF s1[i] # s2[i] \/ s1[i] = NUL THEN s1[i] - s2[i]
            ELSE from[i + 1]
    IN  from[0]

\* The copy of user programs counts n down instead, and tests it first.
ece391_strncmp(s1, s2, n) ==
    LET from[i \in 0 .. n - 1] ==
            IF s1[i] # s2[i] THEN s1[i] - s2[i]
            ELSE IF s1[i] = NUL \/ n - i - 1 = 0 THEN 0
            ELSE from[i + 1]
    IN  IF n = 0 THEN 0 ELSE from[0]

ece391_strcmp(s1, s2) ==
    LET from[i \in DOMAIN s1] ==
            IF s1[i] # s2[i] THEN s1[i] - s2[i]
            ELSE IF s1[i] = NUL THEN 0
            ELSE from[i + 1]
    IN  from[0]

\* read_dentry_by_name: an entry's name has size cells, all of them used by the longest
\* names, and the name looked for has 1 .. size characters and a NUL.
SameName(entry, fname, size) ==
    /\ strlen(fname) # 0
    /\ strlen(fname) <= size
    /\ entry[0] # NUL
    /\ strncmp(entry, fname, size) = 0

-----------------------------------------------------------------------------
(* Numbers. *)

\* The number of words of w bits.
Words(w) ==
    LET power[i \in 0 .. w] == IF i = 0 THEN 1 ELSE 2 * power[i - 1]
    IN  power[w]

\* The digits are produced from the lowest on, and swapped end for end.
Digits(value, radix) ==
    LET low[v \in 0 .. value] == IF v = 0 THEN << >> ELSE <<v % radix>> \o low[v \div radix]
    IN  low[value]

strrev(s) ==
    LET swap(t, i, k) == [t EXCEPT ![i] = t[k], ![k] = t[i]]
        run[beg \in 0 .. Len(s) \div 2] ==
            IF beg = 0 THEN s ELSE swap(run[beg - 1], beg, Len(s) + 1 - beg)
    IN  run[Len(s) \div 2]

itoa(value, radix) == IF value = 0 THEN <<0>> ELSE strrev(Digits(value, radix))

\* printf("%d"): a minus sign, and the negated word as an unsigned number.
Signed(value) ==
    IF value < 0 THEN [minus |-> TRUE, digits |-> itoa((-value) % Words(WIDTH), 10)]
    ELSE [minus |-> FALSE, digits |-> itoa(value, 10)]

\* printf("%#x"): the digits lie behind WIDTH / 4 cells; as many of the cells in front as
\* there are digits too few are set to '0', and printing starts there.
Padded(value) ==
    LET full == WIDTH \div 4
        digits == itoa(value, 16)
        starting_index == Len(digits)
    IN  [k \in 1 .. full - starting_index |-> 0] \o digits

-----------------------------------------------------------------------------
(* What the routines are for. *)

Cells == 0 .. LibCells - 1
Tags == [a \in Cells |-> a + 1]             \* every byte different
Texts == [0 .. LibText -> {NUL, 1, 2}]      \* short character arrays
Strings == {s \in Texts : s[LibText] = NUL} \* ... that are strings
Text(s) == [i \in 1 .. strlen(s) |-> s[i - 1]]
Value(digits, radix) ==
    LET upto[n \in 0 .. Len(digits)] == IF n = 0 THEN 0 ELSE upto[n - 1] * radix + digits[n]
    IN  upto[Len(digits)]
Magnitude(v) == IF v < 0 THEN -v ELSE v

\* memcpy and memset handle every alignment and length, memcpy also a destination below
\* an overlapping source and memmove any overlap; the word routines with equal bytes do
\* what memset does with two and four times the count.
MemoryCorrect ==
    \A dest, n \in Cells : dest + n <= LibCells =>
        /\ memset(Tags, dest, 0, n) = Fill(Tags, dest, n, 0)
        /\ memset_word(Tags, dest, [b \in 0 .. 1 |-> 0], n) = memset(Tags, dest, 0, 2 * n)
        /\ memset_dword(Tags, dest, [b \in 0 .. 3 |-> 0], n) = memset(Tags, dest, 0, 4 * n)
        /\ \A src \in Cells : src + n <= LibCells =>
             /\ memmove(Tags, dest, src, n) = Moved(Tags, dest, src, n)
             /\ (dest <= src \/ src + n <= dest) =>
                  memcpy(Tags, dest, src, n) = Moved(Tags, dest, src, n)

\* s and t first differ at k, and neither has ended before.
DifferAt(s, t, k) == s[k] # t[k] /\ \A j \in 0 .. k - 1 : s[j] = t[j] /\ s[j] # NUL

\* A comparison's result has the sign of the first difference.
SignOf(r, s, t, k) == r > 0 <=> s[k] > t[k]

\* Comparisons find exactly the equal strings (up to n characters) and order the others,
\* in kernel and user code alike; strncpy stores n bytes, NULs behind the string's end; a
\* file is found by its whole name only, names without a NUL included.
StringsCorrect ==
    /\ \A s, t \in Strings :
         /\ (ece391_strcmp(s, t) = 0) <=> Text(s) = Text(t)
         /\ \A n \in 0 .. LibText + 1 :
              LET Upto(x) == SubSeq(Text(x), 1, Lesser(n, strlen(x)))
              IN  /\ (strncmp(s, t, n) = 0) <=> Upto(s) = Upto(t)
                  /\ (ece391_strncmp(s, t, n) = 0) <=> Upto(s) = Upto(t)
                  /\ \A k \in 0 .. n - 1 : DifferAt(s, t, k) =>
                       /\ SignOf(strncmp(s, t, n), s, t, k)
                       /\ SignOf(ece391_strncmp(s, t, n), s, t, k)
                       /\ SignOf(ece391_strcmp(s, t), s, t, k)
    /\ \A s \in Strings, n \in 0 .. LibText + 1 :
         strncpy([i \in 0 .. LibText |-> 9], s, n) =
             [i \in 0 .. LibText |-> IF i >= n THEN 9 ELSE IF i < strlen(s) THEN s[i] ELSE NUL]
    /\ \A e \in [0 .. LibText - 1 -> {NUL, 1, 2}], f \in Strings :
         LET name == [i \in 0 .. LibText |-> IF i < LibText THEN e[i] ELSE NUL]
         IN  SameName(e, f, LibText) <=> strlen(name) > 0 /\ Text(f) = Text(name)
    /\ \A s \in Strings, gap \in 1 .. LibText + 1 :
         LET mem == [a \in 0 .. LibText + gap |-> IF a >= gap THEN s[a - gap] ELSE 9]
             copy == strcpy(mem, 0, gap)
         IN  Text([i \in 0 .. LibText |-> copy[i]]) = Text(s)

\* Numbers are printed with the digits of their value, no leading zero, the most
\* negative word included, and "%#x" with all the digits of a word.
NumbersCorrect ==
    /\ \A v \in 0 .. Words(WIDTH) - 1 :
         /\ \A radix \in {2, 10, 16} : /\ Value(itoa(v, radix), radix) = v
                                       /\ v > 0 => itoa(v, radix)[1] # 0
         /\ Len(Padded(v)) = WIDTH \div 4 /\ Value(Padded(v), 16) = v
    /\ \A v \in -Words(WIDTH - 1) .. Words(WIDTH - 1) - 1 :
         /\ Signed(v).minus <=> v < 0
         /\ Value(Signed(v).digits, 10) = Magnitude(v)

\* The routines of lib.c and ece391support.c do what they are for.
LibraryCorrect == MemoryCorrect /\ StringsCorrect /\ NumbersCorrect
=============================================================================
