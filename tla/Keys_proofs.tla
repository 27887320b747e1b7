---------------------------- MODULE Keys_proofs -----------------------------
(***************************************************************************)
(* Proofs about Keys, for every length of a line: whatever is pressed,     *)
(* released, repeated or lost, the modifiers the kernel keeps stand in the *)
(* stated relation to the keys that are down.                              *)
(***************************************************************************)
EXTENDS Keys, FiniteSetTheorems, TLAPS

\* The parity of the held shift keys, without counting them.
OneShift == "lshift" \in held <=> "rshift" \notin held

ShiftParity == shift_down <=> (OneShift <=> slips = 0)

LevelsFollow ==
    /\ "ctrl" \notin missed => (ctrl_down <=> "ctrl" \in held)
    /\ "alt" \notin missed => (alt_down <=> "alt" \in held)

IInv == TypeOK /\ LevelsFollow /\ ShiftParity

-----------------------------------------------------------------------------
\* How many shift keys are held, for each of the four cases.
LEMMA ShiftCount ==
    ASSUME TypeOK
    PROVE  /\ OneShift => Cardinality(held \cap Shifts) = 1
           /\ ~OneShift => Cardinality(held \cap Shifts) \in {0, 2}
<1>1. CASE "lshift" \in held /\ "rshift" \notin held
  <2>1. held \cap Shifts = {"lshift"}
    BY <1>1 DEF Shifts
  <2> QED BY <1>1, <2>1, FS_Singleton DEF OneShift
<1>2. CASE "lshift" \notin held /\ "rshift" \in held
  <2>1. held \cap Shifts = {"rshift"}
    BY <1>2 DEF Shifts
  <2> QED BY <1>2, <2>1, FS_Singleton DEF OneShift
<1>3. CASE "lshift" \notin held /\ "rshift" \notin held
  <2>1. held \cap Shifts = {}
    BY <1>3 DEF Shifts
  <2> QED BY <1>3, <2>1, FS_EmptySet DEF OneShift
<1>4. CASE "lshift" \in held /\ "rshift" \in held
  <2>1. held \cap Shifts = {"lshift", "rshift"}
    BY <1>4 DEF Shifts
  <2>2. Cardinality({"lshift", "rshift"}) = 2
    <3>1. /\ IsFiniteSet({"lshift"})
          /\ Cardinality({"lshift"}) = 1
      BY FS_Singleton
    <3>2. {"lshift"} \cup {"rshift"} = {"lshift", "rshift"} /\ "rshift" \notin {"lshift"}
      OBVIOUS
    <3> QED BY <3>1, <3>2, FS_AddElement
  <2> QED BY <1>4, <2>1, <2>2 DEF OneShift
<1> QED BY <1>1, <1>2, <1>3, <1>4

\* The parity without counting is the one of the property.
LEMMA ParityCounts ==
    ASSUME IInv
    PROVE  shift_down <=> (Cardinality(held \cap Shifts) + slips) % 2 = 1
<1>1. slips \in {0, 1}
  BY DEF IInv, TypeOK
<1>2. (Cardinality(held \cap Shifts) + slips) % 2 = 1 <=> (OneShift <=> slips = 0)
  BY <1>1, ShiftCount DEF IInv
<1> QED BY <1>2 DEF IInv, ShiftParity

LEMMA InitIInv == Init => IInv
<1> SUFFICES ASSUME Init PROVE IInv
  OBVIOUS
<1>1. size \in 0 .. MAX_CHARACTERS
  BY LineAssumption DEF Init
<1>2. TypeOK
  BY <1>1 DEF Init, TypeOK, Effects
<1>4. LevelsFollow
  BY DEF Init, LevelsFollow
<1>3. ShiftParity
  BY DEF Init, ShiftParity, OneShift
<1> QED BY <1>2, <1>3, <1>4 DEF IInv

\* The code of a modifier key arrives, lost codes aside.
LEMMA ModifierStep ==
    ASSUME IInv, NEW k \in Shifts \cup Levels, Press(k) \/ Release(k) \/ Lose(k)
    PROVE  IInv'
<1> USE DEF Shifts, Levels
<1>1. k = "lshift" \/ k = "rshift" \/ k = "ctrl" \/ k = "alt"
  OBVIOUS
<1>2. CASE Press(k)
  <2>1. TypeOK'
    <3>1. shift_down' \in BOOLEAN /\ ctrl_down' \in BOOLEAN /\ alt_down' \in BOOLEAN
      BY <1>2 DEF IInv, TypeOK, Press, ModifierCode
    <3>2. slips' \in {0, 1}
      BY <1>2 DEF IInv, TypeOK, Press
    <3> QED BY <1>2, <3>1, <3>2 DEF IInv, TypeOK, Press, ModifierCode
  <2>2. LevelsFollow'
    BY <1>2, <1>1 DEF IInv, LevelsFollow, TypeOK, Press, ModifierCode
  <2>3. ShiftParity'
    <3>1. CASE k \notin Shifts
      BY <1>2, <1>1, <3>1 DEF IInv, ShiftParity, OneShift, Press, ModifierCode, Toggles
    <3>2. CASE k \in Shifts /\ k \in held
      <4>1. held' = held /\ slips' = 1 - slips /\ shift_down' = ~shift_down
        BY <1>2, <3>2 DEF Press, ModifierCode, Toggles
      <4>2. slips \in {0, 1}
        BY DEF IInv, TypeOK
      <4>3. (slips' = 0) <=> (slips # 0)
        BY <4>1, <4>2
      <4>4. OneShift' <=> OneShift
        BY <4>1 DEF OneShift
      <4> QED BY <4>1, <4>3, <4>4 DEF IInv, ShiftParity
    <3>3. CASE k \in Shifts /\ k \notin held
      <4>1. held' = held \cup {k} /\ slips' = slips /\ shift_down' = ~shift_down
        BY <1>2, <3>3 DEF Press, ModifierCode, Toggles
      <4> QED BY <4>1, <3>3 DEF IInv, ShiftParity, OneShift
    <3> QED BY <3>1, <3>2, <3>3
  <2> QED BY <2>1, <2>2, <2>3 DEF IInv
<1>3. CASE Release(k)
  <2>1. TypeOK'
    BY <1>3, <1>1 DEF IInv, TypeOK, Release, ModifierCode, Toggles
  <2>2. LevelsFollow'
    BY <1>3, <1>1 DEF IInv, LevelsFollow, TypeOK, Release, ModifierCode
  <2>3. ShiftParity'
    BY <1>3, <1>1 DEF IInv, ShiftParity, OneShift, TypeOK, Release, ModifierCode, Toggles
  <2> QED BY <2>1, <2>2, <2>3 DEF IInv
<1>4. CASE Lose(k)
  <2>1. TypeOK'
    BY <1>4, <1>1 DEF IInv, TypeOK, Lose
  <2>2. LevelsFollow'
    BY <1>4, <1>1 DEF IInv, LevelsFollow, TypeOK, Lose
  <2>3. ShiftParity'
    BY <1>4, <1>1 DEF IInv, ShiftParity, OneShift, TypeOK, Lose
  <2> QED BY <2>1, <2>2, <2>3 DEF IInv
<1> QED BY <1>2, <1>3, <1>4

\* A key that is no modifier changes the line and nothing else.
LEMMA HitStep ==
    ASSUME IInv, NEW key \in OtherKeys, Hit(key)
    PROVE  IInv'
<1>1. Effect(key) \in Effects
  BY DEF Effect, Entry, Effects, OtherKeys, Letters, Table
<1>2. size = MAX_CHARACTERS => Effect(key) \notin {"upper", "lower", "digit", "symbol"}
  BY DEF Effect, OtherKeys, Letters
<1>3. size' \in 0 .. MAX_CHARACTERS
  <2>1. size \in 0 .. MAX_CHARACTERS
    BY DEF IInv, TypeOK
  <2>2. CASE did' \in {"upper", "lower", "digit", "symbol"}
    BY <1>2, <2>1, <2>2, LineAssumption DEF Hit
  <2>3. CASE did' = "backspace"
    BY <2>1, <2>3, LineAssumption DEF Hit
  <2>4. CASE did' \in {"enter", "clear"}
    BY <2>4, LineAssumption DEF Hit
  <2>5. CASE did' \in {"up", "down"}
    BY <2>5 DEF Hit
  <2>6. CASE did' \in {"none", "switch", "left", "right"}
    BY <2>1, <2>6 DEF Hit
  <2>7. did' \in Effects
    BY <1>1 DEF Hit
  <2> QED BY <2>2, <2>3, <2>4, <2>5, <2>6, <2>7 DEF Effects
<1>4. TypeOK'
  BY <1>1, <1>3 DEF IInv, TypeOK, Hit
<1> QED BY <1>4 DEF IInv, LevelsFollow, ShiftParity, OneShift, Hit

LEMMA NextIInv == IInv /\ [Next]_vars => IInv'
<1> SUFFICES ASSUME IInv, [Next]_vars
             PROVE  IInv'
  OBVIOUS
<1>1. ASSUME NEW k \in Shifts \cup Levels, Press(k) \/ Release(k) \/ Lose(k)
      PROVE  IInv'
  BY <1>1, ModifierStep
<1>2. CASE CapsLock
  BY <1>2 DEF CapsLock, IInv, TypeOK, LevelsFollow, ShiftParity, OneShift
<1>3. ASSUME NEW key \in OtherKeys, Hit(key)
      PROVE  IInv'
  BY <1>3, HitStep
<1>4. CASE UNCHANGED vars
  BY <1>4 DEF vars, IInv, TypeOK, LevelsFollow, ShiftParity, OneShift
<1> QED BY <1>1, <1>2, <1>3, <1>4 DEF Next

-----------------------------------------------------------------------------
\* The flags and the line length of the keyboard handler stay in their ranges; in
\* particular no order of keys makes the line longer than its buffer.
THEOREM TypeCorrect == Spec => []TypeOK
<1>1. IInv => TypeOK
  BY DEF IInv
<1> QED BY <1>1, InitIInv, NextIInv, PTL DEF Spec

\* handle_keyboard_input: ctrl_down and alt_down agree with the keys unless the last code
\* of the key was lost, and shift_down is the parity of the held shift keys, inverted by
\* every repeated or lost code, in every reachable state.
THEOREM ModifiersCorrect == Spec => []ModifiersFollow
<1>1. IInv => ModifiersFollow
  BY ParityCounts DEF IInv, LevelsFollow, ModifiersFollow
<1> QED BY <1>1, InitIInv, NextIInv, PTL DEF Spec

\* The tables of keyboard.h: a letter comes out in upper case exactly when one of caps lock
\* and a single shift key is on, as long as no shift code slipped.
THEOREM CaseCorrect == Spec => []CaseTyped
<1>1. IInv => CaseTyped
  <2> SUFFICES ASSUME IInv, slips = 0, ~alt_down, ~ctrl_down, size < MAX_CHARACTERS,
                      NEW key \in Letters
               PROVE  Effect(key) = "upper" <=> (Cardinality(held \cap Shifts) = 1 <=> ~caps_lock)
    BY DEF CaseTyped
  <2>1. size # MAX_CHARACTERS
    BY LineAssumption DEF IInv, TypeOK
  <2>2. Effect(key) = Entry(Table, key)
    BY <2>1 DEF Effect, Letters
  <2>3. Entry(Table, key) = "upper" <=> (shift_down <=> ~caps_lock)
    <3>1. shift_down \in BOOLEAN /\ caps_lock \in BOOLEAN /\ alt_down \in BOOLEAN
      BY DEF IInv, TypeOK
    <3>2. Entry(Table, key) = "upper" <=> Table \in {"scancode shifted", "CAPScode"}
      BY DEF Entry, Letters
    <3>3. CASE shift_down /\ caps_lock
      <4>1. Table = "CAPScode shifted"
        BY <3>3 DEF Table
      <4> QED BY <3>2, <3>3, <4>1
    <3>4. CASE shift_down /\ ~caps_lock
      BY <3>2, <3>4 DEF Table
    <3>5. CASE ~shift_down /\ caps_lock
      BY <3>2, <3>5 DEF Table
    <3>6. CASE ~shift_down /\ ~caps_lock
      <4>1. Table = "scancode"
        BY <3>6 DEF Table
      <4> QED BY <3>2, <3>6, <4>1
    <3> QED BY <3>1, <3>3, <3>4, <3>5, <3>6
  <2>4. shift_down <=> Cardinality(held \cap Shifts) = 1
    BY ShiftCount DEF IInv, ShiftParity, OneShift
  <2> QED BY <2>2, <2>3, <2>4
<1> QED BY <1>1, InitIInv, NextIInv, PTL DEF Spec
=============================================================================
