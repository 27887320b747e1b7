-------------------------------- MODULE Keys --------------------------------
(***************************************************************************)
(* The dispatch of handle_keyboard_input (keyboard.c): the modifiers it    *)
(* keeps, the order of its tests and the choice among the tables of        *)
(* keyboard.h.  The keyboard itself is the environment: its keys are up or *)
(* down, repeat their make code while held, and a code is lost when the    *)
(* kernel keeps interrupts off too long.  Letters, digits and F1 .. F3     *)
(* stand for the rows of the tables.                                       *)
(***************************************************************************)
EXTENDS Integers, FiniteSets

CONSTANT MAX_CHARACTERS           \* longest line (127)
ASSUME LineAssumption == MAX_CHARACTERS \in Nat

VARIABLES
    caps_lock, shift_down, ctrl_down, alt_down,
    size,          \* characters in the line of the displayed terminal
    did,           \* the effect of the key pressed last
    held,          \* the modifier keys that are down
    slips,         \* history: repeated and lost codes of the shift keys, modulo 2
    missed         \* history: of ctrl and alt, those whose last code was lost

vars == <<caps_lock, shift_down, ctrl_down, alt_down, size, did, held, slips, missed>>

Shifts == {"lshift", "rshift"}
Levels == {"ctrl", "alt"}
Letters == {"A", "L"}
OtherKeys == Letters \cup {"digit", "F", "up", "down", "left", "right", "backspace", "enter"}
Effects == {"none", "upper", "lower", "digit", "symbol", "switch", "clear",
            "up", "down", "left", "right", "backspace", "enter"}

\* The range of each variable.
TypeOK ==
    /\ caps_lock \in BOOLEAN /\ shift_down \in BOOLEAN
    /\ ctrl_down \in BOOLEAN /\ alt_down \in BOOLEAN
    /\ size \in 0 .. MAX_CHARACTERS
    /\ did \in Effects
    /\ held \subseteq Shifts \cup Levels
    /\ slips \in {0, 1}
    /\ missed \subseteq Levels

Init ==
    /\ caps_lock = FALSE /\ shift_down = FALSE /\ ctrl_down = FALSE /\ alt_down = FALSE
    /\ size = 0 /\ did = "none"
    /\ held = {} /\ slips = 0 /\ missed = {}

-----------------------------------------------------------------------------
(* Modifiers.                                                              *)

\* Mutant: the release code of the right shift key is not handled.
Toggles_no_right_release(k, pressed) == k \in Shifts /\ (pressed \/ k = "lshift")

\* LSHIFTPRESS, RSHIFTPRESS, LSHIFTRELEASE and RSHIFTRELEASE all flip shift_down.
Toggles(k, pressed) == k \in Shifts

\* The code of a modifier key arrives; those of ctrl and alt set the flag.
ModifierCode(k, pressed) ==
    /\ shift_down' = IF Toggles(k, pressed) THEN ~shift_down ELSE shift_down
    /\ ctrl_down' = IF k = "ctrl" THEN pressed ELSE ctrl_down
    /\ alt_down' = IF k = "alt" THEN pressed ELSE alt_down
    /\ missed' = missed \ {k}
    /\ UNCHANGED <<caps_lock, size, did>>

\* A key goes down, or repeats.
Press(k) ==
    /\ ModifierCode(k, TRUE)
    /\ held' = held \cup {k}
    /\ slips' = IF k \in held \cap Shifts THEN 1 - slips ELSE slips

Release(k) ==
    /\ k \in held
    /\ ModifierCode(k, FALSE)
    /\ held' = held \ {k}
    /\ UNCHANGED slips

\* A key goes down or up and its code is lost.
Lose(k) ==
    /\ held' = IF k \in held THEN held \ {k} ELSE held \cup {k}
    /\ slips' = IF k \in Shifts THEN 1 - slips ELSE slips
    /\ missed' = missed \cup ({k} \cap Levels)
    /\ UNCHANGED <<caps_lock, shift_down, ctrl_down, alt_down, size, did>>

CapsLock ==
    /\ caps_lock' = ~caps_lock
    /\ UNCHANGED <<shift_down, ctrl_down, alt_down, size, did, held, slips, missed>>

-----------------------------------------------------------------------------
(* Other keys.                                                             *)

\* Mutant: with both on, the plain half of CAPScode.
Table_caps_wins ==
    CASE alt_down -> IF shift_down \/ caps_lock THEN "scancode" ELSE "altcode shifted"
      [] caps_lock -> "CAPScode"
      [] shift_down -> "scancode shifted"
      [] OTHER -> "scancode"

\* The table and half that are looked up.
Table ==
    CASE shift_down /\ ~caps_lock /\ ~alt_down -> "scancode shifted"
      [] ~shift_down /\ caps_lock /\ ~alt_down -> "CAPScode"
      [] shift_down /\ caps_lock /\ ~alt_down -> "CAPScode shifted"
      [] ~shift_down /\ ~caps_lock /\ alt_down -> "altcode shifted"
      [] OTHER -> "scancode"

\* What the tables hold.
Entry(table, key) ==
    CASE key \in Letters -> IF table \in {"scancode shifted", "CAPScode"} THEN "upper" ELSE "lower"
      [] key = "digit" -> IF table \in {"scancode", "CAPScode"} THEN "digit" ELSE "symbol"
      [] key = "F" -> IF table = "altcode shifted" THEN "switch" ELSE "none"

\* The order of the tests: editing keys before all modifiers, ctrl before the tables, a
\* full line before the tables too, so that it takes Alt-F1 .. F3 away as well.
Effect(key) ==
    CASE key \in {"up", "down", "left", "right", "backspace", "enter"} -> key
      [] ctrl_down -> IF key = "L" THEN "clear" ELSE "none"
      [] size = MAX_CHARACTERS -> "none"
      [] OTHER -> Entry(Table, key)

\* A key that is no modifier; its release code does nothing.  A backspace with the cursor
\* at the start of the line erases nothing, and a recalled line may have any length.
Hit(key) ==
    /\ did' = Effect(key)
    /\ CASE did' \in {"upper", "lower", "digit", "symbol"} -> size' = size + 1
         [] did' = "backspace" -> size' \in {size, size - 1} \cap Nat
         [] did' \in {"enter", "clear"} -> size' = 0
         [] did' \in {"up", "down"} -> size' \in 0 .. MAX_CHARACTERS
         [] OTHER -> UNCHANGED size
    /\ UNCHANGED <<caps_lock, shift_down, ctrl_down, alt_down, held, slips, missed>>

Next == \/ \E k \in Shifts \cup Levels : Press(k) \/ Release(k) \/ Lose(k)
        \/ CapsLock
        \/ \E key \in OtherKeys : Hit(key)

Spec == Init /\ [][Next]_vars

-----------------------------------------------------------------------------
\* Modifiers recover: ctrl_down and alt_down agree with the keys unless the last code
\* of that key was lost, whatever was lost before; shift_down never does recover by
\* itself, it is the parity of the held shift keys, inverted by every repeated or lost
\* code.
ModifiersFollow ==
    /\ "ctrl" \notin missed => (ctrl_down <=> "ctrl" \in held)
    /\ "alt" \notin missed => (alt_down <=> "alt" \in held)
    /\ shift_down <=> (Cardinality(held \cap Shifts) + slips) % 2 = 1

\* While alt and ctrl are up, letters come out upper case exactly when one of caps lock
\* and a single shift key is on (the other half of CAPScode undoes it), as long as no
\* shift code slipped.
CaseTyped ==
    slips = 0 /\ ~alt_down /\ ~ctrl_down /\ size < MAX_CHARACTERS =>
        \A key \in Letters :
            Effect(key) = "upper" <=> (Cardinality(held \cap Shifts) = 1 <=> ~caps_lock)
=============================================================================
