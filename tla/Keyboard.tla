------------------------------ MODULE Keyboard ------------------------------
(***************************************************************************)
(* The keyboard driver, src/device/keyboard.c: an interrupt handler that   *)
(* turns scan code bytes into characters, a buffer of one character, and   *)
(* keyboard_read, which empties it.                                        *)
(*                                                                         *)
(* External: the keyboard with its controller.  A key is a pair of its     *)
(* scan code and the state column of keymap it belongs to: 2 for the main  *)
(* block, 3 for the grey keys, which share codes with the others and send  *)
(* the prefix 0xE0 first.  As PC keyboards do, a grey key wraps itself in  *)
(* a fake release and press of the left shift key while that one is held.  *)
(*                                                                         *)
(* The bytes wait on `wire'.  A byte is the prefix, a code above 0x5F that *)
(* the driver drops ("other", e.g. the 0xE1 of Pause), or a code with `up' *)
(* telling a release.  A byte that completes a press also carries, for the *)
(* properties only, the character a typist expects of it.                  *)
(***************************************************************************)
EXTENDS Naturals, Sequences

CONSTANTS Plain,     \* code -> character, column 0 of keymap
          Shifted,   \* code -> character, column 1 of keymap; "inv" for none
          Key        \* the keys: pairs of code and state column

Code == DOMAIN Plain
ShiftKeys == {<<"shift_l", 2>>, <<"shift_r", 2>>}

ASSUME KeyboardAssumption ==
    /\ DOMAIN Shifted = Code /\ Key \subseteq Code \X {2, 3}
    /\ ShiftKeys \subseteq Key /\ "prefix" \notin Code /\ "other" \notin Code
    /\ \A k \in ShiftKeys : Plain[k[1]] = "inv" /\ Shifted[k[1]] = "inv"

VARIABLES keymap,         \* columns 2 and 3: code -> {2, 3} -> held down
          extcode_state,  \* the last byte was the prefix
          buffer,         \* the buffered character, "inv" for none (buf_ful)
          wire,           \* external: bytes not yet read from port 0x60
          held,           \* external: the keys really held down
          fresh           \* history: characters typed since the last read

kbdVars == <<keymap, extcode_state, buffer, wire, held, fresh>>

KeyboardInit ==
    /\ keymap = [k \in Code |-> [i \in {2, 3} |-> FALSE]]
    /\ extcode_state = FALSE /\ buffer = "inv"
    /\ wire = <<>> /\ held = {} /\ fresh = <<>>

-----------------------------------------------------------------------------
(* What a typist expects of a key: its shifted character while a shift key *)
(* is really held; of the grey keys only the slash has one of its own.     *)
Expected(k) ==
    IF (k[2] = 3 /\ k[1] # "slash") \/ held \cap ShiftKeys # {}
    THEN Shifted[k[1]] ELSE Plain[k[1]]

Byte(c, u, ch) == [code |-> c, up |-> u, ch |-> ch]
Prefix == Byte("prefix", FALSE, "inv")

FakeShift(k, u) ==
    IF k[2] = 3 /\ <<"shift_l", 2>> \in held
    THEN <<Prefix, Byte("shift_l", u, "inv")>> ELSE <<>>

Sent(k, u, ch) == (IF k[2] = 3 THEN <<Prefix>> ELSE <<>>) \o <<Byte(k[1], u, ch)>>

(* A key goes down, or repeats while it is held. *)
Press(k) ==
    /\ held' = held \cup {k}
    /\ wire' = wire \o FakeShift(k, TRUE) \o Sent(k, FALSE, Expected(k))
    /\ UNCHANGED <<keymap, extcode_state, buffer, fresh>>

Release(k) ==
    /\ k \in held
    /\ held' = held \ {k}
    /\ wire' = wire \o Sent(k, TRUE, "inv") \o FakeShift(k, FALSE)
    /\ UNCHANGED <<keymap, extcode_state, buffer, fresh>>

OtherKey ==
    /\ wire' = Append(wire, Byte("other", FALSE, "inv"))
    /\ UNCHANGED <<keymap, extcode_state, buffer, held, fresh>>

-----------------------------------------------------------------------------
\* Mutant of shift_state: the prefixed codes count too.
shift_stateAnyColumn(map) == \E c \in {"shift_l", "shift_r"}, i \in {2, 3} : map[c][i]
shift_state(map) == map["shift_l"][2] \/ map["shift_r"][2]

(* The character of a code in state column ext (keyboard.c:308-331); caps  *)
(* lock is never set.                                                      *)
CharOf(map, c, ext) ==
    IF (ext = 3 /\ c # "slash") \/ shift_state(map) THEN Shifted[c] ELSE Plain[c]

\* Mutant of KeyboardHandler: buf_ful is not tested.
KeyboardHandlerOverwrites ==
    LET b == Head(wire)
        ext == IF extcode_state THEN 3 ELSE 2
        map == [keymap EXCEPT ![b.code][ext] = ~b.up]
    IN  /\ wire # <<>>
        /\ wire' = Tail(wire)
        /\ extcode_state' = (b.code = "prefix")
        /\ IF b.code \notin Code
           THEN UNCHANGED <<keymap, buffer, fresh>>
           ELSE /\ keymap' = map
                /\ buffer' = IF b.up THEN buffer ELSE CharOf(map, b.code, ext)
                /\ fresh' = IF b.ch = "inv" THEN fresh ELSE Append(fresh, b.ch)
        /\ UNCHANGED held

(* keyboard_handler: one byte, run to its end with interrupts off. *)
KeyboardHandler ==
    LET b == Head(wire)
        ext == IF extcode_state THEN 3 ELSE 2
        map == [keymap EXCEPT ![b.code][ext] = ~b.up]
    IN  /\ wire # <<>>
        /\ wire' = Tail(wire)
        /\ extcode_state' = (b.code = "prefix")
        /\ IF b.code \notin Code
           THEN UNCHANGED <<keymap, buffer, fresh>>
           ELSE /\ keymap' = map
                /\ buffer' = IF b.up \/ buffer # "inv" THEN buffer
                             ELSE CharOf(map, b.code, ext)
                /\ fresh' = IF b.ch = "inv" THEN fresh ELSE Append(fresh, b.ch)
        /\ UNCHANGED held

(* keyboard_read: takes the buffered character, if there is one. *)
KeyboardRead ==
    /\ buffer' = "inv"
    /\ fresh' = <<>>
    /\ UNCHANGED <<keymap, extcode_state, wire, held>>

KeyboardTypeOK ==
    /\ keymap \in [Code -> [{2, 3} -> BOOLEAN]]
    /\ extcode_state \in BOOLEAN
    /\ buffer \in {Plain[k] : k \in Code} \cup {Shifted[k] : k \in Code} \cup {"inv"}
    /\ held \subseteq Key

(* The buffer holds the oldest character typed since the last read, as the *)
(* typist meant it: later ones are dropped, never put in its place, and    *)
(* neither the prefix, a fake shift nor a code to skip changes its case.   *)
KeepsOldest == buffer = IF fresh = <<>> THEN "inv" ELSE Head(fresh)

(* When every byte has been handled the driver's idea of the shift keys is *)
(* the truth, and no prefix is pending.                                    *)
ShiftIsPhysical ==
    wire = <<>> => /\ shift_state(keymap) = (held \cap ShiftKeys # {})
                   /\ ~extcode_state
=============================================================================
