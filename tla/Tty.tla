-------------------------------- MODULE Tty --------------------------------
(***************************************************************************)
(* The text screen driver, src/device/tty.c.  Video memory is a matrix of  *)
(* ROWS x COLS characters (25 x 80); the driver keeps the cursor (high,    *)
(* width), writes at the cursor and only afterwards wraps and scrolls.     *)
(* A string is printed character by character with interrupts off          *)
(* (tty_write is reached through int 0x80), so one action stands for one   *)
(* turn of the loop in tty_print.  Colours and the hardware cursor         *)
(* (sync_cursor) are left out.                                             *)
(*                                                                         *)
(* `paper' is a history variable: an endless sheet on which the same text  *)
(* is written without ever scrolling.  It starts with the ROWS lines of    *)
(* the cleared screen and grows by a line whenever text goes past its end. *)
(***************************************************************************)
EXTENDS Integers, Sequences

CONSTANTS ROWS,     \* lines of the screen: 25
          COLS,     \* characters in a line: 80
          TAB,      \* columns a tab skips: 8
          Glyph     \* the printable characters '!' .. '~'

Control == {"nl", "sp", "bs", "ht", "bel"}   \* "bel": any other control character

ASSUME TtyAssumption ==
    /\ ROWS \in Nat \ {0}
    /\ COLS \in Nat \ {0}
    /\ TAB \in Nat
    /\ Glyph \cap Control = {}

VARIABLES high, width,   \* the cursor: line and column
          screen,        \* video memory
          paper          \* history: the endless sheet

ttyVars == <<high, width, screen, paper>>

Char == Glyph \cup Control
Row == 0 .. ROWS - 1
Column == 0 .. COLS - 1
Line == [Column -> Glyph \cup {"sp", "nul"}]
Blank == [c \in Column |-> "sp"]

(* tty_init: the cursor in the corner, every cell 0. *)
TtyInit ==
    /\ high = 0 /\ width = 0
    /\ screen = [r \in Row |-> [c \in Column |-> "nul"]]
    /\ paper = [n \in 1 .. ROWS |-> [c \in Column |-> "nul"]]

(* The cursor after the switch: a line end, a blank, a backspace, a tab, a *)
(* glyph; then the wrap of a line that is full (tty.c:57-61).              *)
Moved(c) ==
    IF c = "nl" THEN <<high + 1, 0>>
    ELSE IF c = "bs" THEN <<high, IF width = 0 THEN 0 ELSE width - 1>>
    ELSE <<high, width + (IF c = "ht" THEN TAB ELSE IF c = "bel" THEN 0 ELSE 1)>>

\* Mutant of Wrapped: the width is compared with > instead of >=.
WrappedLate(p) == IF p[2] > COLS THEN <<p[1] + 1, 0>> ELSE p
Wrapped(p) == IF p[2] >= COLS THEN <<p[1] + 1, 0>> ELSE p

(* What is stored at the cursor: a glyph there, a blank before it for a    *)
(* backspace; `sp' and `ht' move over the cells without clearing them.     *)
Marked(line, c) ==
    IF c \in Glyph THEN [line EXCEPT ![width] = c]
    ELSE IF c = "bs" /\ width > 0 THEN [line EXCEPT ![width - 1] = "sp"]
    ELSE line

(* tty.c:62-68: everything moves up one line, the last one is blanked.     *)
Scrolled(s) == [r \in Row |-> IF r = ROWS - 1 THEN Blank ELSE s[r + 1]]

(* The line of the sheet the cursor is on. *)
Top == Len(paper) - ROWS
Written(c) == [paper EXCEPT ![Top + high + 1] = Marked(@, c)]

(* One turn of the loop of tty_print. *)
TtyPrint(c) ==
    LET p == Wrapped(Moved(c))
        s == [screen EXCEPT ![high] = Marked(@, c)]
    IN  /\ IF p[1] >= ROWS
           THEN high' = ROWS - 1 /\ width' = 0 /\ screen' = Scrolled(s)
           ELSE high' = p[1] /\ width' = p[2] /\ screen' = s
        /\ paper' = IF p[1] >= ROWS THEN Append(Written(c), Blank) ELSE Written(c)

TtySpec == TtyInit /\ [][\E c \in Char : TtyPrint(c)]_ttyVars

TtyTypeOK ==
    /\ high \in Nat /\ width \in Nat
    /\ screen \in [Row -> Line]
    /\ paper \in Seq(Line)

(* The cursor is on the screen before every character: no store of         *)
(* tty_print (tty.c:47,54) leaves video memory, whatever mix of tabs,      *)
(* backspaces and line ends came before; and the screen shows exactly the  *)
(* last ROWS lines of everything ever printed.                             *)
ShowsTail ==
    /\ high < ROWS /\ width < COLS
    /\ Len(paper) >= ROWS
    /\ \A r \in Row : screen[r] = paper[Top + r + 1]
=============================================================================
