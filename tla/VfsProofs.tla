----------------------------- MODULE VfsProofs -----------------------------
(***************************************************************************)
(* The screen, the keyboard and the file layer, for every size of screen,  *)
(* keymap, sequence of keys, set of tasks, paths, nodes and FILs and every *)
(* size of the tables.  The invariant has four parts: the screen (TtyInv), *)
(* the keyboard (KeyInv), the registry with the nodes (NodeInv), the       *)
(* descriptors with their FILs (OpenInv).                                  *)
(***************************************************************************)
EXTENDS Vfs, SequenceTheorems, FiniteSetTheorems, WellFoundedInduction, TLAPS

-----------------------------------------------------------------------------
(* The screen: for every size and every tab width the cursor of tty_print  *)
(* stays on it, and it shows the end of what was printed.  That is         *)
(* inductive together with the types.                                      *)
TtyInv == TtyTypeOK /\ ShowsTail

LEMMA BlankLine == Blank \in Line
BY DEF Blank, Line

LEMMA MarkedLine ==
    ASSUME NEW line \in Line, NEW c \in Char
    PROVE  Marked(line, c) \in Line
BY DEF Marked, Line, Char

(* Where the cursor would be: at most one line below the screen.           *)
LEMMA WrappedInside ==
    ASSUME TtyInv, NEW c \in Char
    PROVE  LET p == Wrapped(Moved(c))
           IN  p[1] \in Nat /\ p[2] \in Nat /\ p[1] <= ROWS /\ p[2] < COLS
<1> DEFINE m == Moved(c)
<1>1. high \in Nat /\ width \in Nat /\ high < ROWS /\ width < COLS
  BY DEF TtyInv, TtyTypeOK, ShowsTail
<1>2. /\ m[1] \in Nat /\ m[2] \in Nat /\ m[1] <= high + 1
      /\ m[1] = high + 1 => m[2] = 0
  BY <1>1, TtyAssumption DEF Moved
<1> HIDE DEF m
<1>3. CASE m[2] >= COLS
  <2>1. Wrapped(m) = <<m[1] + 1, 0>> /\ m[1] <= high
    BY <1>1, <1>2, <1>3, TtyAssumption DEF Wrapped
  <2> QED
    BY <2>1, <1>1, <1>2, TtyAssumption DEF m
<1>4. CASE ~(m[2] >= COLS)
  <2>1. Wrapped(m) = m
    BY <1>4 DEF Wrapped
  <2> QED
    BY <2>1, <1>1, <1>2, <1>4, TtyAssumption DEF m
<1> QED
  BY <1>3, <1>4

LEMMA TtyInitInv == TtyInit => TtyInv
<1> SUFFICES ASSUME TtyInit PROVE TtyInv
  OBVIOUS
<1> DEFINE nuls == [c \in Column |-> "nul"]
<1>1. nuls \in Line
  BY DEF Line
<1> HIDE DEF nuls
<1>2. paper = [n \in 1 .. ROWS |-> nuls] /\ screen = [r \in Row |-> nuls]
  BY DEF TtyInit, nuls
<1>3. ROWS \in Nat /\ paper \in Seq(Line) /\ Len(paper) = ROWS
  BY <1>1, <1>2, TtyAssumption
<1>4. screen \in [Row -> Line]
  BY <1>1, <1>2
<1>5. \A r \in Row : screen[r] = paper[Top + r + 1]
  BY <1>2, <1>3 DEF Top, Row
<1>6. high = 0 /\ width = 0 /\ ROWS > 0 /\ COLS > 0
  BY TtyAssumption DEF TtyInit
<1>7. TtyTypeOK
  BY <1>3, <1>4, <1>6 DEF TtyTypeOK
<1>8. ShowsTail
  BY <1>3, <1>5, <1>6, TtyAssumption DEF ShowsTail
<1> QED
  BY <1>7, <1>8 DEF TtyInv

(* A character changes the line of the cursor, on the screen as on the     *)
(* sheet.                                                                  *)
LEMMA WrittenSheet ==
    ASSUME TtyInv, NEW c \in Char
    PROVE  LET s == [screen EXCEPT ![high] = Marked(@, c)]
           IN  /\ s \in [Row -> Line]
               /\ Written(c) \in Seq(Line) /\ Len(Written(c)) = Len(paper)
               /\ \A r \in Row : s[r] = Written(c)[Top + r + 1]
<1> DEFINE s == [screen EXCEPT ![high] = Marked(@, c)]
<1>1. high \in Row /\ ROWS \in Nat /\ Len(paper) \in Nat /\ Len(paper) >= ROWS
  BY TtyAssumption DEF TtyInv, TtyTypeOK, ShowsTail, Row
<1>2. screen \in [Row -> Line] /\ paper \in Seq(Line)
  BY DEF TtyInv, TtyTypeOK
<1>3. Top + high + 1 \in 1 .. Len(paper)
  BY <1>1 DEF Top, Row
<1>4. screen[high] = paper[Top + high + 1] /\ screen[high] \in Line
  BY <1>1, <1>2 DEF TtyInv, ShowsTail
<1>5. Marked(screen[high], c) \in Line
  BY <1>4, MarkedLine
<1>6. Written(c) \in Seq(Line) /\ Len(Written(c)) = Len(paper)
  BY <1>2, <1>3, <1>4, <1>5 DEF Written
<1>7. ASSUME NEW r \in Row
      PROVE  s[r] = Written(c)[Top + r + 1]
  <2>1. screen[r] = paper[Top + r + 1] /\ Top + r + 1 \in 1 .. Len(paper)
    BY <1>1 DEF TtyInv, ShowsTail, Top, Row
  <2>2. r = high <=> Top + r + 1 = Top + high + 1
    BY <1>1 DEF Top, Row
  <2> QED
    BY <2>1, <2>2, <1>1, <1>2, <1>3, <1>4 DEF Written
<1> QED
  BY <1>1, <1>2, <1>5, <1>6, <1>7

LEMMA TtyPrintInv ==
    ASSUME TtyInv, NEW c \in Char, TtyPrint(c)
    PROVE  TtyInv'
<1> DEFINE p == Wrapped(Moved(c))
           s == [screen EXCEPT ![high] = Marked(@, c)]
           w == Written(c)
<1>1. p[1] \in Nat /\ p[2] \in Nat /\ p[1] <= ROWS /\ p[2] < COLS
  BY WrappedInside
<1>2. /\ s \in [Row -> Line]
      /\ w \in Seq(Line) /\ Len(w) = Len(paper)
      /\ \A r \in Row : s[r] = w[Top + r + 1]
  BY WrittenSheet
<1>3. /\ IF p[1] >= ROWS
         THEN high' = ROWS - 1 /\ width' = 0 /\ screen' = Scrolled(s)
         ELSE high' = p[1] /\ width' = p[2] /\ screen' = s
      /\ paper' = IF p[1] >= ROWS THEN Append(w, Blank) ELSE w
  BY DEF TtyPrint
<1>4. ROWS \in Nat \ {0} /\ COLS \in Nat \ {0} /\ Len(paper) \in Nat /\ Len(paper) >= ROWS
  BY TtyAssumption DEF TtyInv, TtyTypeOK, ShowsTail
<1> HIDE DEF p, s, w
<1>5. CASE p[1] < ROWS
  <2>1. high' = p[1] /\ width' = p[2] /\ screen' = s /\ paper' = w
    BY <1>1, <1>3, <1>4, <1>5
  <2> QED
    BY <2>1, <1>1, <1>2, <1>4, <1>5 DEF TtyInv, TtyTypeOK, ShowsTail, Top
<1>6. CASE p[1] >= ROWS
  <2>1. high' = ROWS - 1 /\ width' = 0 /\ screen' = Scrolled(s) /\ paper' = Append(w, Blank)
    BY <1>3, <1>6
  <2>2. screen' \in [Row -> Line]
    BY <2>1, <1>2, <1>4, BlankLine DEF Scrolled, Row
  <2>3. paper' \in Seq(Line) /\ Len(paper') = Len(paper) + 1
    BY <2>1, <1>2, BlankLine
  <2>4. ASSUME NEW r \in Row
        PROVE  screen'[r] = paper'[Top' + r + 1]
    <3>1. Top' = Top + 1
      BY <2>3, <1>4 DEF Top
    <3>2. CASE r = ROWS - 1
      <4>1. screen'[r] = Blank
        BY <3>2, <2>1 DEF Scrolled
      <4>2. Top' + r + 1 = Len(w) + 1
        BY <3>1, <3>2, <1>2, <1>4 DEF Top
      <4>3. paper'[Len(w) + 1] = Blank
        BY <2>1, <1>2, BlankLine
      <4> QED
        BY <4>1, <4>2, <4>3
    <3>3. CASE r # ROWS - 1
      <4>1. r + 1 \in Row /\ Top + (r + 1) + 1 \in 1 .. Len(w)
        BY <3>3, <1>2, <1>4 DEF Row, Top
      <4>2. screen'[r] = w[Top + (r + 1) + 1]
        BY <4>1, <3>3, <2>1, <1>2 DEF Scrolled
      <4>3. paper'[Top + (r + 1) + 1] = w[Top + (r + 1) + 1]
        BY <4>1, <2>1, <1>2
      <4>4. Top' + r + 1 = Top + (r + 1) + 1
        BY <3>1, <1>4 DEF Top, Row
      <4> QED
        BY <4>2, <4>3, <4>4
    <3> QED
      BY <3>2, <3>3
  <2>5. high' \in Nat /\ width' \in Nat /\ high' < ROWS /\ width' < COLS
    BY <2>1, <1>4
  <2>6. TtyTypeOK'
    BY <2>2, <2>3, <2>5 DEF TtyTypeOK
  <2>7. Len(paper') >= ROWS
    BY <2>3, <1>4
  <2>8. ShowsTail'
    BY <2>4, <2>5, <2>7 DEF ShowsTail
  <2> QED
    BY <2>6, <2>8 DEF TtyInv
<1> QED
  BY <1>1, <1>4, <1>5, <1>6

(* The cursor never leaves the screen, which shows the last lines of what  *)
(* was printed (tty.c:31-71).                                              *)
THEOREM ScreenCorrect == TtySpec => []ShowsTail
<1>1. TtyInit => TtyInv
  BY TtyInitInv
<1>2. TtyInv /\ [\E c \in Char : TtyPrint(c)]_ttyVars => TtyInv'
  <2> SUFFICES ASSUME TtyInv, [\E c \in Char : TtyPrint(c)]_ttyVars PROVE TtyInv'
    OBVIOUS
  <2>1. CASE \E c \in Char : TtyPrint(c)
    BY <2>1, TtyPrintInv
  <2>2. CASE UNCHANGED ttyVars
    BY <2>2 DEF ttyVars, TtyInv, TtyTypeOK, ShowsTail, Top
  <2> QED
    BY <2>1, <2>2
<1>3. TtyInv => ShowsTail
  BY DEF TtyInv
<1> QED
  BY <1>1, <1>2, <1>3, PTL DEF TtySpec

-----------------------------------------------------------------------------
(* The keyboard: for every keymap and every sequence of keys the handler   *)
(* ends in the state of the keys really held, and the buffer holds the     *)
(* oldest character typed, as it was meant.                                *)
(*                                                                         *)
(* What the bytes on their way will do is stated by the states they lead   *)
(* through (Leads): the invariant says that the last one of these is the   *)
(* truth, and that each byte that completes a press means, in the state    *)
(* it will find, the character the typist expects.                         *)
Letters == {Plain[k] : k \in Code} \cup {Shifted[k] : k \in Code} \cup {"inv"}
Bytes == [code : Code \cup {"prefix", "other"}, up : BOOLEAN, ch : Letters]
KState == [map : [Code -> [{2, 3} -> BOOLEAN]], ext : BOOLEAN]
Now == [map |-> keymap, ext |-> extcode_state]

Ext(s) == IF s.ext THEN 3 ELSE 2

(* The state after byte b, and whether b carries what it means then.       *)
Then(s, b) ==
    [map |-> IF b.code \in Code THEN [s.map EXCEPT ![b.code][Ext(s)] = ~b.up] ELSE s.map,
     ext |-> (b.code = "prefix")]
Meant(s, b) ==
    b.code \in Code =>
        b.ch = IF b.up THEN "inv" ELSE CharOf(Then(s, b).map, b.code, Ext(s))

(* The bytes w lead from state a to state z. *)
Leads(w, a, z) ==
    \E run \in [0 .. Len(w) -> KState] :
        /\ run[0] = a /\ run[Len(w)] = z
        /\ \A i \in 1 .. Len(w) : run[i] = Then(run[i - 1], w[i]) /\ Meant(run[i - 1], w[i])

(* State z agrees with the shift keys in set h. *)
Truth(z, h) == ~z.ext /\ \A k \in ShiftKeys : z.map[k[1]][2] = (k \in h)

KeyInv ==
    /\ KeyboardTypeOK /\ KeepsOldest
    /\ wire \in Seq(Bytes) /\ fresh \in Seq(Letters)
    /\ fresh # <<>> => Head(fresh) # "inv"
    /\ \E z \in KState : Leads(wire, Now, z) /\ Truth(z, held)

-----------------------------------------------------------------------------
LEMMA ThenType ==
    ASSUME NEW s \in KState, NEW b \in Bytes
    PROVE  Then(s, b) \in KState
<1>1. s.map \in [Code -> [{2, 3} -> BOOLEAN]] /\ b.up \in BOOLEAN /\ Ext(s) \in {2, 3}
  BY DEF KState, Bytes, Ext
<1>2. ASSUME b.code \in Code
      PROVE  [s.map EXCEPT ![b.code][Ext(s)] = ~b.up] \in [Code -> [{2, 3} -> BOOLEAN]]
  BY <1>1, <1>2
<1> QED
  BY <1>1, <1>2 DEF Then, KState

(* One byte more. *)
LEMMA LeadsAppend ==
    ASSUME NEW w \in Seq(Bytes), NEW a \in KState, NEW z \in KState, NEW b \in Bytes,
           Leads(w, a, z), Meant(z, b)
    PROVE  Leads(Append(w, b), a, Then(z, b))
<1> DEFINE n == Len(w)
           v == Append(w, b)
<1>1. PICK run \in [0 .. n -> KState] :
        /\ run[0] = a /\ run[n] = z
        /\ \A i \in 1 .. n : run[i] = Then(run[i - 1], w[i]) /\ Meant(run[i - 1], w[i])
  BY DEF Leads
<1>2. n \in Nat /\ Len(v) = n + 1 /\ v[n + 1] = b /\ \A i \in 1 .. n : v[i] = w[i]
  OBVIOUS
<1> DEFINE more == [i \in 0 .. n + 1 |-> IF i = n + 1 THEN Then(z, b) ELSE run[i]]
<1> HIDE DEF v, n
<1>3. more \in [0 .. n + 1 -> KState] /\ more[0] = a /\ more[n + 1] = Then(z, b)
  BY <1>1, <1>2, ThenType
<1>4. \A i \in 0 .. n : more[i] = run[i]
  BY <1>2
<1>5. ASSUME NEW i \in 1 .. n + 1
      PROVE  more[i] = Then(more[i - 1], v[i]) /\ Meant(more[i - 1], v[i])
  <2>1. CASE i = n + 1
    <3>1. more[i - 1] = z
      BY <2>1, <1>1, <1>2, <1>4
    <3> QED
      BY <2>1, <3>1, <1>2, <1>3
  <2>2. CASE i # n + 1
    <3>1. i \in 1 .. n /\ i - 1 \in 0 .. n /\ i \in 0 .. n
      BY <2>2, <1>2
    <3> QED
      BY <3>1, <1>1, <1>2, <1>4
  <2> QED
    BY <2>1, <2>2
<1> HIDE DEF more
<1> QED
  BY <1>2, <1>3, <1>5 DEF Leads, v

(* The first byte handled. *)
LEMMA LeadsTail ==
    ASSUME NEW w \in Seq(Bytes), w # <<>>, NEW a \in KState, NEW z \in KState, Leads(w, a, z)
    PROVE  Meant(a, Head(w)) /\ Leads(Tail(w), Then(a, Head(w)), z)
<1> DEFINE n == Len(w)
           v == Tail(w)
<1>1. PICK run \in [0 .. n -> KState] :
        /\ run[0] = a /\ run[n] = z
        /\ \A i \in 1 .. n : run[i] = Then(run[i - 1], w[i]) /\ Meant(run[i - 1], w[i])
  BY DEF Leads
<1>2. n \in Nat \ {0} /\ Len(v) = n - 1 /\ Head(w) = w[1] /\ \A i \in 1 .. n - 1 : v[i] = w[i + 1]
  BY HeadTailProperties
<1> DEFINE rest == [i \in 0 .. n - 1 |-> run[i + 1]]
<1> HIDE DEF v, n
<1>3. rest \in [0 .. n - 1 -> KState]
  BY <1>1, <1>2
<1>4. Meant(a, Head(w)) /\ rest[0] = Then(a, Head(w)) /\ rest[n - 1] = z
  BY <1>1, <1>2
<1>5. ASSUME NEW i \in 1 .. n - 1
      PROVE  rest[i] = Then(rest[i - 1], v[i]) /\ Meant(rest[i - 1], v[i])
  <2>1. rest[i] = run[i + 1] /\ rest[i - 1] = run[i] /\ i + 1 \in 1 .. n /\ (i + 1) - 1 = i
    BY <1>2
  <2> QED
    BY <2>1, <1>1, <1>2
<1> HIDE DEF rest
<1> QED
  BY <1>2, <1>3, <1>4, <1>5 DEF Leads, v

LEMMA LeadsNowhere ==
    ASSUME NEW a, NEW z, Leads(<<>>, a, z)
    PROVE  a = z
BY DEF Leads

-----------------------------------------------------------------------------
(* What the keyboard puts on the wire.                                     *)
LEMMA KeyShape ==
    ASSUME NEW k \in Key
    PROVE  k[1] \in Code /\ k[2] \in {2, 3} /\ k = <<k[1], k[2]>>
BY KeyboardAssumption

LEMMA ShiftCodes == "shift_l" \in Code /\ "shift_r" \in Code
<1>1. <<"shift_l", 2>> \in Key /\ <<"shift_r", 2>> \in Key
  BY KeyboardAssumption DEF ShiftKeys
<1> QED
  BY <1>1, KeyboardAssumption

LEMMA ByteTypes ==
    /\ Prefix \in Bytes
    /\ \A c \in Code, u \in BOOLEAN, ch \in Letters : Byte(c, u, ch) \in Bytes
    /\ Byte("other", FALSE, "inv") \in Bytes
BY DEF Prefix, Byte, Bytes, Letters

LEMMA AppendOne ==
    ASSUME NEW w \in Seq(Bytes), NEW x \in Bytes
    PROVE  w \o <<x>> = Append(w, x)
OBVIOUS

LEMMA AppendTwo ==
    ASSUME NEW w \in Seq(Bytes), NEW x \in Bytes, NEW y \in Bytes
    PROVE  w \o <<x, y>> = Append(Append(w, x), y)
<1> DEFINE l == w \o <<x, y>>
           r == Append(Append(w, x), y)
<1>1. l \in Seq(Bytes) /\ r \in Seq(Bytes) /\ Len(l) = Len(w) + 2 /\ Len(r) = Len(w) + 2
  OBVIOUS
<1>2. \A i \in 1 .. Len(l) : l[i] = r[i]
  OBVIOUS
<1> HIDE DEF l, r
<1> QED
  BY <1>1, <1>2, SeqEqual

(* The prefix, then a byte that it sends to the second column. *)
LEMMA LeadsPrefixed ==
    ASSUME NEW w \in Seq(Bytes), NEW a \in KState, NEW z \in KState, Leads(w, a, z),
           NEW b \in Bytes,
           Meant([map |-> z.map, ext |-> TRUE], b)
    PROVE  Leads(w \o <<Prefix, b>>, a, Then([map |-> z.map, ext |-> TRUE], b))
<1> DEFINE x == [map |-> z.map, ext |-> TRUE]
           v == Append(w, Prefix)
<1>1. Prefix \in Bytes /\ Prefix.code = "prefix" /\ "prefix" \notin Code
  BY ByteTypes, KeyboardAssumption DEF Prefix, Byte
<1>2. x = Then(z, Prefix) /\ Meant(z, Prefix)
  BY <1>1 DEF Then, Meant
<1>3. Then(z, Prefix) \in KState
  BY <1>1, ThenType
<1>4. Leads(v, a, Then(z, Prefix))
  BY <1>1, <1>2, LeadsAppend
<1>5. v \in Seq(Bytes)
  BY <1>1
<1>6. w \o <<Prefix, b>> = Append(v, b)
  BY <1>1, AppendTwo
<1>7. x \in KState /\ Leads(v, a, x) /\ Meant(x, b)
  BY <1>2, <1>3, <1>4
<1> HIDE DEF x, v
<1>8. Leads(Append(v, b), a, Then(x, b))
  BY <1>5, <1>7, LeadsAppend
<1> QED
  BY <1>6, <1>8 DEF x

LEMMA PairOfBytes ==
    ASSUME NEW w \in Seq(Bytes), NEW b \in Bytes
    PROVE  w \o <<Prefix, b>> \in Seq(Bytes)
<1>1. Prefix \in Bytes
  BY ByteTypes
<1>2. Append(Append(w, Prefix), b) \in Seq(Bytes)
  BY <1>1
<1> QED
  BY <1>1, <1>2, AppendTwo

LEMMA PairConcat ==
    ASSUME NEW x \in Bytes, NEW y \in Bytes
    PROVE  <<x>> \o <<y>> = <<x, y>>
<1> DEFINE l == <<x>> \o <<y>>
           r == <<x, y>>
<1>1. <<x>> \in Seq(Bytes) /\ <<y>> \in Seq(Bytes)
  OBVIOUS
<1>2. l \in Seq(Bytes) /\ Len(l) = 2 /\ l[1] = x /\ l[2] = y
  BY <1>1, ConcatProperties
<1>3. r \in Seq(Bytes) /\ Len(r) = 2 /\ r[1] = x /\ r[2] = y
  OBVIOUS
<1> HIDE DEF l, r
<1>4. \A i \in 1 .. 2 : l[i] = r[i]
  BY <1>2, <1>3
<1> QED
  <2>1. l = r
    BY <1>2, <1>3, <1>4, SeqEqual
  <2> QED
    BY <2>1 DEF l, r

(* The state with column i of code c set to up. *)
Put(s, c, i, up) == [map |-> [s.map EXCEPT ![c][i] = up], ext |-> FALSE]

LEMMA PutType ==
    ASSUME NEW s \in KState, NEW c \in Code, NEW i \in {2, 3}, NEW up \in BOOLEAN
    PROVE  Put(s, c, i, up) \in KState
<1>1. s.map \in [Code -> [{2, 3} -> BOOLEAN]]
  BY DEF KState
<1>2. [s.map EXCEPT ![c][i] = up] \in [Code -> [{2, 3} -> BOOLEAN]]
  BY <1>1
<1> QED
  BY <1>2 DEF Put, KState

(* A key with its prefix, if it has one. *)
LEMMA LeadsSent ==
    ASSUME NEW w \in Seq(Bytes), NEW a \in KState, NEW z \in KState, Leads(w, a, z), ~z.ext,
           NEW k \in Key, NEW u \in BOOLEAN, NEW ch \in Letters,
           ch = IF u THEN "inv" ELSE CharOf(Put(z, k[1], k[2], ~u).map, k[1], k[2])
    PROVE  /\ w \o Sent(k, u, ch) \in Seq(Bytes)
           /\ Leads(w \o Sent(k, u, ch), a, Put(z, k[1], k[2], ~u))
<1> DEFINE b == Byte(k[1], u, ch)
<1>1. k[1] \in Code /\ k[2] \in {2, 3} /\ b \in Bytes
  BY KeyShape, ByteTypes
<1>2. b.code = k[1] /\ b.up = u /\ b.ch = ch /\ k[1] # "prefix"
  BY <1>1, KeyboardAssumption DEF Byte
<1>3. CASE k[2] = 2
  <2>1. Sent(k, u, ch) = <<b>>
    BY <1>3 DEF Sent
  <2>2. w \o <<b>> = Append(w, b) /\ Append(w, b) \in Seq(Bytes)
    BY <1>1, AppendOne
  <2>3. Then(z, b) = Put(z, k[1], k[2], ~u) /\ Meant(z, b)
    BY <1>1, <1>2, <1>3 DEF Then, Meant, Ext, Put
  <2>4. Leads(Append(w, b), a, Then(z, b))
    BY <2>3, <1>1, LeadsAppend
  <2> QED
    BY <2>1, <2>2, <2>3, <2>4
<1>4. CASE k[2] = 3
  <2> DEFINE x == [map |-> z.map, ext |-> TRUE]
  <2>1. Sent(k, u, ch) = <<Prefix>> \o <<b>>
    BY <1>4 DEF Sent
  <2>2. <<Prefix>> \o <<b>> = <<Prefix, b>>
    BY <1>1, ByteTypes, PairConcat
  <2>3. Then(x, b) = Put(z, k[1], k[2], ~u) /\ Meant(x, b)
    BY <1>1, <1>2, <1>4 DEF Then, Meant, Ext, Put
  <2>4. Leads(w \o <<Prefix, b>>, a, Then(x, b))
    BY <2>3, <1>1, LeadsPrefixed
  <2>5. w \o <<Prefix, b>> \in Seq(Bytes)
    BY <1>1, PairOfBytes
  <2> QED
    BY <2>1, <2>2, <2>3, <2>4, <2>5
<1> QED
  BY <1>1, <1>3, <1>4

(* A fake shift changes only the state of the prefixed code. *)
LEMMA LeadsFake ==
    ASSUME NEW w \in Seq(Bytes), NEW a \in KState, NEW z \in KState, Leads(w, a, z), ~z.ext,
           NEW k \in Key, NEW u \in BOOLEAN
    PROVE  /\ w \o FakeShift(k, u) \in Seq(Bytes)
           /\ \E y \in KState : /\ Leads(w \o FakeShift(k, u), a, y) /\ ~y.ext
                                /\ \A q \in ShiftKeys : y.map[q[1]][2] = z.map[q[1]][2]
<1> DEFINE b == Byte("shift_l", u, "inv")
<1>1. CASE FakeShift(k, u) = <<>>
  <2>1. w \o FakeShift(k, u) = w
    BY <1>1, ConcatEmptySeq
  <2> QED
    BY <2>1
<1>2. CASE FakeShift(k, u) # <<>>
  <2> DEFINE x == [map |-> z.map, ext |-> TRUE]
             y == Put(z, "shift_l", 3, ~u)
  <2>1. FakeShift(k, u) = <<Prefix, b>>
    BY <1>2 DEF FakeShift
  <2>2. b \in Bytes /\ "shift_l" \in Code
    BY ByteTypes, ShiftCodes DEF Letters
  <2>3. b.code = "shift_l" /\ b.up = u /\ b.ch = "inv" /\ "shift_l" # "prefix"
    BY DEF Byte
  <2>4. \A map : CharOf(map, "shift_l", 3) = "inv"
    BY KeyboardAssumption DEF CharOf, ShiftKeys
  <2>5. Then(x, b) = y /\ Meant(x, b)
    BY <2>2, <2>3, <2>4 DEF Then, Meant, Ext, Put
  <2>6. Leads(w \o <<Prefix, b>>, a, y)
    BY <2>2, <2>5, LeadsPrefixed
  <2>7. w \o <<Prefix, b>> \in Seq(Bytes)
    BY <2>2, PairOfBytes
  <2>8. y \in KState /\ ~y.ext
    BY <2>2, PutType DEF Put
  <2>9. \A q \in ShiftKeys : y.map[q[1]][2] = z.map[q[1]][2]
    <3>1. z.map \in [Code -> [{2, 3} -> BOOLEAN]]
      BY DEF KState
    <3> QED
      BY <3>1, ShiftCodes DEF ShiftKeys, Put
  <2> HIDE DEF y, b
  <2> QED
    BY <2>1, <2>6, <2>7, <2>8, <2>9
<1> QED
  BY <1>1, <1>2

-----------------------------------------------------------------------------
(* Column 2 of the shift codes is all the shift state there is.            *)
LEMMA ShiftOf ==
    ASSUME NEW z \in KState, NEW h, Truth(z, h)
    PROVE  shift_state(z.map) = (h \cap ShiftKeys # {})
BY DEF Truth, shift_state, ShiftKeys

LEMMA TruthPut ==
    ASSUME NEW z \in KState, NEW y \in KState, NEW h, Truth(z, h), NEW k \in Key,
           NEW up \in BOOLEAN,
           \A q \in ShiftKeys : y.map[q[1]][2] = z.map[q[1]][2]
    PROVE  Truth(Put(y, k[1], k[2], up), IF up THEN h \cup {k} ELSE h \ {k})
<1> DEFINE g == IF up THEN h \cup {k} ELSE h \ {k}
           p == Put(y, k[1], k[2], up)
<1>1. y.map \in [Code -> [{2, 3} -> BOOLEAN]] /\ k[1] \in Code /\ k[2] \in {2, 3}
  BY KeyShape DEF KState
<1>2. ASSUME NEW q \in ShiftKeys
      PROVE  p.map[q[1]][2] = (q \in g)
  <2>1. q[2] = 2 /\ q[1] \in Code /\ q = <<q[1], q[2]>> /\ k = <<k[1], k[2]>>
    BY ShiftCodes, KeyShape DEF ShiftKeys
  <2>2. z.map[q[1]][2] = (q \in h)
    BY DEF Truth
  <2>3. CASE q = k
    <3>1. p.map[q[1]][2] = up
      BY <1>1, <2>1, <2>3 DEF Put
    <3> QED
      BY <3>1, <2>3
  <2>4. CASE q # k
    <3>1. q[1] # k[1] \/ k[2] # 2
      BY <2>1, <2>4
    <3>2. p.map[q[1]][2] = y.map[q[1]][2]
      BY <1>1, <2>1, <3>1 DEF Put
    <3> QED
      BY <3>2, <2>2, <2>4
  <2> QED
    BY <2>3, <2>4
<1> QED
  BY <1>2 DEF Truth, Put

(* What a typist expects is what the driver will make of the key.          *)
LEMMA AsExpected ==
    ASSUME NEW y \in KState, NEW k \in Key, shift_state(y.map) = (held \cap ShiftKeys # {})
    PROVE  /\ Expected(k) = CharOf(Put(y, k[1], k[2], TRUE).map, k[1], k[2])
           /\ Expected(k) \in Letters
<1> DEFINE p == Put(y, k[1], k[2], TRUE)
<1>1. k[1] \in Code /\ k[2] \in {2, 3} /\ k = <<k[1], k[2]>>
  BY KeyShape
<1>2. Expected(k) \in Letters
  BY <1>1 DEF Expected, Letters
<1>3. CASE k[1] \in {"shift_l", "shift_r"}
  <2>1. Plain[k[1]] = "inv" /\ Shifted[k[1]] = "inv"
    BY <1>3, KeyboardAssumption DEF ShiftKeys
  <2> QED
    BY <2>1, <1>2 DEF Expected, CharOf
<1>4. CASE k[1] \notin {"shift_l", "shift_r"}
  <2>1. y.map \in [Code -> [{2, 3} -> BOOLEAN]]
    BY DEF KState
  <2>2. shift_state(p.map) = shift_state(y.map)
    BY <2>1, <1>4, <1>1, ShiftCodes DEF shift_state, Put
  <2> HIDE DEF p
  <2>3. Expected(k) = CharOf(p.map, k[1], k[2])
    BY <2>2 DEF Expected, CharOf
  <2> QED
    BY <2>3, <1>2 DEF p
<1> QED
  BY <1>3, <1>4

LEMMA NowState == ASSUME KeyboardTypeOK PROVE Now \in KState
BY DEF KeyboardTypeOK, Now, KState

-----------------------------------------------------------------------------
LEMMA KeyInit == ASSUME KeyboardInit PROVE KeyInv
<1>1. KeyboardTypeOK /\ KeepsOldest /\ wire = <<>> /\ fresh = <<>> /\ held = {}
  BY DEF KeyboardInit, KeyboardTypeOK, KeepsOldest
<1>2. Now \in KState
  BY <1>1, NowState
<1> DEFINE run == [i \in 0 .. 0 |-> Now]
<1>3. Leads(<<>>, Now, Now)
  <2>1. run \in [0 .. 0 -> KState] /\ run[0] = Now
    BY <1>2
  <2> HIDE DEF run
  <2>2. Len(<<>>) = 0
    OBVIOUS
  <2> QED
    BY <2>1, <2>2 DEF Leads
<1>4. Truth(Now, {})
  <2>1. \A q \in ShiftKeys : keymap[q[1]][2] = FALSE
    BY ShiftCodes DEF KeyboardInit, ShiftKeys
  <2>2. Now.map = keymap /\ ~Now.ext
    BY DEF Now, KeyboardInit
  <2> HIDE DEF Now
  <2>3. ASSUME NEW q \in ShiftKeys
        PROVE  Now.map[q[1]][2] = (q \in {})
    <3>1. Now.map[q[1]][2] = FALSE
      BY <2>1, <2>2
    <3>2. (q \in {}) = FALSE
      OBVIOUS
    <3> QED
      BY <3>1, <3>2
  <2> QED
    BY <2>2, <2>3 DEF Truth
<1> QED
  BY <1>1, <1>2, <1>3, <1>4 DEF KeyInv

LEMMA KeyPress == ASSUME KeyInv, NEW k \in Key, Press(k) PROVE KeyInv'
<1>1. PICK z \in KState : Leads(wire, Now, z) /\ Truth(z, held)
  BY DEF KeyInv
<1>2. wire \in Seq(Bytes) /\ Now \in KState /\ ~z.ext
  BY <1>1, NowState DEF KeyInv, Truth
<1> DEFINE w == wire \o FakeShift(k, TRUE)
<1>3. w \in Seq(Bytes)
  BY <1>1, <1>2, LeadsFake
<1>4. PICK y \in KState : /\ Leads(w, Now, y) /\ ~y.ext
                          /\ \A q \in ShiftKeys : y.map[q[1]][2] = z.map[q[1]][2]
  BY <1>1, <1>2, LeadsFake
<1>5. Truth(y, held)
  BY <1>1, <1>4 DEF Truth
<1>6. shift_state(y.map) = (held \cap ShiftKeys # {})
  BY <1>5, ShiftOf
<1> DEFINE x == Put(y, k[1], k[2], TRUE)
<1>7. k[1] \in Code /\ k[2] \in {2, 3}
  BY KeyShape
<1>8. /\ Expected(k) = CharOf(x.map, k[1], k[2])
      /\ Expected(k) \in Letters
  BY <1>6, AsExpected
<1> HIDE DEF w
<1>9. /\ w \o Sent(k, FALSE, Expected(k)) \in Seq(Bytes)
      /\ Leads(w \o Sent(k, FALSE, Expected(k)), Now, x)
  BY <1>2, <1>3, <1>4, <1>8, LeadsSent
<1>10. Truth(x, held \cup {k}) /\ x \in KState
  BY <1>1, <1>4, <1>7, TruthPut, PutType
<1> HIDE DEF x
<1>11. /\ wire' = w \o Sent(k, FALSE, Expected(k)) /\ held' = held \cup {k}
       /\ UNCHANGED <<keymap, extcode_state, buffer, fresh>> /\ Now' = Now
  BY DEF Press, w, Now
<1>12. wire' \in Seq(Bytes) /\ Leads(wire', Now', x) /\ Truth(x, held')
  BY <1>9, <1>10, <1>11
<1> QED
  BY <1>10, <1>11, <1>12 DEF KeyInv, KeyboardTypeOK, KeepsOldest

LEMMA KeyRelease == ASSUME KeyInv, NEW k \in Key, Release(k) PROVE KeyInv'
<1>1. PICK z \in KState : Leads(wire, Now, z) /\ Truth(z, held)
  BY DEF KeyInv
<1>2. wire \in Seq(Bytes) /\ Now \in KState /\ ~z.ext
  BY <1>1, NowState DEF KeyInv, Truth
<1> DEFINE w == wire \o Sent(k, TRUE, "inv")
           p == Put(z, k[1], k[2], FALSE)
<1>3. "inv" \in Letters
  BY DEF Letters
<1>4. k[1] \in Code /\ k[2] \in {2, 3}
  BY KeyShape
<1>5. w \in Seq(Bytes) /\ Leads(w, Now, p)
  BY <1>1, <1>2, <1>3, LeadsSent
<1>6. p \in KState /\ ~p.ext
  BY <1>4, PutType DEF Put
<1>7. PICK y \in KState : Truth(y, held \ {k}) /\ Leads(w, Now, y) /\ ~y.ext
  <2>1. Truth(p, held \ {k})
    BY <1>1, <1>4, TruthPut
  <2> HIDE DEF p, w
  <2> QED
    BY <2>1, <1>5, <1>6
<1> HIDE DEF p, w
<1>8. w \o FakeShift(k, FALSE) \in Seq(Bytes)
  BY <1>2, <1>5, <1>7, LeadsFake
<1>9. \E x \in KState : /\ Leads(w \o FakeShift(k, FALSE), Now, x) /\ ~x.ext
                        /\ \A q \in ShiftKeys : x.map[q[1]][2] = y.map[q[1]][2]
  <2>1. FALSE \in BOOLEAN /\ Now \in KState /\ w \in Seq(Bytes) /\ Leads(w, Now, y) /\ ~y.ext
    BY <1>2, <1>5, <1>7
  <2> QED
    BY ONLY <2>1, LeadsFake, y \in KState, k \in Key, Zenon
<1>10. PICK x \in KState : Leads(w \o FakeShift(k, FALSE), Now, x) /\ Truth(x, held \ {k})
  BY <1>7, <1>9 DEF Truth
<1>11. /\ wire' = w \o FakeShift(k, FALSE) /\ held' = held \ {k}
       /\ UNCHANGED <<keymap, extcode_state, buffer, fresh>> /\ Now' = Now
  BY DEF Release, w, Now
<1>12. wire' \in Seq(Bytes) /\ Leads(wire', Now', x) /\ Truth(x, held')
  BY <1>8, <1>10, <1>11
<1> QED
  BY <1>11, <1>12 DEF KeyInv, KeyboardTypeOK, KeepsOldest

LEMMA KeyOther == ASSUME KeyInv, OtherKey PROVE KeyInv'
<1> DEFINE b == Byte("other", FALSE, "inv")
<1>1. PICK z \in KState : Leads(wire, Now, z) /\ Truth(z, held)
  BY DEF KeyInv
<1>2. wire \in Seq(Bytes) /\ Now \in KState /\ b \in Bytes /\ b.code = "other"
  BY NowState, ByteTypes DEF KeyInv, Byte
<1>3. Meant(z, b)
  BY <1>2, KeyboardAssumption DEF Meant
<1>4. Then(z, b) = z
  BY <1>1, <1>2, KeyboardAssumption DEF Then, Truth, KState
<1> HIDE DEF b
<1>5. Leads(Append(wire, b), Now, z) /\ Append(wire, b) \in Seq(Bytes)
  BY <1>1, <1>2, <1>3, <1>4, LeadsAppend
<1>6. /\ wire' = Append(wire, b) /\ Now' = Now
      /\ UNCHANGED <<keymap, extcode_state, buffer, held, fresh>>
  BY DEF OtherKey, b, Now
<1>7. wire' \in Seq(Bytes) /\ Leads(wire', Now', z) /\ Truth(z, held')
  BY <1>1, <1>5, <1>6
<1> QED
  BY <1>6, <1>7 DEF KeyInv, KeyboardTypeOK, KeepsOldest

(* The handler takes the state one byte further, and a byte that completes *)
(* a press gives the character it carries.                                 *)
LEMMA KeyHandler == ASSUME KeyInv, KeyboardHandler PROVE KeyInv'
<1> DEFINE b == Head(wire)
           ext == IF extcode_state THEN 3 ELSE 2
           map == [keymap EXCEPT ![b.code][ext] = ~b.up]
<1>1. PICK z \in KState : Leads(wire, Now, z) /\ Truth(z, held)
  BY DEF KeyInv
<1>2. wire \in Seq(Bytes) /\ wire # <<>> /\ Now \in KState
  BY NowState DEF KeyInv, KeyboardHandler
<1>3. b \in Bytes /\ Tail(wire) \in Seq(Bytes)
  BY <1>2, HeadTailProperties
<1>4. Meant(Now, b) /\ Leads(Tail(wire), Then(Now, b), z)
  BY <1>1, <1>2, LeadsTail
<1>5. Ext(Now) = ext /\ Now.map = keymap
  BY DEF Ext, Now
<1>6. wire' = Tail(wire) /\ held' = held /\ extcode_state' = (b.code = "prefix")
  BY DEF KeyboardHandler
<1>7. Now' = Then(Now, b)
  BY <1>5 DEF KeyboardHandler, Then, Now
<1>8. wire' \in Seq(Bytes) /\ Leads(wire', Now', z) /\ Truth(z, held')
  BY <1>1, <1>3, <1>4, <1>6, <1>7
<1>9. Then(Now, b) \in KState
  BY <1>2, <1>3, ThenType
<1>10. keymap' \in [Code -> [{2, 3} -> BOOLEAN]] /\ extcode_state' \in BOOLEAN
  <2>1. keymap' = Now'.map /\ extcode_state' = Now'.ext
    BY DEF Now
  <2> QED
    BY <2>1, <1>7, <1>9 DEF KState
<1>11. /\ buffer' \in Letters /\ fresh' \in Seq(Letters) /\ KeepsOldest'
       /\ fresh' # <<>> => Head(fresh') # "inv"
  <2>1. /\ buffer \in Letters /\ fresh \in Seq(Letters)
        /\ buffer = IF fresh = <<>> THEN "inv" ELSE Head(fresh)
        /\ fresh # <<>> => Head(fresh) # "inv"
    BY DEF KeyInv, KeyboardTypeOK, KeepsOldest, Letters
  <2>2. b.ch \in Letters /\ b.up \in BOOLEAN
    BY <1>3 DEF Bytes
  <2>3. CASE b.code \notin Code
    <3>1. UNCHANGED <<buffer, fresh>>
      BY <2>3 DEF KeyboardHandler
    <3> QED
      BY <3>1, <2>1 DEF KeepsOldest
  <2>4. CASE b.code \in Code
    <3>1. Then(Now, b).map = map
      BY <2>4, <1>5 DEF Then
    <3>2. b.ch = IF b.up THEN "inv" ELSE CharOf(map, b.code, ext)
      BY <2>4, <3>1, <1>4, <1>5 DEF Meant
    <3>3. /\ buffer' = IF b.up \/ buffer # "inv" THEN buffer ELSE CharOf(map, b.code, ext)
          /\ fresh' = IF b.ch = "inv" THEN fresh ELSE Append(fresh, b.ch)
      BY <2>4 DEF KeyboardHandler
    <3> HIDE DEF b, map, ext
    <3>4. CASE b.ch = "inv"
      <4>1. fresh' = fresh /\ buffer' = buffer
        BY <3>2, <3>3, <3>4
      <4> QED
        BY <4>1, <2>1 DEF KeepsOldest
    <3>5. CASE b.ch # "inv"
      <4>1. fresh' = Append(fresh, b.ch) /\ ~b.up
        BY <3>2, <3>3, <3>5
      <4>2. buffer' = IF buffer # "inv" THEN buffer ELSE b.ch
        BY <3>2, <3>3, <4>1
      <4>3. fresh' \in Seq(Letters) /\ fresh' # <<>>
        BY <4>1, <2>1, <2>2
      <4>4. Head(fresh') = IF fresh = <<>> THEN b.ch ELSE Head(fresh)
        BY <4>1, <2>1, <2>2
      <4> QED
        BY <4>2, <4>3, <4>4, <2>1, <2>2, <3>5 DEF KeepsOldest
    <3> QED
      BY <3>4, <3>5
  <2> QED
    BY <2>3, <2>4
<1> QED
  BY <1>6, <1>8, <1>10, <1>11 DEF KeyInv, KeyboardTypeOK, Letters

LEMMA KeyRead == ASSUME KeyInv, KeyboardRead PROVE KeyInv'
<1>1. PICK z \in KState : Leads(wire, Now, z) /\ Truth(z, held)
  BY DEF KeyInv
<1>2. UNCHANGED <<keymap, extcode_state, wire, held>> /\ Now' = Now
  BY DEF KeyboardRead, Now
<1>3. buffer' = "inv" /\ fresh' = <<>>
  BY DEF KeyboardRead
<1>4. Leads(wire', Now', z) /\ Truth(z, held')
  BY <1>1, <1>2
<1> QED
  BY <1>2, <1>3, <1>4 DEF KeyInv, KeyboardTypeOK, KeepsOldest

LEMMA KeyStutter == ASSUME KeyInv, UNCHANGED kbdVars PROVE KeyInv'
<1>1. Now' = Now /\ UNCHANGED <<keymap, extcode_state, buffer, wire, held, fresh>>
  BY DEF kbdVars, Now
<1>2. PICK z \in KState : Leads(wire, Now, z) /\ Truth(z, held)
  BY DEF KeyInv
<1>3. Leads(wire', Now', z) /\ Truth(z, held')
  BY <1>1, <1>2
<1> QED
  BY <1>1, <1>3 DEF KeyInv, KeyboardTypeOK, KeepsOldest

(* With nothing left on the wire the last state is the present one.        *)
LEMMA KeyPhysical == ASSUME KeyInv PROVE ShiftIsPhysical
<1> SUFFICES ASSUME wire = <<>>
             PROVE  shift_state(keymap) = (held \cap ShiftKeys # {}) /\ ~extcode_state
  BY DEF ShiftIsPhysical
<1>1. PICK z \in KState : Leads(<<>>, Now, z) /\ Truth(z, held)
  BY DEF KeyInv
<1>2. Now = z
  BY <1>1, LeadsNowhere
<1>3. shift_state(Now.map) = (held \cap ShiftKeys # {}) /\ ~Now.ext
  BY <1>1, <1>2, ShiftOf DEF Truth
<1> QED
  BY <1>3 DEF Now

-----------------------------------------------------------------------------
(* The file layer.  NodeInv says why a kept device number cannot go stale: *)
(* the entries in use are the first ones (Packed), so a new device comes   *)
(* after every other one and changes no count.  OpenInv says that a FIL    *)
(* has exactly one owner.                                                  *)
Paths == {<<>>, Home, <<"/">>, <<"/", "dev", "/">>, <<"/", "dev", "/", "stdout">>,
          <<"/", "dev", "/", "input">>} \cup KDirs \cup {k[1] : k \in KNodes}
NodeSet == [path : Paths, type : {"0xE6", "dir", "dev", "mount"},
            subtype : Subtype \cup {"null"}, nr : Nat, dev : 0 .. DEV_NR - 1]
Ids == 0 .. DEV_NR - 1

(* The list of paths: what is in it, and its first entry. *)
Listed(list) ==
    /\ list \in Seq(NodeSet)
    /\ list # <<>> => list[1].path = <<>> /\ list[1].type = "0xE6"
    /\ \A i \in DOMAIN list : /\ list[i].type = "dev" => list[i].subtype \in Subtype
                              /\ list[i].dev # 0 => list[i].type = "dev"

(* The registry is filled from entry 1 on without a gap. *)
Packed(d) ==
    /\ d \in [Ids -> Subtype \cup {"null"}]
    /\ d[0] = "null"
    /\ \A i, j \in Ids : 1 <= j /\ j < i /\ d[i] # "null" => d[j] # "null"

(* device_find in a registry d. *)
SameIds(d, s) == {i \in Ids : d[i] = s}
Nth(d, s, nr) == {i \in SameIds(d, s) : Cardinality({j \in SameIds(d, s) : j < i}) = nr}
FindIn(d, s, nr) == IF Nth(d, s, nr) = {} THEN 0 ELSE Min(Nth(d, s, nr))

Bound(d, list) ==
    \A i \in DOMAIN list :
        list[i].dev # 0 => list[i].dev = FindIn(d, list[i].subtype, list[i].nr)

LeftSet == [keys : Nat, chars : Nat, opens : Nat, nodes : Nat, exits : Nat]

NodeInv ==
    /\ Packed(device_list) /\ Listed(nodes) /\ Bound(device_list, nodes)
    /\ boot \in {<<"vfs", "keyboard">>, <<"keyboard">>, <<>>}
    /\ boot = <<"vfs", "keyboard">> <=> nodes = <<>>
    /\ fault \in {"none", "panic", "wild", "badfd"}
    /\ left \in LeftSet

Inodes ==
    {NoInode} \cup {[op |-> "rootfs", node |-> i] : i \in Nat}
              \cup {[op |-> "fat", fil |-> f, mode |-> fat_mode(m)] : f \in Fil, m \in Modes}

Owner(t, n, f) == fd[t][n].op = "fat" /\ fd[t][n].fil = f

OpenInv ==
    /\ fd \in [Task -> [Fd -> Inodes]]
    /\ \A t \in Task, n \in Fd : fd[t][n].op = "rootfs" => fd[t][n].node \in 2 .. Len(nodes)
    /\ fils \subseteq Fil /\ leaked \subseteq fils
    /\ \A t \in Task, n \in Fd : \A f : Owner(t, n, f) => f \in fils \ leaked
    /\ \A t, u \in Task, n, k \in Fd : \A f : Owner(t, n, f) /\ Owner(u, k, f) => t = u /\ n = k
    /\ \A f \in fils \ leaked : \E t \in Task, n \in Fd : Owner(t, n, f)

(* What a longer list keeps of a shorter one. *)
Grows(l, m) ==
    /\ Len(l) <= Len(m)
    /\ \A i \in 1 .. Len(l) : m[i].path = l[i].path /\ m[i].type = l[i].type

-----------------------------------------------------------------------------
(* Minima of sets of numbers.                                              *)
LEMMA LeastOf ==
    ASSUME NEW S \in SUBSET Nat, S # {}
    PROVE  Min(S) \in S /\ \A x \in S : Min(S) <= x
<1> DEFINE R == OpToRel(<, Nat)
<1>1. IsWellFoundedOn(R, Nat)
  BY NatLessThanWellFounded
<1>2. \A x, y \in Nat : y < x => <<y, x>> \in R
  BY DEF OpToRel
<1> HIDE DEF R
<1>3. PICK n \in S : \A g \in S : ~ (<<g, n>> \in R)
  BY <1>1, WFMin
<1>4. ASSUME NEW g \in S PROVE n <= g
  <2>1. g \in Nat /\ n \in Nat /\ ~(g < n)
    BY <1>2, <1>3
  <2> QED BY <2>1
<1> QED BY <1>3, <1>4 DEF Min

(* Larger elements do not change it. *)
LEMMA LeastStays ==
    ASSUME NEW S \in SUBSET Nat, NEW T \in SUBSET Nat, S # {}, S \subseteq T,
           \A x \in T \ S, y \in S : y <= x
    PROVE  Min(T) = Min(S)
<1>1. Min(S) \in S /\ \A x \in S : Min(S) <= x
  BY LeastOf
<1>2. Min(T) \in T /\ \A x \in T : Min(T) <= x
  BY LeastOf
<1>3. Min(T) <= Min(S) /\ Min(S) <= Min(T)
  BY <1>1, <1>2
<1>4. Min(S) \in Nat /\ Min(T) \in Nat
  BY <1>1, <1>2
<1> HIDE DEF Min
<1> QED
  BY <1>3, <1>4

-----------------------------------------------------------------------------
(* Lists of paths.                                                         *)
LEMMA AppendEntry ==
    ASSUME NEW d, NEW list, Listed(list), list # <<>>, Bound(d, list), NEW e \in NodeSet,
           e.dev = 0, e.type = "dev" => e.subtype \in Subtype
    PROVE  /\ Listed(Append(list, e)) /\ Bound(d, Append(list, e)) /\ Append(list, e) # <<>>
           /\ Grows(list, Append(list, e))
<1> DEFINE n == Len(list)
           l == Append(list, e)
<1>1. list \in Seq(NodeSet) /\ n \in Nat \ {0}
  BY DEF Listed
<1>2. /\ l \in Seq(NodeSet) /\ Len(l) = n + 1 /\ l # <<>> /\ l[n + 1] = e
      /\ \A i \in 1 .. n : l[i] = list[i]
      /\ DOMAIN l = 1 .. n + 1 /\ DOMAIN list = 1 .. n
  BY <1>1
<1> HIDE DEF l, n
<1>3. Listed(l)
  <2>1. l[1] = list[1]
    BY <1>1, <1>2
  <2>2. \A i \in DOMAIN l : i \in 1 .. n \/ i = n + 1
    BY <1>1, <1>2
  <2> QED
    BY <1>2, <2>1, <2>2 DEF Listed
<1>4. Bound(d, l)
  <2>1. ASSUME NEW i \in DOMAIN l, l[i].dev # 0 PROVE i \in DOMAIN list /\ l[i] = list[i]
    BY <1>1, <1>2, <2>1
  <2> QED
    BY <2>1 DEF Bound
<1>5. Grows(list, l)
  BY <1>1, <1>2 DEF Grows, n
<1> QED
  BY <1>2, <1>3, <1>4, <1>5 DEF l

LEMMA GrowsSelf == ASSUME NEW list, Listed(list) PROVE Grows(list, list)
<1>1. Len(list) \in Nat
  BY DEF Listed
<1> QED
  BY <1>1 DEF Grows

LEMMA mkdirKeeps ==
    ASSUME NEW d, NEW list, Listed(list), list # <<>>, Bound(d, list), NEW p \in Paths
    PROVE  /\ Listed(mkdir(list, p)) /\ Bound(d, mkdir(list, p)) /\ mkdir(list, p) # <<>>
           /\ Grows(list, mkdir(list, p))
<1> DEFINE e == Node(p, "dir", "null", 0)
<1>1. e \in NodeSet /\ e.dev = 0 /\ e.type = "dir"
  BY VfsAssumption DEF Node, NodeSet
<1> HIDE DEF e
<1>2. mkdir(list, p) = list \/ mkdir(list, p) = Append(list, e)
  BY DEF mkdir, e
<1> QED
  BY <1>1, <1>2, AppendEntry, GrowsSelf

LEMMA mknodKeeps ==
    ASSUME NEW d, NEW list, Listed(list), list # <<>>, Bound(d, list),
           NEW p \in Paths, NEW s \in Subtype, NEW nr \in Nat
    PROVE  /\ Listed(mknod(list, p, s, nr)) /\ Bound(d, mknod(list, p, s, nr))
           /\ mknod(list, p, s, nr) # <<>> /\ Grows(list, mknod(list, p, s, nr))
<1> DEFINE e == Node(p, "dev", s, nr)
<1>1. e \in NodeSet /\ e.dev = 0 /\ e.subtype \in Subtype
  BY VfsAssumption DEF Node, NodeSet
<1> HIDE DEF e
<1>2. mknod(list, p, s, nr) = list \/ mknod(list, p, s, nr) = Append(list, e)
  BY DEF mknod, e
<1> QED
  BY <1>1, <1>2, AppendEntry, GrowsSelf

(* A path that is found is found at the same place later.                  *)
LEMMA FindStays ==
    ASSUME NEW l \in Seq(NodeSet), NEW m \in Seq(NodeSet), Grows(l, m), NEW p,
           find_inode_by_path(l, p) # 0
    PROVE  find_inode_by_path(m, p) = find_inode_by_path(l, p)
<1> DEFINE Hits(q) == {i \in DOMAIN q : \/ q[i].path = p
                                        \/ IsPrefix(q[i].path, p) /\ q[i].type = "mount"}
<1>1. Len(l) \in Nat /\ Len(m) \in Nat /\ DOMAIN l = 1 .. Len(l) /\ DOMAIN m = 1 .. Len(m)
  OBVIOUS
<1>2. Hits(l) \subseteq Hits(m) /\ \A x \in Hits(m) \ Hits(l) : x > Len(l)
  BY <1>1 DEF Grows
<1>3. Hits(l) \in SUBSET Nat /\ Hits(m) \in SUBSET Nat /\ \A y \in Hits(l) : y <= Len(l)
  BY <1>1
<1>4. /\ find_inode_by_path(l, p) = IF Hits(l) \subseteq {1} THEN 0 ELSE Min(Hits(l))
      /\ find_inode_by_path(m, p) = IF Hits(m) \subseteq {1} THEN 0 ELSE Min(Hits(m))
  BY DEF find_inode_by_path
<1> HIDE DEF Hits
<1>5. ~(Hits(l) \subseteq {1}) /\ ~(Hits(m) \subseteq {1}) /\ Hits(l) # {}
  BY <1>2, <1>4
<1>6. \A x \in Hits(m) \ Hits(l), y \in Hits(l) : y <= x
  BY <1>1, <1>2, <1>3
<1>7. Min(Hits(m)) = Min(Hits(l))
  BY <1>2, <1>3, <1>5, <1>6, LeastStays
<1> QED
  BY <1>4, <1>5, <1>7

(* A task never finds the entry without an inode. *)
LEMMA FindInside ==
    ASSUME Listed(nodes), NEW p \in UPaths, find_inode_by_path(nodes, p) # 0
    PROVE  find_inode_by_path(nodes, p) \in 2 .. Len(nodes)
<1> DEFINE H == {i \in DOMAIN nodes : \/ nodes[i].path = p
                                      \/ IsPrefix(nodes[i].path, p) /\ nodes[i].type = "mount"}
<1>1. Len(nodes) \in Nat /\ DOMAIN nodes = 1 .. Len(nodes)
  BY DEF Listed
<1>2. H \in SUBSET Nat /\ H \subseteq 1 .. Len(nodes)
  BY <1>1
<1>3. 1 \notin H
  <2>1. p # <<>>
    BY VfsAssumption
  <2>2. ASSUME 1 \in DOMAIN nodes PROVE nodes # <<>>
    BY <2>2, <1>1
  <2> QED
    BY <2>1, <2>2 DEF Listed
<1>4. find_inode_by_path(nodes, p) = IF H \subseteq {1} THEN 0 ELSE Min(H)
  BY DEF find_inode_by_path
<1> HIDE DEF H
<1> DEFINE f == find_inode_by_path(nodes, p)
<1>5. f \in H
  BY <1>2, <1>4, LeastOf
<1> HIDE DEF f
<1>6. f \in 1 .. Len(nodes) /\ f # 1
  BY <1>2, <1>3, <1>5
<1>7. f \in 2 .. Len(nodes)
  BY <1>1, <1>6
<1> QED
  BY <1>7 DEF f

-----------------------------------------------------------------------------
(* The registry.                                                           *)
LEMMA FindIs ==
    /\ \A s, nr : device_find(s, nr) = FindIn(device_list, s, nr)
BY DEF device_find, FindIn, Nth, SameIds, Ids

LEMMA IdsNat == Ids \in SUBSET Nat /\ 0 \in Ids
BY VfsAssumption DEF Ids

LEMMA FindType ==
    ASSUME NEW d, NEW s, NEW nr
    PROVE  FindIn(d, s, nr) \in Ids
<1>1. Nth(d, s, nr) \in SUBSET Ids /\ Nth(d, s, nr) \in SUBSET Nat
  BY IdsNat DEF Nth, SameIds
<1>2. Nth(d, s, nr) # {} => Min(Nth(d, s, nr)) \in Nth(d, s, nr)
  BY <1>1, LeastOf
<1> QED
  BY <1>1, <1>2, IdsNat DEF FindIn

(* A new device keeps the table packed and every number that is known.     *)
LEMMA InstallKeeps ==
    ASSUME Packed(device_list), NEW s \in Subtype, device_install(s)
    PROVE  /\ Packed(device_list')
           /\ \A q \in Subtype, nr \in Nat : FindIn(device_list, q, nr) # 0 =>
                FindIn(device_list', q, nr) = FindIn(device_list, q, nr)
<1>1. CASE FreeIds = {}
  <2>1. device_list' = device_list
    BY <1>1 DEF device_install
  <2> QED
    BY <2>1
<1>2. CASE FreeIds # {}
  <2> DEFINE f == Min(FreeIds)
  <2>1. FreeIds \in SUBSET Nat
    BY VfsAssumption DEF FreeIds
  <2>2. f \in FreeIds /\ \A x \in FreeIds : f <= x
    BY <1>2, <2>1, LeastOf
  <2>3. device_list' = [device_list EXCEPT ![f] = s]
    BY <1>2 DEF device_install
  <2> HIDE DEF f
  <2>4. f \in Ids /\ f \in Nat /\ f >= 1 /\ device_list[f] = "null"
    BY <2>2, VfsAssumption DEF FreeIds, Ids
  <2>5. \A i \in Ids : 1 <= i /\ i < f => device_list[i] # "null"
    BY <2>2, <2>4, VfsAssumption DEF FreeIds, Ids
  <2>6. \A i \in Ids : device_list[i] # "null" => i < f
    <3> SUFFICES ASSUME NEW i \in Ids, device_list[i] # "null" PROVE i < f
      OBVIOUS
    <3>1. i \in Nat /\ i # f
      BY <2>4, IdsNat
    <3>2. ~(f < i)
      BY <2>4 DEF Packed
    <3> QED
      BY <3>1, <3>2, <2>4
  <2>7. /\ device_list \in [Ids -> Subtype \cup {"null"}]
        /\ \A i \in Ids : device_list'[i] = IF i = f THEN s ELSE device_list[i]
    BY <2>3, <2>4 DEF Packed
  <2>8. Packed(device_list')
    <3>1. device_list' \in [Ids -> Subtype \cup {"null"}] /\ device_list'[0] = "null"
      BY <2>3, <2>4, <2>7, IdsNat DEF Packed
    <3>2. ASSUME NEW i \in Ids, NEW j \in Ids, 1 <= j, j < i, device_list'[i] # "null"
          PROVE  device_list'[j] # "null"
      <4>1. i \in Nat /\ j \in Nat /\ i <= f
        BY <2>4, <2>6, <2>7, <3>2, IdsNat
      <4>2. j < f
        BY <4>1, <3>2, <2>4
      <4> QED
        BY <4>1, <4>2, <3>2, <2>5, <2>7
    <3> QED
      BY <3>1, <3>2 DEF Packed
  <2>9. ASSUME NEW q \in Subtype, NEW nr \in Nat, FindIn(device_list, q, nr) # 0
        PROVE  FindIn(device_list', q, nr) = FindIn(device_list, q, nr)
    <3>1. "null" \notin Subtype
      BY DEF Subtype
    <3>2. \A i \in SameIds(device_list, q) : i < f /\ i \in SameIds(device_list', q)
      BY <2>4, <2>6, <2>7, <3>1 DEF SameIds
    <3>3. \A i \in SameIds(device_list', q) : i = f \/ i \in SameIds(device_list, q)
      BY <2>7 DEF SameIds
    <3>4. SameIds(device_list, q) \in SUBSET Nat /\ SameIds(device_list', q) \in SUBSET Nat
      BY IdsNat DEF SameIds
    <3>5. \A i \in SameIds(device_list, q) : {j \in SameIds(device_list', q) : j < i} = {j \in SameIds(device_list, q) : j < i}
      BY <3>2, <3>3, <3>4, <2>4
    <3> DEFINE S == Nth(device_list, q, nr)
               T == Nth(device_list', q, nr)
    <3>6. S \subseteq T /\ \A x \in T \ S : x = f
      BY <3>2, <3>3, <3>5 DEF Nth
    <3>7. S \in SUBSET Nat /\ T \in SUBSET Nat /\ \A x \in S : x < f
      BY <3>2, <3>4 DEF Nth
    <3>8. S # {} /\ FindIn(device_list, q, nr) = Min(S)
      BY <2>9 DEF FindIn
    <3>9. FindIn(device_list', q, nr) = IF T = {} THEN 0 ELSE Min(T)
      BY DEF FindIn
    <3> HIDE DEF S, T
    <3>10. \A x \in T \ S, y \in S : y <= x
      BY <3>6, <3>7, <2>4
    <3>11. Min(T) = Min(S) /\ T # {}
      BY <3>6, <3>7, <3>8, <3>10, LeastStays
    <3> QED
      BY <3>8, <3>9, <3>11
  <2> QED
    BY <2>8, <2>9
<1> QED
  BY <1>1, <1>2

LEMMA InstallBound ==
    ASSUME Packed(device_list), NEW s \in Subtype, device_install(s),
           NEW list, Listed(list), Bound(device_list, list)
    PROVE  Packed(device_list') /\ Bound(device_list', list)
<1>1. \A i \in DOMAIN list : list[i] \in NodeSet
  BY DEF Listed
<1>2. ASSUME NEW i \in DOMAIN list, list[i].dev # 0
      PROVE  list[i].dev = FindIn(device_list', list[i].subtype, list[i].nr)
  <2>1. list[i].subtype \in Subtype /\ list[i].nr \in Nat
    BY <1>1, <1>2 DEF Listed, NodeSet
  <2>2. FindIn(device_list, list[i].subtype, list[i].nr) = list[i].dev
    BY <1>2 DEF Bound
  <2> QED
    BY <1>2, <2>1, <2>2, InstallKeeps
<1> QED
  BY <1>2, InstallKeeps DEF Bound

-----------------------------------------------------------------------------
(* NodeInv, step by step.                                                  *)
LEMMA SpendType ==
    ASSUME left \in LeftSet, NEW what \in {"keys", "chars", "opens", "nodes", "exits"}, Spend(what)
    PROVE  left' \in LeftSet /\ left'[what] < left[what]
BY DEF LeftSet, Spend

LEMMA NodesSame ==
    ASSUME NodeInv, UNCHANGED <<device_list, nodes, boot>>, left' \in LeftSet,
           fault' \in {"none", "panic", "wild", "badfd"}
    PROVE  NodeInv' /\ Grows(nodes, nodes')
<1>1. Packed(device_list') /\ Listed(nodes') /\ Bound(device_list', nodes') /\ Listed(nodes)
  BY DEF NodeInv
<1>2. Grows(nodes, nodes)
  BY <1>1, GrowsSelf
<1> QED
  BY <1>1, <1>2 DEF NodeInv

LEMMA NodesMade ==
    ASSUME NodeInv, Listed(nodes'), Packed(device_list'), Bound(device_list', nodes'), nodes' # <<>>,
           boot' \in {<<"keyboard">>, <<>>}, Grows(nodes, nodes'), left' \in LeftSet,
           fault' \in {"none", "panic", "wild", "badfd"}
    PROVE  NodeInv'
<1>2. <<"keyboard">> # <<"vfs", "keyboard">> /\ <<>> # <<"vfs", "keyboard">>
  OBVIOUS
<1> QED
  BY <1>2 DEF NodeInv

LEMMA VfsInitNodes == ASSUME NodeInv, VfsInit PROVE NodeInv' /\ Grows(nodes, nodes')
<1> DEFINE l0 == <<RootEntry>>
           l1 == mkdir(l0, <<"/">>)
           l2 == mkdir(l1, <<"/", "dev", "/">>)
           l3 == mknod(l2, <<"/", "dev", "/", "stdout">>, "tty", 0)
           e == Node(Home, "mount", "null", 0)
<1>1. RootEntry \in NodeSet /\ RootEntry.dev = 0 /\ RootEntry.path = <<>> /\ RootEntry.type = "0xE6"
  BY VfsAssumption DEF RootEntry, NodeSet, Node, Paths
<1>2. Listed(l0) /\ l0 # <<>> /\ Bound(device_list, l0)
  BY <1>1 DEF Listed, Bound
<1> HIDE DEF l0
<1>3. Listed(l1) /\ Bound(device_list, l1) /\ l1 # <<>>
  BY <1>2, mkdirKeeps DEF Paths
<1> HIDE DEF l1
<1>4. Listed(l2) /\ Bound(device_list, l2) /\ l2 # <<>>
  BY <1>3, mkdirKeeps DEF Paths
<1> HIDE DEF l2
<1>5. Listed(l3) /\ Bound(device_list, l3) /\ l3 # <<>>
  BY <1>4, mknodKeeps DEF Paths, Subtype
<1> HIDE DEF l3
<1>6. e \in NodeSet /\ e.dev = 0 /\ e.type # "dev"
  BY VfsAssumption DEF Node, NodeSet, Paths
<1>7. nodes' = Append(l3, e)
  BY DEF VfsInit, l3, l2, l1, l0
<1> HIDE DEF e
<1>8. Listed(nodes') /\ Bound(device_list, nodes') /\ nodes' # <<>>
  BY <1>5, <1>6, <1>7, AppendEntry
<1>9. nodes = <<>> /\ boot' = <<"keyboard">>
  <2>1. <<"keyboard">> # <<>> /\ Head(<<"keyboard">>) = "keyboard"
    OBVIOUS
  <2>2. boot # <<>> /\ Head(boot) = "vfs" /\ boot' = Tail(boot)
    BY DEF VfsInit
  <2>3. boot = <<"vfs", "keyboard">>
    BY <2>1, <2>2 DEF NodeInv
  <2>4. Tail(<<"vfs", "keyboard">>) = <<"keyboard">>
    OBVIOUS
  <2> QED
    BY <2>2, <2>3, <2>4 DEF NodeInv
<1>10. Grows(nodes, nodes')
  <2>1. Len(nodes) = 0 /\ Len(nodes') \in Nat
    BY <1>8, <1>9 DEF Listed
  <2> QED
    BY <2>1 DEF Grows
<1>11. UNCHANGED <<device_list, left, fault>> /\ Packed(device_list)
  BY DEF VfsInit, NodeInv
<1>12. left' \in LeftSet /\ fault' \in {"none", "panic", "wild", "badfd"}
  BY <1>11 DEF NodeInv
<1> QED
  BY <1>8, <1>9, <1>10, <1>11, <1>12, NodesMade

LEMMA InstallFault ==
    ASSUME NodeInv, NEW s, device_install(s)
    PROVE  fault' \in {"none", "panic", "wild", "badfd"}
BY DEF NodeInv, device_install

LEMMA KeyboardBootNodes == ASSUME NodeInv, KeyboardBoot PROVE NodeInv' /\ Grows(nodes, nodes')
<1> DEFINE l == mknod(nodes, <<"/", "dev", "/", "input">>, "keyboard", 0)
<1>1. boot = <<"keyboard">> /\ boot' = <<>>
  <2>1. boot # <<>> /\ Head(boot) = "keyboard" /\ boot' = Tail(boot)
    BY DEF KeyboardBoot
  <2>2. Head(<<"vfs", "keyboard">>) = "vfs" /\ Tail(<<"keyboard">>) = <<>>
    OBVIOUS
  <2> QED
    BY <2>1, <2>2 DEF NodeInv
<1>2. nodes # <<>> /\ Listed(nodes) /\ Bound(device_list, nodes) /\ Packed(device_list)
  <2>1. <<"keyboard">> # <<"vfs", "keyboard">>
    OBVIOUS
  <2> QED
    BY <1>1, <2>1 DEF NodeInv
<1>3. Listed(l) /\ Bound(device_list, l) /\ l # <<>> /\ Grows(nodes, l)
  BY <1>2, mknodKeeps DEF Paths, Subtype
<1> HIDE DEF l
<1>4. device_install("keyboard") /\ nodes' = l /\ left' = left
  BY DEF KeyboardBoot, l
<1>5. Packed(device_list') /\ Bound(device_list', l)
  BY <1>2, <1>3, <1>4, InstallBound DEF Subtype
<1>6. fault' \in {"none", "panic", "wild", "badfd"} /\ left' \in LeftSet
  BY <1>4, InstallFault DEF NodeInv
<1> QED
  BY <1>1, <1>3, <1>4, <1>5, <1>6, NodesMade

LEMMA DeviceInstallNodes ==
    ASSUME NodeInv, NEW s \in Subtype, DeviceInstall(s)
    PROVE  NodeInv' /\ Grows(nodes, nodes')
<1>1. Listed(nodes) /\ Bound(device_list, nodes) /\ Packed(device_list) /\ left \in LeftSet
  BY DEF NodeInv
<1>2. device_install(s) /\ nodes' = nodes /\ Spend("nodes") /\ boot' = boot /\ boot = <<>>
  BY DEF DeviceInstall, Running
<1>3. Packed(device_list') /\ Bound(device_list', nodes)
  BY <1>1, <1>2, InstallBound
<1>4. left' \in LeftSet /\ fault' \in {"none", "panic", "wild", "badfd"}
  BY <1>1, <1>2, InstallFault, SpendType
<1>5. Grows(nodes, nodes') /\ nodes' # <<>>
  BY <1>1, <1>2, GrowsSelf DEF NodeInv
<1> QED
  BY <1>1, <1>2, <1>3, <1>4, <1>5, NodesMade

LEMMA sys_mkdirNodes ==
    ASSUME NodeInv, NEW p \in KDirs, sys_mkdir(p)
    PROVE  NodeInv' /\ Grows(nodes, nodes')
<1>1. /\ nodes # <<>> /\ Listed(nodes) /\ Bound(device_list, nodes) /\ left \in LeftSet
      /\ boot = <<>> /\ Packed(device_list)
  BY DEF NodeInv, sys_mkdir, Running
<1>2. nodes' = mkdir(nodes, p) /\ UNCHANGED <<device_list, boot, fault>> /\ Spend("nodes")
  BY DEF sys_mkdir
<1>3. Listed(nodes') /\ Bound(device_list, nodes') /\ nodes' # <<>> /\ Grows(nodes, nodes')
  BY <1>1, <1>2, mkdirKeeps DEF Paths
<1>4. left' \in LeftSet /\ fault' \in {"none", "panic", "wild", "badfd"}
  BY <1>1, <1>2, SpendType DEF NodeInv
<1> QED
  BY <1>1, <1>2, <1>3, <1>4, NodesMade

LEMMA sys_mknodNodes ==
    ASSUME NodeInv, NEW k \in KNodes, sys_mknod(k[1], k[2], k[3])
    PROVE  NodeInv' /\ Grows(nodes, nodes')
<1>1. /\ nodes # <<>> /\ Listed(nodes) /\ Bound(device_list, nodes) /\ left \in LeftSet
      /\ boot = <<>> /\ Packed(device_list)
  BY DEF NodeInv, sys_mknod, Running
<1>2. nodes' = mknod(nodes, k[1], k[2], k[3]) /\ UNCHANGED <<device_list, boot, fault>> /\ Spend("nodes")
  BY DEF sys_mknod
<1>3. k[1] \in Paths /\ k[2] \in Subtype /\ k[3] \in Nat
  BY VfsAssumption DEF Paths, Subtype
<1>4. Listed(nodes') /\ Bound(device_list, nodes') /\ nodes' # <<>> /\ Grows(nodes, nodes')
  BY <1>1, <1>2, <1>3, mknodKeeps
<1>5. left' \in LeftSet /\ fault' \in {"none", "panic", "wild", "badfd"}
  BY <1>1, <1>2, SpendType DEF NodeInv
<1> QED
  BY <1>1, <1>2, <1>4, <1>5, NodesMade

(* The first use of a node writes into it what a look-up gives now.        *)
LEMMA BindNodes ==
    ASSUME NodeInv, NEW t, NEW n, fd[t][n].node \in DOMAIN nodes,
           OnDevice(t, n), Bind(t, n), left' \in LeftSet
    PROVE  NodeInv' /\ Grows(nodes, nodes')
<1> DEFINE k == fd[t][n].node
           d == DevOf(t, n)
<1>1. /\ Listed(nodes) /\ Bound(device_list, nodes) /\ Packed(device_list) /\ boot = <<>> /\ nodes # <<>>
      /\ fault \in {"none", "panic", "wild", "badfd"}
  BY DEF NodeInv, OnDevice, Running
<1>2. UNCHANGED <<device_list, boot>>
  BY DEF Bind
<1>3. CASE d = 0
  <2>1. fault' = "panic" /\ nodes' = nodes
    BY <1>3 DEF Bind
  <2> QED
    BY <2>1, <1>2, NodesSame
<1>4. CASE d # 0
  <2>1. nodes' = [nodes EXCEPT ![k].dev = d] /\ fault' = fault
    BY <1>4 DEF Bind
  <2>2. /\ k \in DOMAIN nodes /\ nodes \in Seq(NodeSet) /\ nodes[k] \in NodeSet
        /\ nodes[k].type = "dev" /\ nodes[k].subtype \in Subtype /\ nodes[k].nr \in Nat
    <3>1. k \in DOMAIN nodes /\ nodes \in Seq(NodeSet) /\ nodes[k].type = "dev"
      BY <1>1 DEF Listed, OnDevice
    <3> HIDE DEF k
    <3>2. nodes[k] \in NodeSet
      BY <3>1
    <3>3. nodes[k].subtype \in Subtype
      BY <1>1, <3>1 DEF Listed
    <3>4. nodes[k].nr \in Nat
      BY <3>2 DEF NodeSet
    <3> QED
      BY <3>1, <3>2, <3>3, <3>4
  <2>3. d = FindIn(device_list, nodes[k].subtype, nodes[k].nr)
    BY <1>1, <2>2, FindIs DEF DevOf, Bound
  <2>4. d \in Ids
    BY <1>1, <2>2, <2>3, FindType
  <2> HIDE DEF d, k
  <2>5. [nodes[k] EXCEPT !.dev = d] \in NodeSet
    BY <2>2, <2>4 DEF NodeSet, Ids
  <2>6. /\ nodes' \in Seq(NodeSet) /\ Len(nodes') = Len(nodes) /\ DOMAIN nodes' = DOMAIN nodes
        /\ nodes' # <<>>
        /\ \A i \in DOMAIN nodes : i # k => nodes'[i] = nodes[i]
        /\ nodes'[k] = [nodes[k] EXCEPT !.dev = d]
    BY <1>1, <2>1, <2>2, <2>5
  <2>7. /\ nodes'[k].path = nodes[k].path /\ nodes'[k].type = nodes[k].type
        /\ nodes'[k].subtype = nodes[k].subtype /\ nodes'[k].nr = nodes[k].nr
        /\ nodes'[k].dev = d
    BY <2>2, <2>6 DEF NodeSet
  <2>8. /\ 1 \in DOMAIN nodes /\ Len(nodes) \in Nat /\ DOMAIN nodes = 1 .. Len(nodes)
        /\ nodes[1].path = <<>> /\ nodes[1].type = "0xE6"
    BY <1>1 DEF Listed
  <2>9. Listed(nodes')
    <3>1. nodes'[1].path = <<>> /\ nodes'[1].type = "0xE6"
      BY <2>6, <2>7, <2>8
    <3>2. ASSUME NEW i \in DOMAIN nodes'
          PROVE  /\ nodes'[i].type = "dev" => nodes'[i].subtype \in Subtype
                 /\ nodes'[i].dev # 0 => nodes'[i].type = "dev"
      BY <1>1, <2>2, <2>6, <2>7 DEF Listed
    <3> QED
      BY <2>6, <3>1, <3>2 DEF Listed
  <2>10. Bound(device_list, nodes')
    <3> SUFFICES ASSUME NEW i \in DOMAIN nodes', nodes'[i].dev # 0
                 PROVE  nodes'[i].dev = FindIn(device_list, nodes'[i].subtype, nodes'[i].nr)
      BY DEF Bound
    <3>1. CASE i = k
      BY <3>1, <2>3, <2>7
    <3>2. CASE i # k
      BY <3>2, <2>6, <1>1 DEF Bound
    <3> QED
      BY <3>1, <3>2
  <2>11. Grows(nodes, nodes')
    <3>1. Len(nodes) <= Len(nodes')
      BY <2>6, <2>8
    <3>2. ASSUME NEW i \in 1 .. Len(nodes)
          PROVE  nodes'[i].path = nodes[i].path /\ nodes'[i].type = nodes[i].type
      <4>1. CASE i = k
        BY <4>1, <2>7
      <4>2. CASE i # k
        BY <4>2, <2>6, <2>8
      <4> QED
        BY <4>1, <4>2
    <3> QED
      BY <3>1, <3>2 DEF Grows
  <2> QED
    BY <1>1, <1>2, <2>1, <2>6, <2>9, <2>10, <2>11, NodesMade
<1> QED
  BY <1>3, <1>4

-----------------------------------------------------------------------------
(* OpenInv, step by step.                                                  *)
LEMMA InodeKinds ==
    /\ NoInode \in Inodes /\ NoInode.op = "none"
    /\ \A i \in Nat : /\ [op |-> "rootfs", node |-> i] \in Inodes
                      /\ [op |-> "rootfs", node |-> i].op = "rootfs"
                      /\ [op |-> "rootfs", node |-> i].node = i
    /\ \A f \in Fil, m \in Modes :
          /\ [op |-> "fat", fil |-> f, mode |-> fat_mode(m)] \in Inodes
          /\ [op |-> "fat", fil |-> f, mode |-> fat_mode(m)].op = "fat"
          /\ [op |-> "fat", fil |-> f, mode |-> fat_mode(m)].fil = f
<1>1. NoInode \in Inodes /\ NoInode.op = "none"
  BY DEF Inodes, NoInode
<1>2. \A i \in Nat : [op |-> "rootfs", node |-> i] \in Inodes
  BY DEF Inodes
<1>3. \A f \in Fil, m \in Modes : [op |-> "fat", fil |-> f, mode |-> fat_mode(m)] \in Inodes
  BY DEF Inodes
<1> QED
  BY <1>1, <1>2, <1>3

LEMMA GrowsLen ==
    ASSUME NodeInv, NodeInv', Grows(nodes, nodes')
    PROVE  2 .. Len(nodes) \subseteq 2 .. Len(nodes')
<1>1. Len(nodes) \in Nat /\ Len(nodes') \in Nat /\ Len(nodes) <= Len(nodes')
  BY DEF NodeInv, Listed, Grows
<1> QED
  BY <1>1

LEMMA OpenSame ==
    ASSUME NodeInv, NodeInv', Grows(nodes, nodes'), OpenInv, UNCHANGED <<fd, fils, leaked>>
    PROVE  OpenInv'
<1>1. \A t, n, f : Owner(t, n, f)' <=> Owner(t, n, f)
  BY DEF Owner
<1>2. \A t \in Task, n \in Fd : fd[t][n].op = "rootfs" => fd[t][n].node \in 2 .. Len(nodes')
  BY GrowsLen DEF OpenInv
<1> QED
  BY <1>1, <1>2 DEF OpenInv

(* A new descriptor takes an empty entry. *)
LEMMA SetFdTakes ==
    ASSUME OpenInv, NEW t \in Task, FreeFds(t) # {}, NEW x \in Inodes, SetFd(t, x)
    PROVE  /\ fd' \in [Task -> [Fd -> Inodes]]
           /\ \E m \in Fd : /\ fd[t][m] = NoInode
                            /\ \A u \in Task, n \in Fd :
                                fd'[u][n] = IF u = t /\ n = m THEN x ELSE fd[u][n]
<1> DEFINE m == Min(FreeFds(t))
<1>1. FreeFds(t) \in SUBSET Nat
  BY VfsAssumption DEF FreeFds, Fd
<1>2. m \in FreeFds(t)
  BY <1>1, LeastOf
<1>3. m \in Fd /\ fd[t][m] = NoInode
  BY <1>2 DEF FreeFds
<1>4. fd' = [fd EXCEPT ![t][m] = x] /\ fd \in [Task -> [Fd -> Inodes]]
  BY DEF SetFd, OpenInv
<1> HIDE DEF m
<1>5. fd' \in [Task -> [Fd -> Inodes]]
  BY <1>3, <1>4
<1>6. \A u \in Task, n \in Fd : fd'[u][n] = IF u = t /\ n = m THEN x ELSE fd[u][n]
  BY <1>3, <1>4
<1> QED
  BY <1>3, <1>5, <1>6

LEMMA OpenNodeFds ==
    ASSUME NodeInv, NodeInv', OpenInv, NEW t \in Task, NEW p \in UPaths, OpenNode(t, p)
    PROVE  OpenInv'
<1> DEFINE i == find_inode_by_path(nodes, p)
<1>1. Listed(nodes) /\ nodes' = nodes /\ fils' = fils /\ leaked' = leaked
  BY DEF NodeInv, OpenNode
<1>2. CASE i = 0
  <2>1. fd' = fd /\ Grows(nodes, nodes')
    BY <1>1, <1>2, GrowsSelf DEF OpenNode
  <2> QED
    BY <2>1, <1>1, OpenSame
<1>3. CASE i # 0
  <2> DEFINE x == [op |-> "rootfs", node |-> i]
  <2>1. i \in 2 .. Len(nodes) /\ Len(nodes) \in Nat
    BY <1>1, <1>3, FindInside DEF Listed
  <2>2. SetFd(t, x) /\ FreeFds(t) # {}
    BY <1>3 DEF OpenNode
  <2> HIDE DEF i
  <2>3. x \in Inodes /\ x.op = "rootfs" /\ x.node = i
    BY <2>1, InodeKinds
  <2> HIDE DEF x
  <2>4. fd' \in [Task -> [Fd -> Inodes]]
    BY <2>2, <2>3, SetFdTakes
  <2>5. PICK m \in Fd :
          /\ fd[t][m] = NoInode
          /\ \A u \in Task, n \in Fd : fd'[u][n] = IF u = t /\ n = m THEN x ELSE fd[u][n]
    BY <2>2, <2>3, SetFdTakes
  <2>6. \A u \in Task, n \in Fd : \A f : Owner(u, n, f)' <=> Owner(u, n, f)
    BY <2>3, <2>5, InodeKinds DEF Owner
  <2>7. \A u \in Task, n \in Fd : fd'[u][n].op = "rootfs" => fd'[u][n].node \in 2 .. Len(nodes')
    BY <1>1, <2>1, <2>3, <2>5 DEF OpenInv
  <2> QED
    BY <1>1, <2>4, <2>6, <2>7 DEF OpenInv
<1> QED
  BY <1>2, <1>3

LEMMA OpenFatFds ==
    ASSUME NodeInv, NodeInv', OpenInv, NEW t \in Task, NEW p \in UPaths, NEW md \in Modes,
           NEW f \in Fil, NEW ok \in BOOLEAN, OpenFat(t, p, md, f, ok)
    PROVE  OpenInv'
<1> DEFINE x == [op |-> "fat", fil |-> f, mode |-> fat_mode(md)]
<1>1. Listed(nodes) /\ nodes' = nodes /\ leaked' = leaked /\ f \notin fils /\ FreeFds(t) # {}
  BY DEF NodeInv, OpenFat
<1>2. CASE ~ok
  <2>1. fd' = fd /\ fils' = fils /\ Grows(nodes, nodes')
    BY <1>1, <1>2, GrowsSelf DEF OpenFat
  <2> QED
    BY <2>1, <1>1, OpenSame
<1>3. CASE ok
  <2>1. SetFd(t, x) /\ fils' = fils \cup {f}
    BY <1>3 DEF OpenFat
  <2>2. x \in Inodes /\ x.op = "fat" /\ x.fil = f
    BY InodeKinds
  <2> HIDE DEF x
  <2>3. fd' \in [Task -> [Fd -> Inodes]]
    BY <1>1, <2>1, <2>2, SetFdTakes
  <2>4. PICK m \in Fd :
          /\ fd[t][m] = NoInode
          /\ \A u \in Task, n \in Fd : fd'[u][n] = IF u = t /\ n = m THEN x ELSE fd[u][n]
    BY <1>1, <2>1, <2>2, SetFdTakes
  <2>5. \A u \in Task, n \in Fd : \A g :
          Owner(u, n, g)' <=> Owner(u, n, g) \/ (u = t /\ n = m /\ g = f)
    BY <2>2, <2>4, InodeKinds DEF Owner
  <2>6. \A u \in Task, n \in Fd : fd'[u][n].op = "rootfs" => fd'[u][n].node \in 2 .. Len(nodes')
    BY <1>1, <2>2, <2>4 DEF OpenInv
  <2>7. fils' \subseteq Fil /\ leaked' \subseteq fils' /\ f \notin leaked
    BY <1>1, <2>1 DEF OpenInv
  <2>8. \A u \in Task, n \in Fd : ~Owner(u, n, f)
    BY <1>1 DEF OpenInv
  <2>9. \A u \in Task, n \in Fd : \A g : Owner(u, n, g)' => g \in fils' \ leaked'
    BY <1>1, <2>1, <2>5, <2>7 DEF OpenInv
  <2>10. \A u, v \in Task, n, k \in Fd : \A g : Owner(u, n, g)' /\ Owner(v, k, g)' => u = v /\ n = k
    BY <2>5, <2>8 DEF OpenInv
  <2>11. \A g \in fils' \ leaked' : \E u \in Task, n \in Fd : Owner(u, n, g)'
    <3> SUFFICES ASSUME NEW g \in fils' \ leaked'
                 PROVE  \E u \in Task, n \in Fd : Owner(u, n, g)'
      OBVIOUS
    <3>1. CASE g = f
      BY <3>1, <2>5
    <3>2. CASE g # f
      <4>1. g \in fils \ leaked
        BY <3>2, <2>1, <1>1
      <4> QED
        BY <4>1, <2>5 DEF OpenInv
    <3> QED
      BY <3>1, <3>2
  <2> QED
    BY <2>3, <2>6, <2>7, <2>9, <2>10, <2>11 DEF OpenInv
<1> QED
  BY <1>2, <1>3

(* The FILs of a task that ends are nobody's. *)
LEMMA TaskExitFds ==
    ASSUME NodeInv, NodeInv', OpenInv, NEW t \in Task, TaskExit(t)
    PROVE  OpenInv'
<1> DEFINE gone == {fd[t][n].fil : n \in {k \in Fd : fd[t][k].op = "fat"}}
<1>1. nodes' = nodes /\ fils' = fils /\ leaked' = leaked \cup gone
  BY DEF TaskExit
<1>2. /\ fd' = [fd EXCEPT ![t] = [n \in Fd |-> NoInode]]
      /\ fd \in [Task -> [Fd -> Inodes]]
  BY DEF TaskExit, OpenInv
<1>3. \A f : f \in gone <=> \E n \in Fd : Owner(t, n, f)
  BY DEF Owner
<1> HIDE DEF gone
<1>4. \A u \in Task, n \in Fd : fd'[u][n] = IF u = t THEN NoInode ELSE fd[u][n]
  BY <1>2
<1>5. fd' \in [Task -> [Fd -> Inodes]]
  BY <1>2, InodeKinds
<1>6. \A u \in Task, n \in Fd : \A f : Owner(u, n, f)' <=> u # t /\ Owner(u, n, f)
  BY <1>4, InodeKinds DEF Owner
<1>7. \A u \in Task, n \in Fd : fd'[u][n].op = "rootfs" => fd'[u][n].node \in 2 .. Len(nodes')
  BY <1>1, <1>4, InodeKinds DEF OpenInv
<1>8. fils' \subseteq Fil /\ leaked' \subseteq fils'
  BY <1>1, <1>3 DEF OpenInv
<1>9. \A u \in Task, n \in Fd : \A f : Owner(u, n, f)' => f \in fils' \ leaked'
  BY <1>1, <1>3, <1>6 DEF OpenInv
<1>10. \A u, v \in Task, n, k \in Fd : \A f : Owner(u, n, f)' /\ Owner(v, k, f)' => u = v /\ n = k
  BY <1>6 DEF OpenInv
<1>11. \A f \in fils' \ leaked' : \E u \in Task, n \in Fd : Owner(u, n, f)'
  BY <1>1, <1>3, <1>6 DEF OpenInv
<1> QED
  BY <1>5, <1>7, <1>8, <1>9, <1>10, <1>11 DEF OpenInv

-----------------------------------------------------------------------------
(* All four parts together.                                                *)
VfsInv == TtyInv /\ KeyInv /\ NodeInv /\ OpenInv

(* What FdStable says of one step. *)
FdStep ==
    \A t \in Task, n \in Fd :
        fd[t][n] # NoInode => \/ fd'[t][n] = fd[t][n]
                              \/ left'.exits < left.exits /\ \A k \in Fd : fd'[t][k] = NoInode

LEMMA TtyStutter == ASSUME TtyInv, UNCHANGED ttyVars PROVE TtyInv'
BY DEF TtyInv, TtyTypeOK, ShowsTail, ttyVars, Top

LEMMA FdSame == ASSUME UNCHANGED fd PROVE FdStep
BY DEF FdStep

LEMMA FdTaken ==
    ASSUME OpenInv, NEW t \in Task, FreeFds(t) # {}, NEW x \in Inodes, SetFd(t, x)
    PROVE  FdStep
<1>1. PICK m \in Fd : /\ fd[t][m] = NoInode
                      /\ \A u \in Task, n \in Fd :
                            fd'[u][n] = IF u = t /\ n = m THEN x ELSE fd[u][n]
  BY SetFdTakes
<1> QED
  BY <1>1 DEF FdStep

LEMMA OpenFdStep ==
    ASSUME OpenInv, NodeInv, NEW t \in Task, NEW p \in UPaths,
           \/ OpenNode(t, p)
           \/ \E m \in Modes, f \in Fil, ok \in BOOLEAN : OpenFat(t, p, m, f, ok)
    PROVE  FdStep
<1>1. CASE OpenNode(t, p)
  <2> DEFINE i == find_inode_by_path(nodes, p)
  <2>1. CASE i = 0
    <3>1. fd' = fd
      BY <1>1, <2>1 DEF OpenNode
    <3> QED
      BY <3>1, FdSame
  <2>2. CASE i # 0
    <3>1. i \in Nat
      BY <2>2, FindInside DEF NodeInv, Listed
    <3>2. SetFd(t, [op |-> "rootfs", node |-> i]) /\ FreeFds(t) # {}
      BY <1>1, <2>2 DEF OpenNode
    <3> HIDE DEF i
    <3>3. [op |-> "rootfs", node |-> i] \in Inodes
      BY <3>1, InodeKinds
    <3> QED
      BY <3>2, <3>3, FdTaken
  <2> QED
    BY <2>1, <2>2
<1>2. ASSUME NEW m \in Modes, NEW f \in Fil, NEW ok \in BOOLEAN, OpenFat(t, p, m, f, ok)
      PROVE  FdStep
  <2>1. CASE ~ok
    <3>1. fd' = fd
      BY <1>2, <2>1 DEF OpenFat
    <3> QED
      BY <3>1, FdSame
  <2>2. CASE ok
    <3>1. SetFd(t, [op |-> "fat", fil |-> f, mode |-> fat_mode(m)]) /\ FreeFds(t) # {}
      BY <1>2, <2>2 DEF OpenFat
    <3> QED
      BY <3>1, FdTaken, InodeKinds
  <2> QED
    BY <2>1, <2>2
<1> QED
  BY <1>1, <1>2

LEMMA ExitFdStep ==
    ASSUME OpenInv, NodeInv, NEW t \in Task, TaskExit(t)
    PROVE  FdStep
<1>1. /\ fd' = [fd EXCEPT ![t] = [n \in Fd |-> NoInode]]
      /\ fd \in [Task -> [Fd -> Inodes]]
  BY DEF TaskExit, OpenInv
<1>2. \A u \in Task, n \in Fd : fd'[u][n] = IF u = t THEN NoInode ELSE fd[u][n]
  BY <1>1
<1>3. left'.exits < left.exits
  <2>1. Spend("exits") /\ left \in LeftSet
    BY DEF TaskExit, NodeInv
  <2>2. left' \in LeftSet /\ left'["exits"] < left["exits"]
    BY <2>1, SpendType
  <2> QED
    BY <2>1, <2>2 DEF LeftSet
<1> QED
  BY <1>2, <1>3 DEF FdStep

(* A step that leaves registry, nodes and descriptors alone. *)
LEMMA Elsewhere ==
    ASSUME NodeInv, OpenInv, UNCHANGED <<device_list, nodes, boot, fils, fd, leaked>>,
           left' \in LeftSet, fault' \in {"none", "panic", "wild", "badfd"}
    PROVE  NodeInv' /\ OpenInv' /\ Grows(nodes, nodes') /\ FdStep
<1>1. NodeInv' /\ Grows(nodes, nodes')
  BY NodesSame
<1> QED
  BY <1>1, OpenSame, FdSame

(* A use of a descriptor that leads to a device. *)
LEMMA UseDevice ==
    ASSUME NodeInv, OpenInv, NEW t \in Task, NEW n \in Fd, OnDevice(t, n), Bind(t, n),
           left' \in LeftSet
    PROVE  NodeInv' /\ OpenInv' /\ Grows(nodes, nodes') /\ FdStep
<1>1. fd[t][n].node \in DOMAIN nodes
  <2>1. fd[t][n].node \in 2 .. Len(nodes) /\ nodes \in Seq(NodeSet)
    BY DEF OpenInv, OnDevice, NodeInv, Listed
  <2> QED
    BY <2>1
<1>2. NodeInv' /\ Grows(nodes, nodes')
  BY <1>1, BindNodes
<1>3. UNCHANGED <<fd, fils, leaked>>
  BY DEF Bind
<1> QED
  BY <1>2, <1>3, OpenSame, FdSame

LEMMA VfsStep ==
    ASSUME VfsInv, [Next]_vars
    PROVE  VfsInv' /\ Grows(nodes, nodes') /\ FdStep
<1> USE DEF VfsInv
<1>0. left \in LeftSet /\ fault \in {"none", "panic", "wild", "badfd"}
  BY DEF NodeInv
<1>1. CASE UNCHANGED vars
  <2>1. UNCHANGED <<ttyVars, kbdVars, vfsVars>>
    BY <1>1 DEF vars
  <2>2. UNCHANGED <<device_list, nodes, boot, fils, fd, leaked, left, fault>>
    BY <2>1 DEF vfsVars
  <2> QED
    BY <1>0, <2>1, <2>2, TtyStutter, KeyStutter, Elsewhere
<1>2. CASE VfsInit
  <2>1. UNCHANGED <<ttyVars, kbdVars, fd, fils, leaked>>
    BY <1>2 DEF VfsInit
  <2>2. NodeInv' /\ Grows(nodes, nodes')
    BY <1>2, VfsInitNodes
  <2> QED
    BY <2>1, <2>2, TtyStutter, KeyStutter, OpenSame, FdSame
<1>3. CASE KeyboardBoot
  <2>1. UNCHANGED <<ttyVars, kbdVars, fd, fils, leaked>>
    BY <1>3 DEF KeyboardBoot
  <2>2. NodeInv' /\ Grows(nodes, nodes')
    BY <1>3, KeyboardBootNodes
  <2> QED
    BY <2>1, <2>2, TtyStutter, KeyStutter, OpenSame, FdSame
<1>4. CASE KeyboardStep
  <2>1. UNCHANGED <<ttyVars, device_list, nodes, boot, fils, fd, leaked, fault>>
    BY <1>4 DEF KeyboardStep
  <2>2. KeyInv' /\ left' \in LeftSet
    <3>1. CASE (\E k \in Key : Press(k) \/ Release(k)) /\ Spend("keys")
      BY <3>1, <1>0, SpendType, KeyPress, KeyRelease
    <3>2. CASE OtherKey /\ Spend("keys")
      BY <3>2, <1>0, SpendType, KeyOther
    <3>3. CASE KeyboardHandler /\ UNCHANGED left
      BY <3>3, <1>0, KeyHandler
    <3> QED
      BY <1>4, <3>1, <3>2, <3>3 DEF KeyboardStep
  <2> QED
    BY <1>0, <2>1, <2>2, TtyStutter, Elsewhere
<1>5. ASSUME NEW s \in Subtype, DeviceInstall(s)
      PROVE  VfsInv' /\ Grows(nodes, nodes') /\ FdStep
  <2>1. UNCHANGED <<ttyVars, kbdVars, fd, fils, leaked>>
    BY <1>5 DEF DeviceInstall
  <2>2. NodeInv' /\ Grows(nodes, nodes')
    BY <1>5, DeviceInstallNodes
  <2> QED
    BY <2>1, <2>2, TtyStutter, KeyStutter, OpenSame, FdSame
<1>6. ASSUME NEW p \in KDirs, sys_mkdir(p)
      PROVE  VfsInv' /\ Grows(nodes, nodes') /\ FdStep
  <2>1. UNCHANGED <<ttyVars, kbdVars, fd, fils, leaked>>
    BY <1>6 DEF sys_mkdir
  <2>2. NodeInv' /\ Grows(nodes, nodes')
    BY <1>6, sys_mkdirNodes
  <2> QED
    BY <2>1, <2>2, TtyStutter, KeyStutter, OpenSame, FdSame
<1>7. ASSUME NEW k \in KNodes, sys_mknod(k[1], k[2], k[3])
      PROVE  VfsInv' /\ Grows(nodes, nodes') /\ FdStep
  <2>1. UNCHANGED <<ttyVars, kbdVars, fd, fils, leaked>>
    BY <1>7 DEF sys_mknod
  <2>2. NodeInv' /\ Grows(nodes, nodes')
    BY <1>7, sys_mknodNodes
  <2> QED
    BY <2>1, <2>2, TtyStutter, KeyStutter, OpenSame, FdSame
<1>8. ASSUME NEW t \in Task, NEW p \in UPaths, OpenNode(t, p)
      PROVE  VfsInv' /\ Grows(nodes, nodes') /\ FdStep
  <2>1. UNCHANGED <<ttyVars, kbdVars, device_list, nodes, boot, fault>> /\ Spend("opens")
    BY <1>8 DEF OpenNode
  <2>2. NodeInv' /\ Grows(nodes, nodes')
    BY <2>1, <1>0, SpendType, NodesSame
  <2> QED
    BY <1>8, <2>1, <2>2, TtyStutter, KeyStutter, OpenNodeFds, OpenFdStep
<1>9. ASSUME NEW t \in Task, NEW p \in UPaths, OpenNull(t, p)
      PROVE  VfsInv' /\ Grows(nodes, nodes') /\ FdStep
  <2>1. /\ UNCHANGED <<ttyVars, kbdVars, device_list, nodes, boot, fils, fd, leaked>>
        /\ Spend("opens") /\ fault' = "wild"
    BY <1>9 DEF OpenNull
  <2> QED
    BY <2>1, <1>0, SpendType, TtyStutter, KeyStutter, Elsewhere
<1>10. ASSUME NEW t \in Task, NEW p \in UPaths, NEW m \in Modes, NEW f \in Fil,
              NEW ok \in BOOLEAN, OpenFat(t, p, m, f, ok)
       PROVE  VfsInv' /\ Grows(nodes, nodes') /\ FdStep
  <2>1. UNCHANGED <<ttyVars, kbdVars, device_list, nodes, boot, fault>> /\ Spend("opens")
    BY <1>10 DEF OpenFat
  <2>2. NodeInv' /\ Grows(nodes, nodes')
    BY <2>1, <1>0, SpendType, NodesSame
  <2>3. OpenInv'
    BY <1>10, <2>2, OpenFatFds
  <2>4. FdStep
    BY <1>10, OpenFdStep
  <2> QED
    BY <2>1, <2>2, <2>3, <2>4, TtyStutter, KeyStutter
<1>11. ASSUME NEW t \in Task, NEW n \in Fd, ReadDevice(t, n)
       PROVE  VfsInv' /\ Grows(nodes, nodes') /\ FdStep
  <2>1. OnDevice(t, n) /\ Bind(t, n) /\ UNCHANGED <<ttyVars, left>>
    BY <1>11 DEF ReadDevice
  <2>2. KeyboardRead \/ UNCHANGED kbdVars
    BY <1>11 DEF ReadDevice
  <2> QED
    BY <2>1, <2>2, <1>0, TtyStutter, KeyStutter, KeyRead, UseDevice
<1>12. ASSUME NEW t \in Task, NEW n \in Fd, NEW c \in Char, WriteDevice(t, n, c)
       PROVE  VfsInv' /\ Grows(nodes, nodes') /\ FdStep
  <2>1. OnDevice(t, n) /\ Bind(t, n) /\ UNCHANGED kbdVars /\ Spend("chars")
    BY <1>12 DEF WriteDevice
  <2>2. TtyPrint(c) \/ UNCHANGED ttyVars
    BY <1>12 DEF WriteDevice
  <2> QED
    BY <2>1, <2>2, <1>0, SpendType, TtyStutter, TtyPrintInv, KeyStutter, UseDevice
<1>13. ASSUME NEW t \in Task, BadFd(t)
       PROVE  VfsInv' /\ Grows(nodes, nodes') /\ FdStep
  <2>1. /\ UNCHANGED <<ttyVars, kbdVars, device_list, nodes, boot, fils, fd, leaked>>
        /\ Spend("exits") /\ fault' = "badfd"
    BY <1>13 DEF BadFd
  <2> QED
    BY <2>1, <1>0, SpendType, TtyStutter, KeyStutter, Elsewhere
<1>14. ASSUME NEW t \in Task, TaskExit(t)
       PROVE  VfsInv' /\ Grows(nodes, nodes') /\ FdStep
  <2>1. UNCHANGED <<ttyVars, kbdVars, device_list, nodes, boot, fault>> /\ Spend("exits")
    BY <1>14 DEF TaskExit
  <2>2. NodeInv' /\ Grows(nodes, nodes')
    BY <2>1, <1>0, SpendType, NodesSame
  <2> QED
    BY <1>14, <2>1, <2>2, TtyStutter, KeyStutter, TaskExitFds, ExitFdStep
<1> QED
  BY <1>1, <1>2, <1>3, <1>4, <1>5, <1>6, <1>7, <1>8, <1>9, <1>10, <1>11, <1>12, <1>13, <1>14
  DEF Next

LEMMA VfsStart == Init => VfsInv
<1> SUFFICES ASSUME Init PROVE VfsInv
  OBVIOUS
<1>1. TtyInv /\ KeyInv
  BY TtyInitInv, KeyInit DEF Init
<1>2. NodeInv
  <2>1. device_list = [i \in Ids |-> IF i = 1 THEN "tty" ELSE "null"]
    BY DEF Init, Ids
  <2>2. Packed(device_list)
    BY <2>1, IdsNat DEF Packed, Subtype
  <2>3. nodes = <<>> /\ DOMAIN nodes = {}
    BY DEF Init
  <2>4. Listed(nodes) /\ Bound(device_list, nodes)
    BY <2>3 DEF Listed, Bound
  <2>5. left \in LeftSet
    BY VfsAssumption DEF Init, LeftSet
  <2> QED
    BY <2>2, <2>3, <2>4, <2>5 DEF Init, NodeInv
<1>3. OpenInv
  <2>1. /\ fd = [t \in Task |-> [n \in Fd |-> NoInode]]
        /\ fils = {} /\ leaked = {}
    BY DEF Init
  <2>2. \A t \in Task, n \in Fd : fd[t][n] = NoInode
    BY <2>1
  <2>3. fd \in [Task -> [Fd -> Inodes]]
    BY <2>1, InodeKinds
  <2>4. \A t \in Task, n \in Fd : fd[t][n].op = "none"
    BY <2>2, InodeKinds
  <2>5. \A t \in Task, n \in Fd : \A f : ~Owner(t, n, f)
    BY <2>4 DEF Owner
  <2> QED
    BY <2>1, <2>3, <2>4, <2>5 DEF OpenInv
<1> QED
  BY <1>1, <1>2, <1>3 DEF VfsInv

LEMMA VfsAlways ==
    Spec => []VfsInv /\ [][VfsInv /\ VfsInv' /\ Grows(nodes, nodes') /\ FdStep]_vars
<1>1. VfsInv /\ [Next]_vars => VfsInv'
  BY VfsStep
<1>2. VfsInv /\ VfsInv' /\ [Next]_vars => [VfsInv /\ VfsInv' /\ Grows(nodes, nodes') /\ FdStep]_vars
  BY VfsStep
<1> QED
  BY <1>1, <1>2, VfsStart, PTL DEF Spec

-----------------------------------------------------------------------------
LEMMA VfsTypes == ASSUME VfsInv PROVE TypeOK
<1>1. TtyTypeOK /\ KeyboardTypeOK
  BY DEF VfsInv, TtyInv, KeyInv
<1>2. device_list \in [0 .. DEV_NR - 1 -> Subtype \cup {"null"}]
  BY DEF VfsInv, NodeInv, Packed, Ids
<1>3. \A i \in DOMAIN nodes : nodes[i].dev \in 0 .. DEV_NR - 1
  <2>1. \A i \in DOMAIN nodes : nodes[i] \in NodeSet
    BY DEF VfsInv, NodeInv, Listed
  <2> QED
    BY <2>1 DEF NodeSet
<1>4. \A x \in DOMAIN left : left[x] \in Nat
  BY DEF VfsInv, NodeInv, LeftSet
<1> QED
  BY <1>1, <1>2, <1>3, <1>4 DEF TypeOK, VfsInv, NodeInv, OpenInv

LEMMA VfsCurrent == ASSUME VfsInv PROVE BoundIsCurrent
<1>1. device_list[0] = "null" /\ Bound(device_list, nodes)
  BY DEF VfsInv, NodeInv, Packed
<1> QED
  BY <1>1, FindIs DEF BoundIsCurrent, Bound

LEMMA VfsOwned == ASSUME VfsInv PROVE FilsOwned
<1> SUFFICES ASSUME NEW f \in fils
             PROVE  Cardinality({x \in Task \X Fd : fd[x[1]][x[2]].op = "fat" /\ fd[x[1]][x[2]].fil = f})
                    = IF f \in leaked THEN 0 ELSE 1
  BY DEF FilsOwned
<1> DEFINE H == {x \in Task \X Fd : fd[x[1]][x[2]].op = "fat" /\ fd[x[1]][x[2]].fil = f}
<1>1. \A t \in Task, n \in Fd : <<t, n>> \in H <=> Owner(t, n, f)
  BY DEF Owner
<1>2. \A x \in H : \E t \in Task, n \in Fd : x = <<t, n>>
  OBVIOUS
<1>3. OpenInv
  BY DEF VfsInv
<1> HIDE DEF H
<1>4. CASE f \in leaked
  <2>1. H = {}
    BY <1>1, <1>2, <1>3, <1>4 DEF OpenInv
  <2>2. Cardinality(H) = 0
    BY <2>1, FS_EmptySet
  <2> QED
    BY <2>2, <1>4 DEF H
<1>5. CASE f \notin leaked
  <2>1. PICK t \in Task, n \in Fd : Owner(t, n, f)
    BY <1>3, <1>5 DEF OpenInv
  <2>2. H = {<<t, n>>}
    BY <1>1, <1>2, <1>3, <2>1 DEF OpenInv
  <2>3. Cardinality(H) = 1
    BY <2>2, FS_Singleton
  <2> QED
    BY <2>3, <1>5 DEF H
<1> QED
  BY <1>4, <1>5

-----------------------------------------------------------------------------
(* The variables of the file layer keep their types.                       *)
THEOREM VfsTypeCorrect == Spec => []TypeOK
<1>1. VfsInv => TypeOK
  BY VfsTypes
<1> QED
  BY <1>1, VfsAlways, PTL

(* Whatever tasks write, the cursor of tty_print stays on the screen and   *)
(* the screen shows the end of it (tty.c:31-75).                           *)
THEOREM ScreenShowsTail == Spec => []ShowsTail
<1>1. VfsInv => ShowsTail
  BY DEF VfsInv, TtyInv
<1> QED
  BY <1>1, VfsAlways, PTL

(* Whatever keys are pressed, keyboard_read gives the oldest character     *)
(* typed since the last read, as it was meant (keyboard.c:270-343).        *)
THEOREM OldestKept == Spec => []KeepsOldest
<1>1. VfsInv => KeepsOldest
  BY DEF VfsInv, KeyInv
<1> QED
  BY <1>1, VfsAlways, PTL

(* When the wire is empty the driver's shift state is the real one: no     *)
(* prefix, fake shift or skipped code leaves it wrong (keyboard.c:287-301).*)
THEOREM ShiftTracksKeys == Spec => []ShiftIsPhysical
<1>1. VfsInv => ShiftIsPhysical
  BY KeyPhysical DEF VfsInv
<1> QED
  BY <1>1, VfsAlways, PTL

(* A device number kept in a node is what device_find gives at any later   *)
(* time (rootfs.c:105,121; dev.c:21-60).                                   *)
THEOREM BoundStaysCurrent == Spec => []BoundIsCurrent
<1>1. VfsInv => BoundIsCurrent
  BY VfsCurrent
<1> QED
  BY <1>1, VfsAlways, PTL

(* A FIL has one descriptor, or none once its task has ended (fat.c:33-61).*)
THEOREM FilsHaveOneOwner == Spec => []FilsOwned
<1>1. VfsInv => FilsOwned
  BY VfsOwned
<1> QED
  BY <1>1, VfsAlways, PTL

(* A descriptor is not given to another inode before its task ends         *)
(* (vfs.c:82-102).                                                         *)
THEOREM DescriptorsStable == Spec => FdStable
<1>1. [VfsInv /\ VfsInv' /\ Grows(nodes, nodes') /\ FdStep]_vars =>
        [\A t \in Task, n \in Fd :
            fd[t][n] # NoInode =>
                \/ fd'[t][n] = fd[t][n]
                \/ left'.exits < left.exits /\ \A k \in Fd : fd'[t][k] = NoInode]_vars
  BY DEF FdStep
<1> QED
  BY <1>1, VfsAlways, PTL DEF FdStable

(* A path that is found is found at the same node ever after               *)
(* (rootfs.c:33-53): later nodes of the same name do not hide it.          *)
THEOREM PathsStable == Spec => PathStable
<1>1. VfsInv /\ VfsInv' /\ Grows(nodes, nodes') =>
        \A p \in UPaths : find_inode_by_path(nodes, p) # 0 =>
            find_inode_by_path(nodes', p) = find_inode_by_path(nodes, p)
  BY FindStays DEF VfsInv, NodeInv, Listed
<1>2. [VfsInv /\ VfsInv' /\ Grows(nodes, nodes') /\ FdStep]_vars =>
        [\A p \in UPaths : find_inode_by_path(nodes, p) # 0 =>
            find_inode_by_path(nodes', p) = find_inode_by_path(nodes, p)]_vars
  BY <1>1
<1> QED
  BY <1>2, VfsAlways, PTL DEF PathStable
=============================================================================
