-------------------------------- MODULE Lib --------------------------------
(***************************************************************************)
(* The pure functions of src/lib and of the names of FatFs, called one at  *)
(* a time with every argument of small sets: divisions (Arith64),          *)
(* directives of vsprintf (Vsprintf), comparisons of strings (string.c),   *)
(* conversions of characters, names in a directory (FatNames).  call holds *)
(* the function, its arguments and its result.                             *)
(***************************************************************************)
EXTENDS Arith64, Vsprintf, FatNames

CONSTANTS Strings,       \* strings to compare
          Directives,    \* for vsprintf
          Entries,       \* pairs in a table of the code page: 21792
          Programs,      \* sequences of calls on a directory
          Typed          \* names that are looked up then

\* A search in half a table after another ends after 16 probes.
ASSUME LibAssumption ==
    /\ Strings \subseteq Seq(Int \ {0})
    /\ \A d \in Directives : IF d.conv \in {"c", "s"} THEN d \in TextDirective ELSE d \in NumberDirective
    /\ Entries \in 1 .. 32768

VARIABLE call

(* Characters are numbers; a string ends at its length, where EOS = 0 is.  *)
Char(s, i) == IF i <= Len(s) THEN s[i] ELSE 0
Order(a, b) == IF a < b THEN -1 ELSE IF a > b THEN 1 ELSE 0

(* The first position where the strings differ or end. *)
Stop(l, r) ==
    CHOOSE i \in 1 .. Len(l) + 1 :
        /\ Char(l, i) # Char(r, i) \/ Char(l, i) = 0
        /\ \A j \in 1 .. i - 1 : Char(l, j) = Char(r, j)

\* Mutant of strcmp: differing characters count as greater.
strcmpGreater(l, r) == IF Char(l, Stop(l, r)) # Char(r, Stop(l, r)) THEN 1 ELSE 0
strcmp(l, r) == Order(Char(l, Stop(l, r)), Char(r, Stop(l, r)))

(* n-- is evaluated for equal characters only: when it was 0 already, n is *)
(* -1 after the loop and the strings count as different.                   *)
strncmp(l, r, n) ==
    IF Stop(l, r) - 1 = n THEN 0
    ELSE LET i == IF Stop(l, r) - 1 < n THEN Stop(l, r) ELSE n + 1
         IN  IF Char(l, i) < Char(r, i) THEN -1 ELSE 1

Init == call = [fn |-> "none"]

Divide ==
    \E a, b \in Word :
        /\ b # 0
        /\ call' = [fn |-> "div", a |-> a, b |-> b, u |-> divmoddi4(a, b),
                    q |-> divdi3(a, b), r |-> moddi3(a, b)]

Shift ==
    \E a \in Word, n \in 0 .. W - 1 :
        call' = [fn |-> "shift", a |-> a, n |-> n, left |-> ashldi3(a, n),
                 right |-> lshrdi3(a, n), sright |-> ashrdi3(a, n)]

Format == \E d \in Directives : call' = [fn |-> "vsprintf", d |-> d, text |-> vsprintf(d)]

Compare ==
    \E l, r \in Strings :
        call' = [fn |-> "cmp", l |-> l, r |-> r, all |-> strcmp(l, r),
                 head |-> strncmp(l, r, Len(l))]

(* A search in a table as long as the real one; its keys are odd.          *)
Table == [i \in 0 .. Entries |-> IF i = Entries THEN <<0, 0>> ELSE <<2 * i + 1, i + 1>>]

Units == 0 .. 65535              \* of UTF-16

Convert ==
    \/ \E c \in Units : call' = [fn |-> "upper", up |-> ff_wtoupper[c]]
    \/ \E x \in 1 .. 2 * Entries : call' = [fn |-> "search", key |-> x, val |-> Search(Table, Entries, x)]

Program == \E ops \in Programs : call' = [fn |-> "names", v |-> Volume0, todo |-> ops]

(* The next call of a program. *)
Step ==
    /\ call.fn = "names" /\ call.todo # <<>>
    /\ call' = [call EXCEPT !.v = Do(@, Head(call.todo)), !.todo = Tail(@)]

Next ==
    \/ call.fn = "none" /\ (Divide \/ Shift \/ Format \/ Compare \/ Convert \/ Program)
    \/ Step

Spec == Init /\ [][Next]_call

-----------------------------------------------------------------------------
(* Division gives quotient and remainder, with the remainder smaller than  *)
(* the divisor and of the sign of the numerator; only the lowest number by *)
(* -1 wraps.  Shifts are products and quotients by powers of two, rounded  *)
(* down.                                                                   *)
Exact ==
    /\ call.fn = "div" =>
        /\ call.a = call.u.q * call.b + call.u.r /\ call.u.r \in 0 .. call.b - 1
        /\ LET a == Signed(call.a)  b == Signed(call.b)
               q == Signed(call.q)  r == Signed(call.r)
           IN  \/ a = q * b + r /\ (r = 0 \/ (r < 0) = (a < 0))
                  /\ (IF r < 0 THEN -r ELSE r) < (IF b < 0 THEN -b ELSE b)
               \/ a = -Pow2[W - 1] /\ b = -1 /\ q = a /\ r = 0
    /\ call.fn = "shift" =>
        /\ call.left = Trunc(call.a * Pow2[call.n])
        /\ call.right = call.a \div Pow2[call.n]
        /\ Signed(call.sright) = Signed(call.a) \div Pow2[call.n]

(* What the text of a number says: between blanks on one side at most, a   *)
(* sign, a prefix and digits that read as the argument, as many as the     *)
(* precision asks for; the text is as wide as asked, and never padded when *)
(* it is wider.                                                            *)
Value(ds, base) == Loop(LAMBDA v, k : v * base + ds[k], 0, Len(ds))

None == [star |-> FALSE, v |-> -1]

Reads(text, d, i, j) ==
    LET left == "-" \in d.flags \/ (d.width.star /\ d.width.v < 0)
        wide == IF d.width = None /\ d.conv = "p" THEN 8
                ELSE IF d.width.v < 0 THEN -d.width.v ELSE d.width.v
        head == Sign(d.arg, d.flags \cup (IF d.conv = "d" THEN {"SIGN"} ELSE {}))
                \o Prefix(Base(d.conv), d.flags)
        body == SubSeq(text, i + 1, Len(text) - j)
        ds == SubSeq(body, Len(head) + 1, Len(body))
        minus == head # <<>> /\ head[1] = Minus
    IN  /\ Len(text) >= wide
        /\ IF left THEN i = 0 ELSE j = 0
        /\ IsPrefix(head, body) /\ ds # <<>>
        /\ \A k \in DOMAIN ds : ds[k] \in 0 .. Base(d.conv) - 1
        /\ Value(ds, Base(d.conv)) = IF minus THEN Pow2[U] - d.arg ELSE d.arg
        /\ Len(ds) >= d.prec.v
        /\ Len(text) > wide => /\ i = 0 /\ j = 0
                              /\ \/ Len(ds) = 1 \/ Len(ds) <= d.prec.v
                                 \/ ds[1] # 0

(* The text of a string: what the precision leaves of it, padded likewise; *)
(* a character has no precision.                                           *)
Shows(text, d, i, j) ==
    LET body == SubSeq(text, i + 1, Len(text) - j)
        wide == IF d.width.v < 0 THEN -d.width.v ELSE d.width.v
        prec == IF d.conv = "c" THEN None ELSE d.prec
    IN  /\ IsPrefix(body, d.arg) /\ (i = 0 \/ j = 0)
        /\ Len(body) < Len(d.arg) => Len(body) = (IF prec.v < 0 THEN 0 ELSE prec.v)
        /\ Len(body) > prec.v => prec = None \/ body = <<>>
        /\ IF wide > Len(body) /\ d.width # None
           THEN Len(text) = wide /\ (j = 0) = ("-" \notin d.flags /\ d.width.v >= 0)
           ELSE text = body

Says(text, d) ==
    LET Blanks(ks) == \A k \in ks : text[k] = Blank
    IN  \E i, j \in 0 .. Len(text) :
            /\ i + j <= Len(text)
            /\ Blanks(1 .. i) /\ Blanks(Len(text) - j + 1 .. Len(text))
            /\ IF d.conv \in {"c", "s"} THEN Shows(text, d, i, j) ELSE Reads(text, d, i, j)

ReadsBack == call.fn = "vsprintf" => Says(call.text, call.d)

(* strcmp is an order in which only equal strings are equal; strncmp with  *)
(* the length of its first argument, as find_inode_by_path uses it, tells  *)
(* whether that is a prefix of the second.                                 *)
Compares ==
    call.fn = "cmp" =>
        /\ (call.all = 0) = (call.l = call.r)
        /\ call.all = -strcmp(call.r, call.l)
        /\ (call.head = 0) = IsPrefix(call.l, call.r)

(* The search finds every entry of the table, the last one before the end  *)
(* mark included, and nothing else.                                        *)
Searches ==
    call.fn = "search" => call.val = (IF call.key % 2 = 1 THEN (call.key + 1) \div 2 ELSE 0)

(* After any calls: the directory lists every object once, by the name it  *)
(* was made with; a name finds the object made under it, in whatever case, *)
(* or the one whose short name it is, and nothing else, whatever names the *)
(* static buffer held before; a short name finds its object; and no slot   *)
(* of a long name is left without its object.  Excepted is a short name    *)
(* whose first byte stands for the mark of deleted entries: gen_numname    *)
(* does not know it for the first half of a character and may cut the last *)
(* character of the name in two.  And upper case is final, so that two     *)
(* names compare the same whichever of them is converted first.            *)
Upper(units) == [k \in DOMAIN units |-> ff_wtoupper[units[k]]]
Folded(bytes) == Upper(Decoded(bytes))

Found(v, nm) == IF nm.ok THEN dir_find(v.dir, nm, InBuffer(nm, v.lfnbuf)).at ELSE 0
Find(v, name) == Found(v, create_name(name))

Live(v) == {i \in DOMAIN v.objs : v.objs[i] # <<>>}
SlotsOf(v, k) == {j \in DOMAIN v.dir : v.dir[j] # Free /\ v.dir[j].k = k}

\* at is what a name with folded form u should lead to.
FindsOwn(v, u, at) ==
    LET own == {i \in Live(v) : Folded(v.objs[i]) = u}
    IN  IF own # {} THEN at # 0 /\ own = {v.dir[at].id}
        ELSE at # 0 => Folded(AltName(v.dir[at].fn)) = u

NamesKept ==
    /\ call.fn = "upper" => ff_wtoupper[call.up] = call.up
    /\ call.fn = "names" =>
        LET v == call.v
        IN  /\ Listing(v.dir, v.lfnbuf) = {<<i, v.objs[i]>> : i \in Live(v)}
            /\ Cardinality(SlotsOf(v, "sfn")) = Cardinality(Live(v))
            /\ \A name \in Typed \cup {v.objs[i] : i \in Live(v)} :
                  FindsOwn(v, Folded(Snipped(name)), Find(v, name))
            /\ \A j \in SlotsOf(v, "sfn") :
                  v.dir[j].fn[1] # RDDEM => Find(v, AltName(v.dir[j].fn)) = j
            /\ \A j \in SlotsOf(v, "lfn") : j + 1 \in SlotsOf(v, "sfn") \cup SlotsOf(v, "lfn")
=============================================================================
