------------------------------ MODULE Vsprintf ------------------------------
(***************************************************************************)
(* src/lib/vsprintf.c: one directive of a format and what it writes.  A    *)
(* directive d has flags (of "-+ #0"), a width and a precision, each given *)
(* as [star |-> by an argument, v |-> its value] with v = -1 when there is *)
(* none, a conversion and an argument.  Numbers have U bits.  A text is a  *)
(* sequence of characters; a digit or letter is its place in digits.       *)
(***************************************************************************)
EXTENDS Loops, Sequences, SequencesExt

CONSTANT U

ASSUME VsprintfAssumption == U \in Nat \ {0}

Blank == -1
Minus == -2
Plus == -3
X == 33

(* A directive.  A number in the format has no sign.                       *)
Flag == {"-", "+", " ", "#", "0"}
Field == {f \in [star : BOOLEAN, v : Int] : f.star \/ f.v >= -1}
NumberDirective == [flags : SUBSET Flag, width : Field, prec : Field,
                    conv : {"d", "u", "o", "x", "b", "p"}, arg : 0 .. Pow2[U] - 1]
TextDirective == [flags : SUBSET Flag, width : Field, prec : Field,
                  conv : {"c", "s"}, arg : Seq(Int)]

(* Copies(c, n): what "while (n-- > 0) *str++ = c" writes. *)
Copies(c, n) == [i \in 1 .. (IF n > 0 THEN n ELSE 0) |-> c]

(* The digits as tmp gets them, the last one first; U turns are enough.    *)
NextDigit(s, base) ==
    IF s.num = 0 THEN s
    ELSE [num |-> s.num \div base, tmp |-> Append(s.tmp, s.num % base)]

Digits(num, base) ==
    IF num = 0 THEN <<0>>
    ELSE Loop(LAMBDA s, k : NextDigit(s, base), [num |-> num, tmp |-> <<>>], U).tmp

(* Of a text: its sign, its prefix. *)
Sign(num, flags) ==
    IF "SIGN" \in flags /\ num >= Pow2[U - 1] THEN <<Minus>>
    ELSE IF "+" \in flags THEN <<Plus>> ELSE IF " " \in flags THEN <<Blank>> ELSE <<>>

Prefix(base, flags) ==
    IF "#" \notin flags THEN <<>>
    ELSE IF base = 8 THEN <<0>> ELSE IF base = 16 THEN <<0, X>> ELSE <<>>

\* Mutant of Written: the digits in the order of tmp.
WrittenTmp(tmp) == tmp
Written(tmp) == Reverse(tmp)

number(num, base, width, prec, flags) ==
    LET sign == Sign(num, flags)
        tmp == Digits(IF sign = <<Minus>> THEN Pow2[U] - num ELSE num, base)
        precision == IF Len(tmp) > prec THEN Len(tmp) ELSE prec
        size == width - Len(sign) - Len(Prefix(base, flags)) - precision
        zeropad == "0" \in flags /\ "-" \notin flags
        blank(where) == (IF "-" \in flags THEN "after" ELSE IF zeropad THEN "none" ELSE "before") = where
    IN  Copies(Blank, IF blank("before") THEN size ELSE 0) \o sign \o Prefix(base, flags)
        \o Copies(0, IF zeropad THEN size ELSE 0) \o Copies(0, precision - Len(tmp))
        \o Written(tmp) \o Copies(Blank, IF blank("after") THEN size ELSE 0)

(* A negative width by argument means left, a negative precision 0. *)
Flags(d) == IF d.width.star /\ d.width.v < 0 THEN d.flags \cup {"-"} ELSE d.flags
Width(d) == IF d.width.star /\ d.width.v < 0 THEN -d.width.v ELSE d.width.v
Precision(d) == IF d.prec.star /\ d.prec.v < 0 THEN 0 ELSE d.prec.v

(* %s; %c writes the string of its one character, without a precision. *)
Padded(text, width, flags) ==
    LET n == width - Len(text)
    IN  IF "-" \in flags THEN text \o Copies(Blank, n) ELSE Copies(Blank, n) \o text

Cut(s, prec) == IF prec >= 0 /\ Len(s) > prec THEN SubSeq(s, 1, prec) ELSE s

Base(conv) == CASE conv = "o" -> 8 [] conv \in {"p", "x"} -> 16 [] conv = "b" -> 2 [] OTHER -> 10

vsprintf(d) ==
    CASE d.conv = "c" -> Padded(d.arg, Width(d), Flags(d))
      [] d.conv = "s" -> Padded(Cut(d.arg, Precision(d)), Width(d), Flags(d))
      [] d.conv = "p" /\ Width(d) = -1 -> number(d.arg, 16, 8, Precision(d), Flags(d) \cup {"0"})
      [] OTHER -> number(d.arg, Base(d.conv), Width(d), Precision(d),
                         Flags(d) \cup (IF d.conv = "d" THEN {"SIGN"} ELSE {}))
=============================================================================
