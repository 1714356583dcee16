------------------------------ MODULE Arith64 ------------------------------
(***************************************************************************)
(* src/lib/arith64.c: what the compiler calls for shifts and divisions of  *)
(* twice the width of a register.  Words have W bits, twice the H = 32 of  *)
(* a register; they are kept as their unsigned value.                      *)
(***************************************************************************)
EXTENDS Loops

CONSTANT L                       \* a register has 2^L bits: 5

ASSUME ArithAssumption == L \in Nat

H == Pow2[L]
W == 2 * H
Word == 0 .. Pow2[W] - 1
Trunc(x) == x % Pow2[W]
hi(a) == a \div Pow2[H]
lo(a) == a % Pow2[H]
Signed(a) == IF a >= Pow2[W - 1] THEN a - Pow2[W] ELSE a

(* arith64_neg: by the sign of b; the lowest number is its own negative.   *)
neg(a, b) == IF Signed(b) < 0 THEN Trunc(-a) ELSE a

(* The shifts put the two registers together; b is taken modulo the width. *)
ashldi3(a, b) ==
    LET n == b % W
    IN  IF n >= H THEN ((lo(a) * Pow2[n - H]) % Pow2[H]) * Pow2[H]
        ELSE IF n = 0 THEN a
        ELSE (((lo(a) \div Pow2[H - n]) + hi(a) * Pow2[n]) % Pow2[H]) * Pow2[H]
             + ((lo(a) * Pow2[n]) % Pow2[H])

lshrdi3(a, b) ==
    LET n == b % W
    IN  IF n >= H THEN hi(a) \div Pow2[n - H]
        ELSE IF n = 0 THEN a
        ELSE (hi(a) \div Pow2[n]) * Pow2[H]
             + ((hi(a) * Pow2[H - n]) % Pow2[H]) + (lo(a) \div Pow2[n])

(* The high register is shifted as a signed number.                        *)
ashrdi3(a, b) ==
    LET n == b % W
        shi == IF hi(a) >= Pow2[H - 1] THEN hi(a) - Pow2[H] ELSE hi(a)
    IN  IF n >= H THEN ((shi \div Pow2[H - 1]) % Pow2[H]) * Pow2[H]
                       + ((shi \div Pow2[n - H]) % Pow2[H])
        ELSE IF n = 0 THEN a
        ELSE ((shi \div Pow2[n]) % Pow2[H]) * Pow2[H]
             + ((hi(a) * Pow2[H - n]) % Pow2[H]) + (lo(a) \div Pow2[n])

(* Half of the remaining bits is passed over when it is 0.                 *)
clz(a) ==
    LET Pass(s, k) ==
            IF s.a \div Pow2[W - k] = 0 THEN [a |-> Trunc(s.a * Pow2[k]), n |-> s.n + k] ELSE s
    IN  Loop(LAMBDA s, i : Pass(s, Pow2[L + 1 - i]), [a |-> a, n |-> 0], L + 1).n

(* One round of the long division: the next bit of a goes into rem, the    *)
(* last bit of the quotient into a; wrap is all ones when b <= rem.        *)
\* Mutant of Wrap: without the subtraction of 1.
WrapLate(b, rem) == IF Signed(Trunc(b - rem)) < 0 THEN 1 ELSE 0
Wrap(b, rem) == IF Signed(Trunc(b - rem - 1)) < 0 THEN 1 ELSE 0

Round(b, s) ==
    LET rem == Trunc(s.rem * 2 + (s.a \div Pow2[W - 1]))
    IN  [a |-> Trunc(s.a * 2 + s.wrap), wrap |-> Wrap(b, rem),
         rem |-> Trunc(rem - b * Wrap(b, rem))]

LongDivision(a, b) ==
    LET bits == clz(b) - clz(a) + 1
        s0 == [rem |-> a \div Pow2[bits], a |-> Trunc(a * Pow2[W - bits]), wrap |-> 0]
        s == Loop(LAMBDA t, i : Round(b, t), s0, bits)
    IN  [q |-> Trunc(s.a * 2 + s.wrap), r |-> s.rem]

(* Division by 0 raises an exception. *)
divmoddi4(a, b) ==
    IF b > a THEN [q |-> 0, r |-> a]
    ELSE IF b = 1 THEN [q |-> a, r |-> 0]
    ELSE IF hi(b) = 0 /\ hi(a) = 0 THEN [q |-> lo(a) \div lo(b), r |-> lo(a) % lo(b)]
    ELSE LongDivision(a, b)

\* Negated when the signs differ: the sign of a XOR b.
Differ(a, b) == IF (Signed(a) < 0) # (Signed(b) < 0) THEN Pow2[W - 1] ELSE 0

divdi3(a, b) == neg(divmoddi4(neg(a, a), neg(b, b)).q, Differ(a, b))
moddi3(a, b) == neg(divmoddi4(neg(a, a), neg(b, b)).r, a)
=============================================================================
