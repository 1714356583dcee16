------------------------------ MODULE LibProofs ------------------------------
(***************************************************************************)
(* The pure functions for every width of a word, every string and every    *)
(* table of up to 2^15 entries: shifts and divisions are exact, strings    *)
(* compare as they should, the search in a table of characters finds what  *)
(* is there.  The loops are followed turn by turn: a family of sets says   *)
(* what holds after each, and no first turn can leave it (Turns).          *)
(***************************************************************************)
EXTENDS Lib, SequenceTheorems, WellFoundedInduction, TLAPS

-----------------------------------------------------------------------------
(* Loops and recursive functions.                                          *)

\* Every set of numbers has a least one.
LEMMA LeastNumber ==
    ASSUME NEW S \in SUBSET Nat, S # {}
    PROVE  \E n \in S : \A x \in S : n <= x
<1> DEFINE R == OpToRel(<, Nat)
<1>1. IsWellFoundedOn(R, Nat)
  BY NatLessThanWellFounded
<1>2. \A x, y \in Nat : y < x => <<y, x>> \in R
  BY DEF OpToRel
<1> HIDE DEF R
<1>3. PICK n \in S : \A x \in S : ~ (<<x, n>> \in R)
  BY <1>1, WFMin
<1>4. ASSUME NEW x \in S PROVE n <= x
  <2>1. x \in Nat /\ n \in Nat /\ ~(x < n)
    BY <1>2, <1>3
  <2> QED BY <2>1
<1> QED BY <1>4

\* What holds at first and is kept by every turn holds after all of them.
LEMMA Turns ==
    ASSUME NEW n \in Nat, NEW Q, 0 \in Q,
           \A k \in 1 .. n : k - 1 \in Q => k \in Q
    PROVE  \A k \in 0 .. n : k \in Q
<1> SUFFICES ASSUME {k \in 0 .. n : k \notin Q} # {} PROVE FALSE
  OBVIOUS
<1>1. PICK k \in {j \in 0 .. n : j \notin Q} : \A x \in {j \in 0 .. n : j \notin Q} : k <= x
  <2>1. {j \in 0 .. n : j \notin Q} \in SUBSET Nat
    OBVIOUS
  <2> QED
    BY <2>1, LeastNumber
<1>2. k \in 1 .. n /\ k - 1 \in 0 .. n /\ ~(k <= k - 1)
  OBVIOUS
<1>3. k - 1 \in Q
  BY <1>1, <1>2
<1> QED
  BY <1>1, <1>2, <1>3

\* The results g of the turns from s on, when they stay in inv.
Run(g, s, step, n) == /\ g[0] = s
                      /\ \A k \in 1 .. n : g[k] = step[<<g[k - 1], k>>]

LEMMA RunExists ==
    ASSUME NEW n \in Nat, NEW inv, NEW s \in inv[0], NEW step,
           \A k \in 1 .. n : \A x \in inv[k - 1] : step[<<x, k>>] \in inv[k]
    PROVE  \A m \in 0 .. n :
             \E g : g = [k \in 0 .. m |-> g[k]] /\ Run(g, s, step, m) /\ \A k \in 0 .. m : g[k] \in inv[k]
<1> DEFINE Ok(g, m) == /\ g = [k \in 0 .. m |-> g[k]] /\ Run(g, s, step, m)
                       /\ \A k \in 0 .. m : g[k] \in inv[k]
           Q == {m \in 0 .. n : \E g : Ok(g, m)}
<1>1. 0 \in Q
  <2> DEFINE g == [k \in 0 .. 0 |-> s]
  <2>1. g = [k \in 0 .. 0 |-> g[k]] /\ g[0] = s
    OBVIOUS
  <2>2. Ok(g, 0)
    BY <2>1 DEF Run
  <2> QED
    BY <2>2
<1>2. ASSUME NEW k \in 1 .. n, k - 1 \in Q PROVE k \in Q
  <2>1. PICK g : Ok(g, k - 1)
    BY <1>2
  <2> DEFINE h == [j \in 0 .. k |-> IF j = k THEN step[<<g[k - 1], k>>] ELSE g[j]]
  <2>2. h = [j \in 0 .. k |-> h[j]] /\ h[k] = step[<<g[k - 1], k>>] /\ \A j \in 0 .. k - 1 : h[j] = g[j]
    OBVIOUS
  <2>3. g[0] = s /\ g[k - 1] \in inv[k - 1] /\ h[0] = s
    BY <2>1, <2>2 DEF Run
  <2> HIDE DEF h
  <2>4. \A j \in 1 .. k : h[j] = step[<<h[j - 1], j>>]
    <3> SUFFICES ASSUME NEW j \in 1 .. k PROVE h[j] = step[<<h[j - 1], j>>]
      OBVIOUS
    <3>1. CASE j = k
      <4>1. k - 1 \in 0 .. k - 1 /\ h[k - 1] = g[k - 1]
        BY <2>2
      <4> QED
        BY <3>1, <4>1, <2>2
    <3>2. CASE j # k
      <4>1. j \in 1 .. k - 1 /\ j \in 0 .. k - 1 /\ j - 1 \in 0 .. k - 1
        BY <3>2
      <4>2. g[j] = step[<<g[j - 1], j>>]
        BY <4>1, <2>1 DEF Run
      <4> QED
        BY <4>1, <4>2, <2>2
    <3> QED
      BY <3>1, <3>2
  <2>5. \A j \in 0 .. k : h[j] \in inv[j]
    <3> SUFFICES ASSUME NEW j \in 0 .. k PROVE h[j] \in inv[j]
      OBVIOUS
    <3>1. CASE j = k
      BY <3>1, <2>2, <2>3
    <3>2. CASE j # k
      <4>1. j \in 0 .. k - 1
        BY <3>2
      <4> QED
        BY <4>1, <2>1, <2>2
    <3> QED
      BY <3>1, <3>2
  <2>6. Ok(h, k)
    BY <2>2, <2>3, <2>4, <2>5 DEF Run
  <2> QED
    BY <2>6
<1>3. \A m \in 0 .. n : m \in Q
  <2> HIDE DEF Q
  <2> QED
    BY <1>1, <1>2, Turns
<1> QED
  BY <1>3

-----------------------------------------------------------------------------
(* Powers of two.                                                          *)
LEMMA PowDefined == Pow2 = [n \in Nat |-> IF n = 0 THEN 1 ELSE 2 * Pow2[n - 1]]
<1> DEFINE step == [p \in Nat \X Nat |-> 2 * p[1]]
           inv == [k \in Nat |-> Nat]
           Ok(g, m) == g = [k \in 0 .. m |-> g[k]] /\ Run(g, 1, step, m) /\ \A k \in 0 .. m : g[k] \in inv[k]
           G(m) == CHOOSE g : Ok(g, m)
           f == [m \in Nat |-> G(m)[m]]
<1>1. ASSUME NEW m \in Nat PROVE Ok(G(m), m)
  <2>1. \A k \in 1 .. m : \A x \in inv[k - 1] : step[<<x, k>>] \in inv[k]
    OBVIOUS
  <2>2. 1 \in inv[0]
    OBVIOUS
  <2> HIDE DEF step, inv
  <2>3. \A j \in 0 .. m : \E g : Ok(g, j)
    BY <2>1, <2>2, RunExists, Zenon
  <2>4. \E g : Ok(g, m)
    <3> HIDE DEF Ok
    <3> QED
      BY <2>3
  <2> QED
    BY <2>4
<1>2. ASSUME NEW x \in Nat, NEW k \in Nat PROVE step[<<x, k>>] = 2 * x
  OBVIOUS
<1>3. inv = [k \in Nat |-> Nat]
  OBVIOUS
<1> HIDE DEF step, inv, G
<1>4. ASSUME NEW m \in Nat \ {0} PROVE G(m)[m - 1] = G(m - 1)[m - 1]
  <2> DEFINE Q == {k \in 0 .. m - 1 : G(m)[k] = G(m - 1)[k]}
  <2>1. Ok(G(m), m) /\ Ok(G(m - 1), m - 1)
    <3>1. m \in Nat /\ m - 1 \in Nat
      OBVIOUS
    <3> HIDE DEF Ok
    <3> QED
      BY <3>1, <1>1
  <2>2. 0 \in Q
    BY <2>1 DEF Run
  <2>3. ASSUME NEW k \in 1 .. m - 1, k - 1 \in Q PROVE k \in Q
    <3>1. k \in 1 .. m /\ k \in 0 .. m - 1
      OBVIOUS
    <3>2. G(m)[k] = step[<<G(m)[k - 1], k>>] /\ G(m - 1)[k] = step[<<G(m - 1)[k - 1], k>>]
      BY <3>1, <2>1 DEF Run
    <3> QED
      BY <3>1, <3>2, <2>3
  <2>4. \A k \in 0 .. m - 1 : k \in Q
    <3> HIDE DEF Q
    <3> QED
      BY <2>2, <2>3, Turns
  <2> QED
    BY <2>4
<1>5. ASSUME NEW m \in Nat PROVE f[m] = IF m = 0 THEN 1 ELSE 2 * f[m - 1]
  <2>1. Ok(G(m), m)
    BY <1>1
  <2>2. CASE m = 0
    BY <2>1, <2>2 DEF Run
  <2>3. CASE m # 0
    <3>1. m \in 1 .. m /\ m - 1 \in 0 .. m /\ m - 1 \in Nat
      BY <2>3
    <3>2. G(m)[m] = step[<<G(m)[m - 1], m>>] /\ G(m)[m - 1] \in Nat
      BY <3>1, <2>1, <1>3 DEF Run
    <3>3. G(m)[m] = 2 * G(m)[m - 1] /\ G(m)[m - 1] = G(m - 1)[m - 1]
      BY <3>2, <1>2, <1>4, <2>3
    <3> QED
      BY <3>1, <3>3, <2>3
  <2> QED
    BY <2>2, <2>3
<1>6. f = [n \in Nat |-> IF n = 0 THEN 1 ELSE 2 * f[n - 1]]
  BY <1>5
<1> HIDE DEF f
<1> QED
  BY <1>6, Zenon DEF Pow2

LEMMA PowPositive == \A n \in Nat : Pow2[n] \in Nat \ {0}
<1> SUFFICES ASSUME NEW n \in Nat PROVE Pow2[n] \in Nat \ {0}
  OBVIOUS
<1> DEFINE Q == {k \in Nat : Pow2[k] \in Nat \ {0}}
<1>1. 0 \in Q
  BY PowDefined
<1>2. ASSUME NEW k \in 1 .. n, k - 1 \in Q PROVE k \in Q
  BY <1>2, PowDefined
<1>3. \A k \in 0 .. n : k \in Q
  <2> HIDE DEF Q
  <2> QED
    BY <1>1, <1>2, Turns
<1> QED
  BY <1>3

LEMMA PowNext == Pow2[0] = 1 /\ \A n \in Nat : Pow2[n + 1] = 2 * Pow2[n]
<1>1. Pow2[0] = 1
  BY PowDefined
<1>2. ASSUME NEW n \in Nat PROVE Pow2[n + 1] = 2 * Pow2[n]
  <2> DEFINE m == n + 1
  <2>1. m \in Nat /\ m # 0 /\ m - 1 = n
    OBVIOUS
  <2> HIDE DEF m
  <2>2. Pow2[m] = IF m = 0 THEN 1 ELSE 2 * Pow2[m - 1]
    BY <2>1, PowDefined
  <2>3. Pow2[m] = 2 * Pow2[n]
    BY <2>1, <2>2
  <2> QED
    BY <2>3 DEF m
<1> QED
  BY <1>1, <1>2

LEMMA PowSum ==
    ASSUME NEW m \in Nat, NEW n \in Nat
    PROVE  Pow2[m + n] = Pow2[m] * Pow2[n]
<1> DEFINE Q == {k \in Nat : Pow2[m + k] = Pow2[m] * Pow2[k]}
<1>1. 0 \in Q
  BY PowNext, PowPositive
<1>2. ASSUME NEW k \in 1 .. n, k - 1 \in Q PROVE k \in Q
  <2>1. Pow2[m + (k - 1)] = Pow2[m] * Pow2[k - 1]
    BY <1>2
  <2>2. Pow2[m + k] = 2 * Pow2[m + (k - 1)]
    <3>1. m + (k - 1) \in Nat /\ (m + (k - 1)) + 1 = m + k
      OBVIOUS
    <3> QED
      BY <3>1, PowNext
  <2>3. Pow2[k] = 2 * Pow2[k - 1]
    <3>1. k - 1 \in Nat /\ (k - 1) + 1 = k
      OBVIOUS
    <3> QED
      BY <3>1, PowNext
  <2>4. 2 * (Pow2[m] * Pow2[k - 1]) = Pow2[m] * (2 * Pow2[k - 1])
    <3> DEFINE a == Pow2[m]
               b == Pow2[k - 1]
    <3>1. a \in Int /\ b \in Int
      BY PowPositive
    <3> HIDE DEF a, b
    <3>2. 2 * (a * b) = a * (2 * b)
      BY <3>1
    <3> QED
      BY <3>2 DEF a, b
  <2>5. k \in Nat
    OBVIOUS
  <2> QED
    BY <2>1, <2>2, <2>3, <2>4, <2>5
<1>3. \A k \in 0 .. n : k \in Q
  <2> HIDE DEF Q
  <2> QED
    BY <1>1, <1>2, Turns
<1> QED
  BY <1>3

(* The sizes of a register and of a word.                                  *)
LEMMA Sizes ==
    /\ H \in Nat \ {0} /\ W \in Nat /\ W = H + H
    /\ Pow2[H] \in Nat \ {0} /\ Pow2[W] \in Nat \ {0}
    /\ Pow2[W] = Pow2[H] * Pow2[H]
    /\ Pow2[H - 1] \in Nat \ {0} /\ Pow2[H] = 2 * Pow2[H - 1]
    /\ Pow2[W - 1] \in Nat \ {0} /\ Pow2[W] = 2 * Pow2[W - 1]
    /\ Pow2[W - 1] = Pow2[H - 1] * Pow2[H]
<1>1. H \in Nat \ {0}
  BY ArithAssumption, PowPositive DEF H
<1>2. W \in Nat /\ W = H + H
  BY <1>1 DEF W
<1>3. Pow2[H] \in Nat \ {0} /\ Pow2[W] \in Nat \ {0}
  BY <1>1, <1>2, PowPositive
<1>4. Pow2[W] = Pow2[H] * Pow2[H]
  BY <1>1, <1>2, PowSum
<1>5. H - 1 \in Nat /\ (H - 1) + 1 = H /\ W - 1 \in Nat /\ (W - 1) + 1 = W /\ (H - 1) + H = W - 1
  BY <1>1, <1>2
<1>6. Pow2[H - 1] \in Nat \ {0} /\ Pow2[W - 1] \in Nat \ {0}
  BY <1>5, PowPositive
<1>7. Pow2[H] = 2 * Pow2[H - 1] /\ Pow2[W] = 2 * Pow2[W - 1]
  BY <1>5, PowNext
<1>8. Pow2[W - 1] = Pow2[H - 1] * Pow2[H]
  BY <1>1, <1>5, PowSum
<1> QED
  BY <1>1, <1>2, <1>3, <1>4, <1>6, <1>7, <1>8

-----------------------------------------------------------------------------
(* Quotients and remainders.                                               *)
LEMMA Divided ==
    ASSUME NEW x \in Int, NEW m \in Nat \ {0}
    PROVE  x \div m \in Int /\ x % m \in 0 .. m - 1 /\ x = (x \div m) * m + (x % m)
OBVIOUS

LEMMA Quotient ==
    ASSUME NEW x \in Int, NEW m \in Nat \ {0}, NEW q \in Int, NEW r \in 0 .. m - 1,
           x = q * m + r
    PROVE  x \div m = q /\ x % m = r
OBVIOUS

\* What a remainder leaves alone, and what it brings back into range.
LEMMA Reduced ==
    ASSUME NEW m \in Nat \ {0}, NEW x \in 0 .. m - 1
    PROVE  x \div m = 0 /\ x % m = x
OBVIOUS

LEMMA Raised ==
    ASSUME NEW m \in Nat \ {0}, NEW x \in Int, -m <= x, x < 0
    PROVE  x % m = x + m
OBVIOUS

LEMMA ByOne == \A x \in Int : x \div 1 = x
OBVIOUS

LEMMA DividedNat ==
    ASSUME NEW x \in Nat, NEW m \in Nat \ {0}
    PROVE  x \div m \in Nat
OBVIOUS

\* A place in a row below row m, in rows of n.
LEMMA Below ==
    ASSUME NEW m \in Nat, NEW n \in Nat, NEW r \in 0 .. m - 1, NEW v \in 0 .. n - 1
    PROVE  r * n + v \in 0 .. m * n - 1
<1>1. r * n \in Nat /\ m * n \in Nat
  OBVIOUS
<1>2. (m - 1 - r) * n \in Nat
  OBVIOUS
<1>3. (m - 1 - r) * n = m * n - n - r * n
  OBVIOUS
<1> QED
  BY <1>1, <1>2, <1>3

(* Left by a register or more.                                             *)
LEMMA LeftFar ==
    ASSUME NEW h \in Nat, NEW l \in Nat, NEW p \in Nat, NEW M \in Nat \ {0}
    PROVE  ((h * M + l) * (p * M)) % (M * M) = ((l * p) % M) * M
<1> DEFINE k == (l * p) \div M
           r == (l * p) % M
<1>1. k \in Int /\ r \in 0 .. M - 1 /\ l * p = k * M + r
  <2>1. l * p \in Int
    OBVIOUS
  <2> QED
    BY <2>1, Divided
<1> HIDE DEF k, r
<1>2. (h * M + l) * (p * M) = (h * p) * (M * M) + (l * p) * M
  OBVIOUS
<1>3. (k * M + r) * M = k * (M * M) + r * M
  BY <1>1
<1>4. (h * p) * (M * M) + k * (M * M) = (h * p + k) * (M * M)
  BY <1>1
<1>5. (h * M + l) * (p * M) = (h * p + k) * (M * M) + r * M
  <2>1. (h * p) * (M * M) \in Int /\ k * (M * M) \in Int /\ r * M \in Int
    BY <1>1
  <2> QED
    BY <2>1, <1>1, <1>2, <1>3, <1>4
<1>6. r * M \in 0 .. M * M - 1
  <2>1. r * M + 0 \in 0 .. M * M - 1
    BY <1>1, Below
  <2> QED
    BY <2>1, <1>1
<1>7. (h * M + l) * (p * M) \in Int /\ M * M \in Nat \ {0} /\ h * p + k \in Int
  BY <1>1
<1>8. ((h * M + l) * (p * M)) % (M * M) = r * M
  BY <1>5, <1>6, <1>7, Quotient, Zenon
<1> QED
  BY <1>8 DEF r

(* Left by less than a register.                                           *)
Near(h, l, s, t, M) == (((l \div t) + h * s) % M) * M + ((l * s) % M)
Whole(h, l, s, M) == ((h * M + l) * s) % (M * M)

LEMMA LeftNear ==
    ASSUME NEW h \in Nat, NEW l \in Nat, NEW s \in Nat \ {0}, NEW t \in Nat \ {0},
           NEW M \in Nat \ {0}, M = t * s
    PROVE  Whole(h, l, s, M) = Near(h, l, s, t, M)
<1> DEFINE u == l \div t
           v == l % t
           k == (u + h * s) \div M
           r == (u + h * s) % M
<1>1. u \in Int /\ v \in 0 .. t - 1 /\ l = u * t + v
  BY Divided
<1>2. k \in Int /\ r \in 0 .. M - 1 /\ u + h * s = k * M + r
  <2>1. u + h * s \in Int
    BY <1>1
  <2> HIDE DEF u
  <2> QED
    BY <2>1, Divided
<1>3. l \div t = u
  OBVIOUS
<1> HIDE DEF u, v
<1>4. v * s \in 0 .. M - 1
  <2>1. v * s + 0 \in 0 .. t * s - 1
    BY <1>1, Below
  <2> QED
    BY <2>1, <1>1
<1>5. l * s = u * M + v * s
  <2>1. (u * t + v) * s = u * (t * s) + v * s
    BY <1>1
  <2> QED
    BY <2>1, <1>1
<1>6. (l * s) % M = v * s
  <2> DEFINE x == l * s
             y == v * s
  <2>1. x \in Int /\ y \in 0 .. M - 1 /\ x = u * M + y
    BY <1>4, <1>5
  <2> HIDE DEF x, y
  <2>2. x % M = y
    BY <2>1, <1>1, Quotient, Zenon
  <2> QED
    BY <2>2 DEF x, y
<1>7. ((u + h * s) % M) = r
  OBVIOUS
<1> HIDE DEF k, r
<1>8. (h * M + l) * s = k * (M * M) + (r * M + v * s)
  <2>1. (h * M + l) * s = (h * s) * M + l * s
    OBVIOUS
  <2>2. (h * s) * M + u * M = (u + h * s) * M
    BY <1>1
  <2>3. (k * M + r) * M = k * (M * M) + r * M
    BY <1>2
  <2>4. (h * s) * M \in Int /\ u * M \in Int /\ v * s \in Int /\ r * M \in Int /\ k * (M * M) \in Int
    BY <1>1, <1>2
  <2> QED
    BY <2>1, <2>2, <2>3, <2>4, <1>2, <1>5
<1>9. r * M + v * s \in 0 .. M * M - 1
  BY <1>2, <1>4, Below
<1>10. (h * M + l) * s \in Int /\ M * M \in Nat \ {0}
  OBVIOUS
<1>11. ((h * M + l) * s) % (M * M) = r * M + v * s
  <2> DEFINE x == (h * M + l) * s
             y == r * M + v * s
             m == M * M
  <2>1. x \in Int /\ m \in Nat \ {0} /\ y \in 0 .. m - 1 /\ x = k * m + y
    BY <1>8, <1>9, <1>10
  <2> HIDE DEF x, y, m
  <2>2. x % m = y
    BY <2>1, <1>2, Quotient, Zenon
  <2> QED
    BY <2>2 DEF x, y, m
<1> QED
  BY <1>3, <1>6, <1>7, <1>11 DEF Whole, Near

(* Right by a register or more, and by less; h may be negative.            *)
Right(h, l, s, M) == (h * M + l) \div s
Far(h, l, p, M) == (h * M + l) \div (p * M)

LEMMA RightFar ==
    ASSUME NEW h \in Int, NEW M \in Nat \ {0}, NEW l \in 0 .. M - 1, NEW p \in Nat \ {0}
    PROVE  Far(h, l, p, M) = h \div p
<1> DEFINE k == h \div p
           r == h % p
<1>1. k \in Int /\ r \in 0 .. p - 1 /\ h = k * p + r
  BY Divided
<1> HIDE DEF k, r
<1>2. h * M + l = k * (p * M) + (r * M + l)
  <2>1. (k * p + r) * M = k * (p * M) + r * M
    BY <1>1
  <2> QED
    BY <2>1, <1>1
<1>3. r * M + l \in 0 .. p * M - 1
  BY <1>1, Below
<1>4. h * M + l \in Int /\ p * M \in Nat \ {0}
  OBVIOUS
<1>5. (h * M + l) \div (p * M) = k
  BY <1>1, <1>2, <1>3, <1>4, Quotient, Zenon
<1> QED
  BY <1>5 DEF k, Far

Kept(h, l, s, t, M) == ((h * t) % M) + (l \div s)

Over(h, l, s, t, M) == (h \div s) * M + Kept(h, l, s, t, M)

LEMMA RightNear ==
    ASSUME NEW h \in Int, NEW s \in Nat \ {0}, NEW t \in Nat \ {0},
           NEW M \in Nat \ {0}, M = s * t, NEW l \in 0 .. M - 1
    PROVE  /\ Right(h, l, s, M) = Over(h, l, s, t, M)
           /\ Kept(h, l, s, t, M) \in 0 .. M - 1
<1> DEFINE k == h \div s
           r == h % s
           u == l \div s
           v == l % s
<1>1. k \in Int /\ r \in 0 .. s - 1 /\ h = k * s + r
  BY Divided
<1>2. u \in Nat /\ v \in 0 .. s - 1 /\ l = u * s + v
  <2>1. l \in Nat
    OBVIOUS
  <2>2. u \in Nat
    BY <2>1, DividedNat
  <2> QED
    BY <2>1, <2>2, Divided
<1>3. h \div s = k /\ l \div s = u
  OBVIOUS
<1> HIDE DEF k, r, u, v
<1>4. u \in 0 .. t - 1
  <2>1. CASE u >= t
    <3>1. (u - t) * s \in Nat
      BY <2>1, <1>2
    <3>2. (u - t) * s = u * s - s * t
      BY <1>2
    <3>3. u * s \in Int
      BY <1>2
    <3> QED
      BY <3>1, <3>2, <3>3, <1>2
  <2> QED
    BY <2>1, <1>2
<1>5. r * t \in 0 .. M - 1 /\ r * t + u \in 0 .. M - 1
  <2>1. r * t + 0 \in 0 .. s * t - 1 /\ r * t + u \in 0 .. s * t - 1
    BY <1>1, <1>4, Below
  <2> QED
    BY <2>1, <1>1
<1>6. (h * t) % M = r * t
  <2>1. (k * s + r) * t = k * (s * t) + r * t
    BY <1>1
  <2>2. h * t = k * M + r * t /\ h * t \in Int
    BY <2>1, <1>1
  <2> QED
    BY <2>2, <1>1, <1>5, Quotient, Zenon
<1>7. h * M + l = (k * M + r * t + u) * s + v
  <2>1. (k * s + r) * M = (k * M) * s + r * M
    BY <1>1
  <2>2. r * M = (r * t) * s
    BY <1>1
  <2>3. (k * M + r * t + u) * s = (k * M) * s + (r * t) * s + u * s
    BY <1>1, <1>2
  <2>4. (k * M) * s \in Int /\ (r * t) * s \in Int /\ u * s \in Int
    BY <1>1, <1>2
  <2> QED
    BY <2>1, <2>2, <2>3, <2>4, <1>1, <1>2
<1>8. h * M + l \in Int /\ k * M + r * t + u \in Int
  BY <1>1, <1>2
<1>9. (h * M + l) \div s = k * M + r * t + u
  BY <1>2, <1>7, <1>8, Quotient, Zenon
<1>10. Kept(h, l, s, t, M) = r * t + u
  BY <1>3, <1>6 DEF Kept
<1>11. k * M \in Int /\ r * t \in Int
  BY <1>1
<1> QED
  BY <1>2, <1>3, <1>5, <1>9, <1>10, <1>11 DEF Right, Over

-----------------------------------------------------------------------------
(* Words and what they are as signed numbers.                              *)
LEMMA WordParts ==
    ASSUME NEW a \in Word
    PROVE  /\ hi(a) \in 0 .. Pow2[H] - 1 /\ lo(a) \in 0 .. Pow2[H] - 1
           /\ a = hi(a) * Pow2[H] + lo(a)
<1> DEFINE M == Pow2[H]
           h == a \div M
           l == a % M
<1>1. a \in 0 .. M * M - 1 /\ M \in Nat \ {0}
  BY Sizes DEF Word
<1> HIDE DEF M
<1>2. l \in 0 .. M - 1 /\ a = h * M + l /\ h \in Nat
  <2>1. a \in Nat /\ a \in Int
    BY <1>1
  <2>2. l \in 0 .. M - 1 /\ a = h * M + l
    BY <2>1, <1>1, Divided, Zenon
  <2>3. h \in Nat
    BY <2>1, <1>1, DividedNat, Zenon
  <2> QED
    BY <2>2, <2>3
<1> HIDE DEF h, l
<1>3. h < M
  <2>1. CASE h >= M
    <3>1. (h - M) * M \in Nat
      BY <2>1, <1>1, <1>2
    <3>2. (h - M) * M = h * M - M * M /\ h * M \in Int /\ M * M \in Int
      BY <1>1, <1>2
    <3> QED
      BY <3>1, <3>2, <1>1, <1>2
  <2> QED
    BY <2>1, <1>1, <1>2
<1>4. h \in 0 .. M - 1
  BY <1>1, <1>2, <1>3
<1> QED
  BY <1>2, <1>4 DEF hi, lo, h, l, M

\* A word is the signed number it differs from by nothing or a whole turn.
LEMMA SignedIs ==
    ASSUME NEW x \in Word, NEW z \in Int,
           -Pow2[W - 1] <= z, z < Pow2[W - 1],
           x = z \/ x = z + Pow2[W]
    PROVE  Signed(x) = z
BY Sizes DEF Word, Signed

LEMMA SignedRange ==
    ASSUME NEW a \in Word
    PROVE  /\ Signed(a) \in Int /\ -Pow2[W - 1] <= Signed(a) /\ Signed(a) < Pow2[W - 1]
           /\ Signed(a) < 0 <=> a >= Pow2[W - 1]
           /\ a = IF Signed(a) < 0 THEN Signed(a) + Pow2[W] ELSE Signed(a)
BY Sizes DEF Word, Signed

LEMMA ShiftBy ==
    ASSUME NEW n \in 0 .. W - 1
    PROVE  n % W = n
<1>1. W \in Nat \ {0}
  BY Sizes
<1> HIDE DEF W
<1> QED
  BY <1>1, Reduced

LEMMA LeftExact ==
    ASSUME NEW a \in Word, NEW n \in 0 .. W - 1
    PROVE  ashldi3(a, n) = Trunc(a * Pow2[n])
<1> DEFINE M == Pow2[H]
           h == hi(a)
           l == lo(a)
<1>1. n % W = n /\ n \in Nat /\ H \in Nat \ {0} /\ W = H + H
  BY ShiftBy, Sizes
<1>2. h \in Nat /\ l \in Nat /\ a = h * M + l /\ M \in Nat \ {0} /\ Pow2[W] = M * M
  BY WordParts, Sizes
<1> HIDE DEF M, h, l
<1>3. CASE n >= H
  <2>1. n - H \in Nat /\ (n - H) + H = n
    BY <1>1, <1>3
  <2> DEFINE p == Pow2[n - H]
  <2>2. p \in Nat /\ Pow2[n] = p * M
    BY <2>1, <1>1, PowSum, PowPositive DEF M
  <2>3. ashldi3(a, n) = ((l * p) % M) * M
    BY <1>1, <1>3 DEF ashldi3, l, M
  <2> HIDE DEF p
  <2>4. ((h * M + l) * (p * M)) % (M * M) = ((l * p) % M) * M
    BY <2>2, <1>2, LeftFar, Zenon
  <2> QED
    BY <2>2, <2>3, <2>4, <1>2 DEF Trunc
<1>4. CASE n = 0
  <2>1. ashldi3(a, n) = a
    BY <1>1, <1>4 DEF ashldi3
  <2>2. Pow2[n] = 1
    BY <1>4, PowNext
  <2>3. a \in Int /\ a * 1 = a /\ a \in 0 .. Pow2[W] - 1
    BY Sizes DEF Word
  <2>4. a % Pow2[W] = a
    BY <2>3, Sizes, Reduced
  <2> QED
    BY <2>1, <2>2, <2>3, <2>4 DEF Trunc
<1>5. CASE n < H /\ n # 0
  <2>1. H - n \in Nat /\ (H - n) + n = H
    BY <1>1, <1>5
  <2> DEFINE s == Pow2[n]
             t == Pow2[H - n]
  <2>2. s \in Nat \ {0} /\ t \in Nat \ {0} /\ M = t * s
    BY <2>1, <1>1, PowSum, PowPositive DEF M
  <2>3. ashldi3(a, n) = (((l \div t) + h * s) % M) * M + ((l * s) % M)
    BY <1>1, <1>5 DEF ashldi3, l, h, M
  <2> HIDE DEF s, t
  <2>4. Whole(h, l, s, M) = Near(h, l, s, t, M)
    BY <2>2, <1>2, LeftNear
  <2>5. a * Pow2[n] = (h * M + l) * s
    BY <1>2 DEF s
  <2> QED
    BY <2>3, <2>4, <2>5, <1>2 DEF Trunc, Whole, Near
<1> QED
  BY <1>1, <1>3, <1>4, <1>5

LEMMA RightExact ==
    ASSUME NEW a \in Word, NEW n \in 0 .. W - 1
    PROVE  lshrdi3(a, n) = a \div Pow2[n]
<1> DEFINE M == Pow2[H]
           h == hi(a)
           l == lo(a)
<1>1. n % W = n /\ n \in Nat /\ H \in Nat \ {0} /\ W = H + H
  BY ShiftBy, Sizes
<1>2. h \in Int /\ l \in 0 .. M - 1 /\ a = h * M + l /\ M \in Nat \ {0}
  BY WordParts, Sizes
<1> HIDE DEF M, h, l
<1>3. CASE n >= H
  <2>1. n - H \in Nat /\ (n - H) + H = n
    BY <1>1, <1>3
  <2> DEFINE p == Pow2[n - H]
  <2>2. p \in Nat \ {0} /\ Pow2[n] = p * M
    BY <2>1, <1>1, PowSum, PowPositive DEF M
  <2>3. lshrdi3(a, n) = h \div p
    BY <1>1, <1>3 DEF lshrdi3, h
  <2> HIDE DEF p
  <2>4. Far(h, l, p, M) = h \div p
    BY <2>2, <1>2, RightFar
  <2> QED
    BY <2>2, <2>3, <2>4, <1>2 DEF Far
<1>4. CASE n = 0
  <2>1. lshrdi3(a, n) = a
    BY <1>1, <1>4 DEF lshrdi3
  <2>2. Pow2[n] = 1
    BY <1>4, PowNext
  <2>3. a \in Int
    BY Sizes DEF Word
  <2>4. a \div 1 = a
    BY <2>3, ByOne, Zenon
  <2> QED
    BY <2>1, <2>2, <2>4
<1>5. CASE n < H /\ n # 0
  <2>1. H - n \in Nat /\ n + (H - n) = H
    BY <1>1, <1>5
  <2> DEFINE s == Pow2[n]
             t == Pow2[H - n]
  <2>2. s \in Nat \ {0} /\ t \in Nat \ {0} /\ M = s * t
    BY <2>1, <1>1, PowSum, PowPositive DEF M
  <2>3. lshrdi3(a, n) = (h \div s) * M + ((h * t) % M) + (l \div s)
    BY <1>1, <1>5 DEF lshrdi3, l, h, M
  <2> HIDE DEF s, t
  <2>4. (h * M + l) \div s = (h \div s) * M + Kept(h, l, s, t, M)
    <3>1. Right(h, l, s, M) = Over(h, l, s, t, M)
      BY <2>2, <1>2, RightNear
    <3> QED
      BY <3>1 DEF Right, Over
  <2> DEFINE x == (h \div s) * M
             y == (h * t) % M
             w == l \div s
  <2>5. x \in Int /\ y \in Int /\ w \in Int
    BY <2>2, <1>2, Divided
  <2>6. lshrdi3(a, n) = x + y + w /\ a \div s = x + (y + w)
    BY <2>3, <2>4, <1>2 DEF Kept
  <2> HIDE DEF x, y, w
  <2>7. x + y + w = x + (y + w)
    BY <2>5
  <2> QED
    BY <2>6, <2>7 DEF s
<1> QED
  BY <1>1, <1>3, <1>4, <1>5

LEMMA ArithmeticExact ==
    ASSUME NEW a \in Word, NEW n \in 0 .. W - 1
    PROVE  Signed(ashrdi3(a, n)) = Signed(a) \div Pow2[n]
<1> DEFINE M == Pow2[H]
           N == Pow2[H - 1]
           h == hi(a)
           l == lo(a)
           g == IF h >= N THEN h - M ELSE h
           z == Signed(a) \div Pow2[n]
<1>1. n % W = n /\ n \in Nat /\ H \in Nat \ {0} /\ W = H + H
  BY ShiftBy, Sizes
<1>2. h \in 0 .. M - 1 /\ l \in 0 .. M - 1 /\ a = h * M + l
  BY WordParts
<1>3. /\ M \in Nat \ {0} /\ N \in Nat \ {0} /\ M = 2 * N
      /\ Pow2[W] = M * M /\ Pow2[W - 1] = N * M
  BY Sizes
<1>4. a \in 0 .. M * M - 1 /\ Signed(a) = IF a >= N * M THEN a - M * M ELSE a
  BY <1>3 DEF Word, Signed
<1> HIDE DEF M, N, h, l
<1>5. g \in Int /\ -N <= g /\ g < N /\ Signed(a) = g * M + l
  <2>1. CASE h >= N
    <3>1. (h - N) * M \in Nat /\ (h - N) * M = h * M - N * M /\ (h - M) * M = h * M - M * M
      BY <2>1, <1>2, <1>3
    <3>2. h * M \in Int /\ N * M \in Int /\ M * M \in Int
      BY <1>2, <1>3
    <3>3. a >= N * M /\ Signed(a) = g * M + l
      BY <3>1, <3>2, <2>1, <1>2, <1>4
    <3> QED
      BY <3>3, <2>1, <1>2, <1>3
  <2>2. CASE ~(h >= N)
    <3>1. h \in 0 .. N - 1 /\ g = h
      BY <2>2, <1>2, <1>3
    <3>2. h * M + l \in 0 .. N * M - 1
      BY <3>1, <1>2, <1>3, Below
    <3> QED
      BY <3>1, <3>2, <1>2, <1>3, <1>4
  <2> QED
    BY <2>1, <2>2
<1>6. Pow2[n] \in Nat \ {0}
  BY <1>1, PowPositive
<1>7. z \in Int /\ -Pow2[W - 1] <= z /\ z < Pow2[W - 1]
  <2> DEFINE x == Signed(a)
             p == Pow2[n]
             B == Pow2[W - 1]
  <2>1. x \in Int /\ p \in Nat \ {0} /\ B \in Nat \ {0} /\ -B <= x /\ x < B
    BY <1>6, SignedRange, Sizes
  <2> HIDE DEF x, p, B
  <2>2. x \div p \in Int /\ x % p \in 0 .. p - 1 /\ x = (x \div p) * p + (x % p)
    BY <2>1, Divided
  <2> DEFINE y == x \div p
             r == x % p
  <2>3. y \in Int /\ r \in 0 .. p - 1 /\ x = y * p + r
    BY <2>2
  <2> HIDE DEF y, r
  <2>4. y >= -B
    <3>1. CASE y < -B
      <4>1. (-B - 1 - y) * p \in Nat
        BY <3>1, <2>1, <2>3
      <4>2. (-B - 1 - y) * p = -(B * p) - p - y * p
        BY <2>1, <2>3
      <4>3. (p - 1) * B \in Nat /\ (p - 1) * B = B * p - B /\ B * p \in Int /\ y * p \in Int
        BY <2>1, <2>3
      <4> QED
        BY <4>1, <4>2, <4>3, <2>1, <2>3
    <3> QED
      BY <3>1, <2>1, <2>3
  <2>5. y < B
    <3>1. CASE y >= B
      <4>1. (y - B) * p \in Nat
        BY <3>1, <2>1, <2>3
      <4>2. (y - B) * p = y * p - B * p
        BY <2>1, <2>3
      <4>3. (p - 1) * B \in Nat /\ (p - 1) * B = B * p - B /\ B * p \in Int /\ y * p \in Int
        BY <2>1, <2>3
      <4> QED
        BY <4>1, <4>2, <4>3, <2>1, <2>3
    <3> QED
      BY <3>1, <2>1, <2>3
  <2>6. z = y
    BY DEF x, p, y
  <2> QED
    BY <2>3, <2>4, <2>5, <2>6 DEF B
\* A signed number in a register.
<1>8. ASSUME NEW y \in Int, -N <= y, y < N
      PROVE  y % M = IF y < 0 THEN y + M ELSE y
  <2>1. CASE y < 0
    <3>1. -M <= y /\ M \in Nat \ {0}
      BY <1>3, <1>8
    <3>2. y % M = y + M
      BY <3>1, <2>1, <1>8, Raised
    <3> QED
      BY <3>2, <2>1
  <2>2. CASE ~(y < 0)
    <3>1. y \in 0 .. M - 1
      BY <2>2, <1>3, <1>8
    <3>2. y % M = y
      BY <3>1, <1>3, Reduced
    <3> QED
      BY <3>2, <2>2
  <2> QED
    BY <2>1, <2>2
<1>9. ASSUME NEW p \in Nat \ {0}
      PROVE  g \div p \in Int /\ -N <= g \div p /\ g \div p < N /\ (g \div p < 0 <=> g < 0)
  <2> DEFINE y == g \div p
             r == g % p
  <2>1. y \in Int /\ r \in 0 .. p - 1 /\ g = y * p + r
    BY <1>5, Divided
  <2> HIDE DEF y, r, g
  <2>2. y >= -N
    <3>1. CASE y < -N
      <4>1. (-N - 1 - y) * p \in Nat
        BY <3>1, <2>1, <1>3
      <4>2. (-N - 1 - y) * p = -(N * p) - p - y * p
        BY <2>1, <1>3
      <4>3. (p - 1) * N \in Nat /\ (p - 1) * N = N * p - N /\ N * p \in Int /\ y * p \in Int
        BY <2>1, <1>3
      <4> QED
        BY <4>1, <4>2, <4>3, <2>1, <1>5, <1>3
    <3> QED
      BY <3>1, <2>1, <1>3
  <2>3. y < N
    <3>1. CASE y >= N
      <4>1. (y - N) * p \in Nat
        BY <3>1, <2>1, <1>3
      <4>2. (y - N) * p = y * p - N * p
        BY <2>1, <1>3
      <4>3. (p - 1) * N \in Nat /\ (p - 1) * N = N * p - N /\ N * p \in Int /\ y * p \in Int
        BY <2>1, <1>3
      <4> QED
        BY <4>1, <4>2, <4>3, <2>1, <1>5, <1>3
    <3> QED
      BY <3>1, <2>1, <1>3
  <2>4. y < 0 <=> g < 0
    <3>1. CASE y < 0
      <4>1. (-1 - y) * p \in Nat /\ (-1 - y) * p = -p - y * p /\ y * p \in Int
        BY <3>1, <2>1
      <4> QED
        BY <4>1, <3>1, <2>1, <1>5
    <3>2. CASE ~(y < 0)
      <4>1. y * p \in Nat
        BY <3>2, <2>1
      <4> QED
        BY <4>1, <3>2, <2>1, <1>5
    <3> QED
      BY <3>1, <3>2
  <2> QED
    BY <2>1, <2>2, <2>3, <2>4 DEF y
<1> HIDE DEF z
<1>10. SUFFICES ashrdi3(a, n) \in Word /\ (ashrdi3(a, n) = z \/ ashrdi3(a, n) = z + Pow2[W])
  BY <1>7, SignedIs DEF z
<1>11. CASE n = 0
  <2>1. ashrdi3(a, n) = a
    BY <1>1, <1>11 DEF ashrdi3
  <2>2. Pow2[n] = 1 /\ Signed(a) \in Int
    BY <1>11, PowNext, SignedRange
  <2>3. Signed(a) \div 1 = Signed(a)
    BY <2>2, ByOne, Zenon
  <2>4. z = Signed(a)
    BY <2>2, <2>3 DEF z
  <2> QED
    BY <2>1, <2>4, SignedRange
<1>12. CASE n >= H
  <2>1. n - H \in Nat /\ (n - H) + H = n /\ H - 1 \in Nat
    BY <1>1, <1>12
  <2> DEFINE p == Pow2[n - H]
             y == g \div p
             e == g \div N
  <2>2. p \in Nat \ {0} /\ Pow2[n] = p * M
    BY <2>1, <1>1, PowSum, PowPositive DEF M
  <2>3. ashrdi3(a, n) = (e % M) * M + (y % M)
    BY <1>1, <1>12 DEF ashrdi3, h, M, N
  <2> HIDE DEF p
  <2>4. z = y
    <3> HIDE DEF g
    <3>1. Far(g, l, p, M) = y
      BY <2>2, <1>2, <1>3, <1>5, RightFar
    <3> QED
      BY <3>1, <2>2, <1>5 DEF Far, z
  <2>5. y \in Int /\ -N <= y /\ y < N /\ (y < 0 <=> g < 0)
    BY <2>2, <1>9
  <2>6. e = IF g < 0 THEN -1 ELSE 0
    <3>1. g = (-1) * N + (g + N) /\ g = 0 * N + g /\ -1 \in Int
      BY <1>3, <1>5
    <3>2. CASE g < 0
      <4>1. g + N \in 0 .. N - 1
        BY <3>2, <1>3, <1>5
      <4> DEFINE r == g + N
                 q == -1
      <4>2. r \in 0 .. N - 1 /\ q \in Int /\ g = q * N + r
        BY <4>1, <3>1
      <4> HIDE DEF g, q, r
      <4>3. g \div N = q
        BY <4>2, <1>3, <1>5, Quotient, Zenon
      <4> QED
        BY <4>3, <3>2 DEF q
    <3>3. CASE ~(g < 0)
      <4>1. g \in 0 .. N - 1
        BY <3>3, <1>3, <1>5
      <4> HIDE DEF g
      <4> QED
        BY <4>1, <3>1, <3>3, <1>3, <1>5, Reduced
    <3> QED
      BY <3>2, <3>3
  <2> HIDE DEF y, g, e
  <2>7. CASE g < 0
    <3>1. e % M = M - 1 /\ y % M = y + M
      <4>1. e \in Int /\ -N <= e /\ e < N /\ e < 0 /\ e = -1
        BY <2>6, <2>7, <1>3
      <4>2. y % M = y + M
        BY <1>8, <2>5, <2>7
      <4>3. e \in Int /\ -N <= e /\ e < N /\ e < 0
        BY <4>1
      <4>4. e % M = e + M
        BY <4>3, <1>8
      <4> QED
        BY <4>1, <4>2, <4>4, <1>3
    <3>2. (M - 1) * M + (y + M) = y + M * M
      BY <2>5, <1>3
    <3>3. N * M \in Nat /\ M * M = N * M + N * M /\ (M - 1) * N \in Nat /\ (M - 1) * N = N * M - N
      BY <1>3
    <3>4. y + M * M \in 0 .. M * M - 1
      BY <3>3, <2>5, <2>7, <1>3
    <3> QED
      BY <3>1, <3>2, <3>4, <2>3, <2>4, <1>3 DEF Word
  <2>8. CASE ~(g < 0)
    <3>1. e % M = 0 /\ y % M = y
      <4>1. e \in Int /\ -N <= e /\ e < N /\ e = 0
        BY <2>6, <2>8, <1>3
      <4> QED
        BY <4>1, <1>8, <2>5, <2>8, <1>3
    <3>2. 0 * M + y = y
      BY <2>5, <1>3
    <3>3. M * M \in Nat /\ (M - 1) * M \in Nat /\ (M - 1) * M = M * M - M
      BY <1>3
    <3>4. y \in 0 .. M * M - 1
      BY <3>3, <2>5, <2>8, <1>3
    <3> QED
      BY <3>1, <3>2, <3>4, <2>3, <2>4, <1>3 DEF Word
  <2> QED
    BY <2>7, <2>8
<1>13. CASE n < H /\ n # 0
  <2>1. H - n \in Nat /\ n + (H - n) = H
    BY <1>1, <1>13
  <2> DEFINE s == Pow2[n]
             t == Pow2[H - n]
             y == g \div s
             k == Kept(g, l, s, t, M)
  <2>2. s \in Nat \ {0} /\ t \in Nat \ {0} /\ M = s * t
    BY <2>1, <1>1, PowSum, PowPositive DEF M
  <2>3. ashrdi3(a, n) = (y % M) * M + ((h * t) % M) + (l \div s)
    BY <1>1, <1>13 DEF ashrdi3, l, h, M, N
  <2> HIDE DEF s, t
  <2>4. (h * t) % M = (g * t) % M
    <3> DEFINE q == (g * t) \div M
               r == (g * t) % M
    <3>1. g * t \in Int
      BY <2>2, <1>5
    <3>2. q \in Int /\ r \in 0 .. M - 1 /\ g * t = q * M + r
      <4> HIDE DEF g
      <4> QED
        BY <3>1, <1>3, Divided, Zenon
    <3> HIDE DEF q, r
    <3>3. CASE g = h
      BY <3>3
    <3>4. CASE g = h - M
      <4>1. h * t = (q + t) * M + r
        <5>1. (h - M) * t = h * t - M * t /\ (q + t) * M = q * M + M * t
          BY <1>2, <1>3, <2>2, <3>2
        <5>2. h * t \in Int /\ M * t \in Int /\ q * M \in Int
          BY <1>2, <1>3, <2>2, <3>2
        <5> QED
          BY <5>1, <5>2, <3>2, <3>4
      <4>2. h * t \in Int /\ q + t \in Int
        BY <1>2, <2>2, <3>2
      <4> DEFINE x == h * t
                 j == q + t
      <4>3. x \in Int /\ j \in Int /\ x = j * M + r
        BY <4>1, <4>2
      <4> HIDE DEF x, j
      <4>4. x % M = r
        BY <4>3, <3>2, <1>3, Quotient, Zenon
      <4> QED
        BY <4>4 DEF r, x
    <3> QED
      BY <3>3, <3>4
  <2>5. y \in Int /\ -N <= y /\ y < N /\ y % M = IF y < 0 THEN y + M ELSE y
    BY <2>2, <1>8, <1>9
  <2>6. z = y * M + k /\ k \in 0 .. M - 1
    <3> HIDE DEF g
    <3>1. Right(g, l, s, M) = Over(g, l, s, t, M) /\ k \in 0 .. M - 1
      BY <2>2, <1>2, <1>5, RightNear
    <3> QED
      BY <3>1, <1>5 DEF Right, Over, z, s
  <2>7. ashrdi3(a, n) = (y % M) * M + k
    <3> DEFINE v == (y % M) * M
               w == (g * t) % M
               x == l \div s
    <3>1. v \in Int /\ w \in Int /\ x \in Int
      <4>1. y % M \in Int
        BY <2>5, <1>3
      <4>2. g * t \in Int /\ l \in Int
        BY <2>2, <1>2, <1>5
      <4>3. (g * t) % M \in Int
        <5> HIDE DEF g
        <5> QED
          BY <4>2, <1>3, Divided
      <4>4. x \in Int
        BY <4>2, <2>2, Divided
      <4> HIDE DEF g, y
      <4> QED
        BY <4>1, <4>3, <4>4, <1>3
    <3>2. ashrdi3(a, n) = v + w + x /\ k = w + x
      BY <2>3, <2>4 DEF Kept
    <3> HIDE DEF v, w, x, k
    <3>3. ashrdi3(a, n) = v + k
      BY <3>1, <3>2
    <3> QED
      BY <3>3 DEF v
  <2> HIDE DEF y, k, g
  <2>8. y % M \in 0 .. M - 1 /\ y % M = IF y < 0 THEN y + M ELSE y
    BY <2>5, <1>3
  <2>9. ashrdi3(a, n) \in 0 .. M * M - 1
    BY <2>6, <2>7, <2>8, <1>3, Below
  <2>10. (y + M) * M + k = (y * M + k) + M * M
    BY <2>5, <2>6, <1>3
  <2> QED
    BY <2>6, <2>7, <2>8, <2>9, <2>10, <1>3 DEF Word
<1> QED
  BY <1>1, <1>11, <1>12, <1>13

-----------------------------------------------------------------------------
(* Leading zeros: what a word must be multiplied with to fill the word.    *)
LEMMA PowMonotone ==
    ASSUME NEW m \in Nat, NEW n \in Nat, m <= n
    PROVE  Pow2[m] <= Pow2[n]
<1> DEFINE d == n - m
<1>1. d \in Nat /\ m + d = n
  OBVIOUS
<1> HIDE DEF d
<1>2. Pow2[n] = Pow2[m] * Pow2[d] /\ Pow2[m] \in Nat /\ Pow2[d] \in Nat \ {0}
  BY <1>1, PowSum, PowPositive
<1> DEFINE x == Pow2[m]
           y == Pow2[d]
<1> HIDE DEF x, y
<1>3. x \in Nat /\ y \in Nat \ {0} /\ Pow2[n] = x * y
  BY <1>2 DEF x, y
<1>4. x * (y - 1) \in Nat /\ x * (y - 1) = x * y - x /\ x * y \in Int
  BY <1>3
<1>5. x <= x * y
  BY <1>3, <1>4
<1> QED
  BY <1>3, <1>5 DEF x

Pass(s, i) ==
    IF s.a \div Pow2[W - Pow2[L + 1 - i]] = 0
    THEN [a |-> Trunc(s.a * Pow2[Pow2[L + 1 - i]]), n |-> s.n + Pow2[L + 1 - i]] ELSE s

\* What holds after i steps of the search.
Passed(a, i) ==
    {s \in [a : Word, n : Nat] : s.a = a * Pow2[s.n] /\ s.a >= Pow2[W - Pow2[L + 1 - i]]}

LEMMA PassStep ==
    ASSUME NEW a \in Word, NEW i \in 1 .. L + 1, NEW s \in Passed(a, i - 1)
    PROVE  Pass(s, i) \in Passed(a, i)
<1> DEFINE k == Pow2[L + 1 - i]
           A == Pow2[W - k]
           K == Pow2[k]
           C == Pow2[W - 2 * k]
<1>1. L + 1 - i \in Nat /\ L + 1 - i <= L /\ L + 1 - (i - 1) = (L + 1 - i) + 1
  BY ArithAssumption
<1>2. k \in Nat \ {0} /\ k <= H /\ Pow2[L + 1 - (i - 1)] = 2 * k
  BY <1>1, ArithAssumption, PowNext, PowPositive, PowMonotone DEF H
<1> HIDE DEF k
<1>3. W - k \in Nat /\ W - 2 * k \in Nat /\ (W - 2 * k) + k = W - k /\ (W - k) + k = W
  BY <1>2, Sizes
<1>4. /\ A \in Nat \ {0} /\ K \in Nat \ {0} /\ C \in Nat \ {0}
      /\ A = C * K /\ Pow2[W] = A * K
  BY <1>2, <1>3, PowPositive, PowSum
<1>5. /\ s \in [a : Word, n : Nat] /\ s.a = a * Pow2[s.n] /\ s.a >= C
  BY <1>2 DEF Passed
<1>6. Pass(s, i) = IF s.a \div A = 0 THEN [a |-> Trunc(s.a * K), n |-> s.n + k] ELSE s
  BY DEF Pass, k
<1>7. Passed(a, i) = {t \in [a : Word, n : Nat] : t.a = a * Pow2[t.n] /\ t.a >= A}
  BY DEF Passed, k
<1> DEFINE x == s.a
<1>8. x \in Nat /\ x < Pow2[W] /\ x >= C /\ s.n \in Nat
  BY <1>5, Sizes DEF Word
<1>9. Pow2[s.n + k] = Pow2[s.n] * K /\ Pow2[s.n] \in Nat
  BY <1>2, <1>8, PowSum, PowPositive
<1> HIDE DEF A, K, C
<1>10. x \div A \in Int /\ x % A \in 0 .. A - 1 /\ x = (x \div A) * A + (x % A) /\ x \div A \in Nat
  <2>1. x \in Int
    BY <1>8
  <2> HIDE DEF x
  <2> QED
    BY <2>1, <1>4, <1>8, Divided, DividedNat, Zenon
<1>11. CASE x \div A = 0
  <2>1. x < A
    BY <1>4, <1>8, <1>10, <1>11
  <2>2. x * K < A * K /\ x * K >= C * K /\ x * K \in Nat
    <3>1. (A - 1 - x) * K \in Nat /\ (A - 1 - x) * K = A * K - K - x * K
      BY <2>1, <1>4, <1>8
    <3>2. (x - C) * K \in Nat /\ (x - C) * K = x * K - C * K
      BY <1>4, <1>8
    <3>3. A * K \in Int /\ x * K \in Int /\ C * K \in Int
      BY <1>4, <1>8
    <3> HIDE DEF x
    <3> QED
      BY <3>1, <3>2, <3>3, <1>4, <1>8
  <2>3. Trunc(x * K) = x * K
    <3> DEFINE y == x * K
               m == Pow2[W]
    <3>1. y \in 0 .. m - 1 /\ m \in Nat \ {0}
      BY <2>2, <1>4, Sizes
    <3> HIDE DEF y, m
    <3>2. y % m = y
      BY <3>1, Reduced
    <3> QED
      BY <3>2 DEF y, m, Trunc
  <2>4. x * K = a * Pow2[s.n + k]
    <3>1. a \in Nat
      BY Sizes DEF Word
    <3> DEFINE p == Pow2[s.n]
    <3>2. p \in Nat /\ x = a * p /\ Pow2[s.n + k] = p * K
      BY <1>5, <1>9
    <3> HIDE DEF p, x
    <3>3. (a * p) * K = a * (p * K)
      BY <3>1, <3>2, <1>4
    <3> QED
      BY <3>2, <3>3
  <2> DEFINE t == [a |-> x * K, n |-> s.n + k]
  <2>5. t \in [a : Word, n : Nat] /\ t.a = x * K /\ t.n = s.n + k
    <3>1. x * K \in Word
      BY <2>2, <1>4, Sizes DEF Word
    <3>2. s.n + k \in Nat
      BY <1>2, <1>8
    <3> QED
      BY <3>1, <3>2
  <2>6. t.a >= A
    BY <2>2, <2>5, <1>4
  <2>7. Pass(s, i) = t
    BY <1>6, <1>11, <2>3
  <2> HIDE DEF t
  <2> QED
    BY <2>4, <2>5, <2>6, <2>7, <1>7
<1>12. CASE x \div A # 0
  <2>1. x >= A
    <3> DEFINE y == x \div A
    <3>1. y \in Nat \ {0} /\ x = y * A + (x % A) /\ x % A \in Nat
      BY <1>4, <1>10, <1>12
    <3> HIDE DEF y
    <3>2. (y - 1) * A \in Nat /\ (y - 1) * A = y * A - A /\ y * A \in Int
      BY <3>1, <1>4
    <3> QED
      BY <3>1, <3>2, <1>4, <1>8
  <2> QED
    BY <2>1, <1>5, <1>6, <1>7, <1>12
<1> QED
  BY <1>11, <1>12

LEMMA LeadingZeros ==
    ASSUME NEW a \in Word, a # 0
    PROVE  /\ clz(a) \in 0 .. W - 1
           /\ Pow2[W - 1] <= a * Pow2[clz(a)] /\ a * Pow2[clz(a)] < Pow2[W]
<1> DEFINE n == L + 1
           s0 == [a |-> a, n |-> 0]
           inv == [i \in 0 .. n |-> Passed(a, i)]
           step == [p \in [a : Word, n : Nat] \X (1 .. n) |-> Pass(p[1], p[2])]
           Eq(f) == f = [i \in 0 .. n |-> IF i = 0 THEN s0 ELSE Pass(f[i - 1], i)]
<1>1. n \in Nat /\ n \in 0 .. n /\ 0 \in 0 .. n
  BY ArithAssumption
<1>2. s0 \in Passed(a, 0)
  <2>1. Pow2[L + 1 - 0] = W /\ W - W = 0 /\ Pow2[0] = 1
    BY ArithAssumption, PowNext, Sizes DEF H, W
  <2>2. a \in Nat \ {0} /\ a * 1 = a
    BY Sizes DEF Word
  <2> QED
    BY <2>1, <2>2 DEF Passed
<1>3. \A i \in 1 .. n : \A s \in Passed(a, i - 1) : Pass(s, i) \in Passed(a, i)
  BY PassStep
<1>4. \E f : Eq(f)
  <2>1. s0 \in inv[0]
    BY <1>1, <1>2
  <2>2. \A i \in 1 .. n : \A s \in inv[i - 1] : step[<<s, i>>] = Pass(s, i) /\ step[<<s, i>>] \in inv[i]
    BY <1>1, <1>3 DEF Passed
  <2>3. \A i \in 0 .. n : inv[i] \subseteq inv[i]
    OBVIOUS
  <2> HIDE DEF inv, step
  <2>4. \A m \in 0 .. n : \E g : g = [i \in 0 .. m |-> g[i]] /\ Run(g, s0, step, m) /\ \A i \in 0 .. m : g[i] \in inv[i]
    <3> HIDE DEF n, s0
    <3> QED
      BY <2>1, <2>2, <1>1, RunExists
  <2>5. PICK g : g = [i \in 0 .. n |-> g[i]] /\ Run(g, s0, step, n) /\ \A i \in 0 .. n : g[i] \in inv[i]
    <3> HIDE DEF n, s0
    <3> QED
      BY <2>4, <1>1
  <2>6. ASSUME NEW i \in 0 .. n PROVE g[i] = IF i = 0 THEN s0 ELSE Pass(g[i - 1], i)
    <3>1. CASE i = 0
      BY <3>1, <2>5 DEF Run
    <3>2. CASE i # 0
      <4>1. i \in 1 .. n /\ i - 1 \in 0 .. n
        BY <3>2, <1>1
      <4>2. g[i] = step[<<g[i - 1], i>>] /\ g[i - 1] \in inv[i - 1]
        BY <4>1, <2>5 DEF Run
      <4> QED
        BY <4>1, <4>2, <3>2, <2>2
    <3> QED
      BY <3>1, <3>2
  <2>7. Eq(g)
    <3> HIDE DEF n, s0
    <3> QED
      BY <2>5, <2>6
  <2> QED
    BY <2>7
<1>5. PICK f : Eq(f) /\ clz(a) = f[n].n
  <2> DEFINE f == CHOOSE f : Eq(f)
  <2>1. Eq(f)
    BY <1>4
  <2>2. clz(a) = f[n].n
    BY Zenon DEF clz, Loop, Pass
  <2> QED
    BY <2>1, <2>2
<1>6. f[n] \in Passed(a, n)
  <2> DEFINE Q == {i \in 0 .. n : f[i] \in Passed(a, i)}
  <2>1. 0 \in Q
    BY <1>1, <1>2, <1>5
  <2>2. ASSUME NEW i \in 1 .. n, i - 1 \in Q PROVE i \in Q
    <3>1. i \in 0 .. n /\ i # 0
      BY <1>1
    <3>2. f[i] = Pass(f[i - 1], i)
      BY <3>1, <1>5
    <3> QED
      BY <3>1, <3>2, <2>2, <1>3
  <2>3. \A i \in 0 .. n : i \in Q
    <3> HIDE DEF Q, n
    <3> QED
      BY <2>1, <2>2, <1>1, Turns
  <2> QED
    BY <2>3, <1>1
<1> DEFINE c == clz(a)
<1>7. c \in Nat /\ a * Pow2[c] \in Word /\ a * Pow2[c] >= Pow2[W - 1]
  <2>1. Pow2[L + 1 - n] = 1
    BY ArithAssumption, PowNext
  <2> QED
    BY <2>1, <1>5, <1>6 DEF Passed
<1> HIDE DEF c
<1>8. a * Pow2[c] < Pow2[W]
  BY <1>7, Sizes DEF Word
<1>9. c < W
  <2>1. CASE c >= W
    <3>1. Pow2[W] <= Pow2[c] /\ Pow2[c] \in Nat
      BY <2>1, <1>7, Sizes, PowMonotone, PowPositive
    <3> DEFINE p == Pow2[c]
    <3>2. p \in Nat /\ a \in Nat \ {0} /\ Pow2[W] <= p
      BY <3>1, Sizes DEF Word
    <3> HIDE DEF p
    <3>3. (a - 1) * p \in Nat /\ (a - 1) * p = a * p - p /\ a * p \in Int
      BY <3>2
    <3>4. a * p >= Pow2[W]
      BY <3>2, <3>3, Sizes
    <3> QED
      BY <3>2, <3>3, <3>4, <1>8, Sizes DEF p
  <2> QED
    BY <2>1, <1>7, Sizes
<1> QED
  BY <1>7, <1>8, <1>9, Sizes DEF c

-----------------------------------------------------------------------------
(* The long division.                                                      *)

\* wrap tells whether the divisor goes into the remainder.
LEMMA WrapIs ==
    ASSUME NEW b \in Word, NEW x \in Word, x < 2 * b, b <= Pow2[W - 1] \/ b <= x
    PROVE  Wrap(b, x) = IF b <= x THEN 1 ELSE 0
<1> DEFINE z == b - x - 1
           m == Pow2[W]
<1>1. /\ b \in Nat /\ x \in Nat /\ z \in Int /\ m \in Nat \ {0} /\ b < m /\ x < m
      /\ Pow2[W - 1] \in Nat /\ m = 2 * Pow2[W - 1]
  BY Sizes DEF Word
<1>2. CASE b <= x
  <2>1. z = (-1) * m + (z + m) /\ z + m \in 0 .. m - 1 /\ z + m >= Pow2[W - 1]
    BY <1>1, <1>2
  <2> DEFINE q == -1
             r == z + m
  <2>2. q \in Int /\ r \in 0 .. m - 1 /\ z = q * m + r /\ r >= Pow2[W - 1] /\ r < m
    BY <2>1, <1>1
  <2> HIDE DEF q, r, z, m
  <2>3. z % m = r
    BY <2>2, <1>1, Quotient, Zenon
  <2> QED
    BY <2>2, <2>3, <1>1, <1>2 DEF Wrap, Trunc, Signed, z, m
<1>3. CASE ~(b <= x)
  <2>1. z \in 0 .. m - 1 /\ z < Pow2[W - 1]
    BY <1>1, <1>3
  <2> HIDE DEF z, m
  <2>2. z % m = z
    BY <2>1, <1>1, Reduced
  <2> QED
    BY <2>1, <2>2, <1>1, <1>3 DEF Wrap, Trunc, Signed, z, m
<1> QED
  BY <1>2, <1>3

\* After i of B rounds the first bits of a are divided; the quotient has t
\* and the last bit, the rest of a waits above t.
Rounds(a, b, B, i) ==
    {s \in [rem : 0 .. b - 1, a : Word, wrap : {0, 1}] :
        \E t \in 0 .. Pow2[i] - 1 :
            /\ s.a = (a % Pow2[B - i]) * Pow2[W - B + i] + t
            /\ a \div Pow2[B - i] = (2 * t + s.wrap) * b + s.rem
            /\ i = 0 => 2 * t + s.wrap = 0}

\* The first of m bits, and the others.
LEMMA NextBit ==
    ASSUME NEW a \in Nat, NEW m \in Nat \ {0}
    PROVE  \E c \in {0, 1} :
             /\ a % Pow2[m] = c * Pow2[m - 1] + (a % Pow2[m - 1])
             /\ a \div Pow2[m - 1] = 2 * (a \div Pow2[m]) + c
<1> DEFINE p == Pow2[m - 1]
           q == Pow2[m]
           y == a \div q
           l == a % q
           c == l \div p
           k == l % p
<1>1. p \in Nat \ {0} /\ q \in Nat \ {0} /\ q = 2 * p
  <2>1. m - 1 \in Nat /\ (m - 1) + 1 = m /\ m \in Nat
    OBVIOUS
  <2> QED
    BY <2>1, PowNext, PowPositive
<1> HIDE DEF p, q
<1>2. y \in Nat /\ l \in 0 .. q - 1 /\ a = y * q + l
  <2>1. a \in Int
    OBVIOUS
  <2> QED
    BY <2>1, <1>1, Divided, DividedNat, Zenon
<1> HIDE DEF y, l
<1>3. c \in Nat /\ k \in 0 .. p - 1 /\ l = c * p + k
  <2>1. l \in Int /\ l \in Nat
    BY <1>1, <1>2
  <2> QED
    BY <2>1, <1>1, Divided, DividedNat, Zenon
<1> HIDE DEF c, k
<1>4. c \in {0, 1}
  <2>1. CASE c >= 2
    <3>1. (c - 2) * p \in Nat /\ (c - 2) * p = c * p - 2 * p /\ c * p \in Int
      BY <2>1, <1>1, <1>3
    <3> QED
      BY <3>1, <1>1, <1>2, <1>3
  <2> QED
    BY <2>1, <1>3
<1>5. a = (2 * y + c) * p + k
  <2>1. (2 * y + c) * p = y * (2 * p) + c * p
    BY <1>1, <1>2, <1>3
  <2>2. y * (2 * p) \in Int /\ c * p \in Int
    BY <1>1, <1>2, <1>3
  <2> QED
    BY <2>1, <2>2, <1>1, <1>2, <1>3
<1>6. a \div p = 2 * y + c /\ a % p = k
  <2> DEFINE j == 2 * y + c
  <2>1. j \in Int /\ a \in Int /\ a = j * p + k
    BY <1>2, <1>3, <1>5
  <2> HIDE DEF j
  <2>2. a \div p = j /\ a % p = k
    BY <2>1, <1>1, <1>3, Quotient, Zenon
  <2> QED
    BY <2>2 DEF j
<1>7. a % q = l /\ a \div q = y
  BY DEF l, y
<1> QED
  BY <1>3, <1>4, <1>6, <1>7 DEF p, q

LEMMA RoundStep ==
    ASSUME NEW a \in Word, NEW b \in Word, b # 0, b <= a,
           NEW B \in 1 .. W - 1, b > Pow2[W - 1] => B = 1,
           NEW i \in 1 .. B, NEW s \in Rounds(a, b, B, i - 1)
    PROVE  Round(b, s) \in Rounds(a, b, B, i)
<1> DEFINE m == B - i + 1
           e == W - m
           V == Pow2[W]
           M == Pow2[W - 1]
           E == Pow2[e]
           P == Pow2[m - 1]
           S == Pow2[i - 1]
           Y == a \div Pow2[m]
           u == a % Pow2[m]
           v == a % P
<1>1. /\ m \in Nat \ {0} /\ e \in Nat /\ m - 1 \in Nat /\ i - 1 \in Nat /\ i \in Nat
      /\ B - (i - 1) = m /\ W - B + (i - 1) = e /\ B - i = m - 1 /\ W - B + i = e + 1
      /\ i - 1 <= e /\ (m - 1) + e = W - 1 /\ (i - 1) + 1 = i
  BY Sizes
<1> HIDE DEF m, e
<1>2. /\ E \in Nat \ {0} /\ P \in Nat \ {0} /\ S \in Nat \ {0} /\ S <= E
      /\ Pow2[e + 1] = 2 * E /\ Pow2[i] = 2 * S
      /\ M \in Nat \ {0} /\ V \in Nat \ {0} /\ V = 2 * M /\ M = P * E
  <2>1. E \in Nat \ {0} /\ P \in Nat \ {0} /\ S \in Nat \ {0}
    BY <1>1, PowPositive
  <2>2. S <= E
    BY <1>1, PowMonotone
  <2>3. Pow2[e + 1] = 2 * E /\ Pow2[(i - 1) + 1] = 2 * S
    BY <1>1, PowNext
  <2>4. Pow2[(m - 1) + e] = P * E
    BY <1>1, PowSum
  <2> QED
    BY <2>1, <2>2, <2>3, <2>4, <1>1, Sizes
<1>3. a \in 0 .. V - 1 /\ b \in 1 .. V - 1
  BY <1>2 DEF Word
<1>4. PICK t \in 0 .. S - 1 :
        /\ s.a = u * E + t
        /\ Y = (2 * t + s.wrap) * b + s.rem
        /\ i - 1 = 0 => 2 * t + s.wrap = 0
  BY <1>1 DEF Rounds
<1>5. s.rem \in 0 .. b - 1 /\ s.a \in Word /\ s.wrap \in {0, 1} /\ s \in [rem : 0 .. b - 1, a : Word, wrap : {0, 1}]
  BY DEF Rounds
<1>6. PICK c \in {0, 1} : u = c * P + v /\ a \div P = 2 * Y + c
  <2>1. a \in Nat
    BY <1>3
  <2> QED
    BY <2>1, <1>1, NextBit
<1>7. a \div P \in Nat /\ v \in 0 .. P - 1 /\ a = (a \div P) * P + v
  <2>1. a \in Nat /\ a \in Int
    BY <1>3
  <2> HIDE DEF P
  <2> QED
    BY <2>1, <1>2, Divided, DividedNat, Zenon
<1> DEFINE z == a \div P
           T == 2 * t + s.wrap
           r == 2 * s.rem + c
<1>8. T \in 0 .. 2 * S - 1
  BY <1>2, <1>4, <1>5
<1>9. Y = T * b + s.rem
  BY <1>4
<1> HIDE DEF V, M, E, P, S, Y, u, v
<1>10. z \in Nat /\ z <= a /\ z = 2 * Y + c
  <2>1. z * (P - 1) \in Nat /\ z * (P - 1) = z * P - z /\ z * P \in Int
    BY <1>2, <1>7
  <2> HIDE DEF z
  <2> QED
    BY <2>1, <1>2, <1>6, <1>7 DEF z
<1>11. r \in Nat /\ r < 2 * b /\ r <= a /\ z = (2 * T) * b + r
  <2>1. T * b \in Nat /\ (2 * T) * b = 2 * (T * b)
    BY <1>2, <1>3, <1>8
  <2>2. z = 2 * (T * b + s.rem) + c
    BY <1>9, <1>10
  <2> HIDE DEF z, T
  <2> QED
    BY <2>1, <2>2, <1>3, <1>5, <1>6, <1>10
<1>12. b <= M \/ b <= r
  <2>1. CASE b > M
    <3>1. B = 1 /\ i = 1 /\ m - 1 = 0
      BY <2>1, <1>1 DEF M
    <3>2. P = 1 /\ T = 0
      BY <3>1, <1>4, PowNext DEF P
    <3>3. z = a /\ r = z
      BY <3>2, <1>2, <1>3, <1>7, <1>8, <1>11
    <3> QED
      BY <3>3, <1>3
  <2> QED
    BY <2>1, <1>2, <1>3
<1> DEFINE w == Wrap(b, r)
<1>13. r \in Word /\ b \in Word /\ r \in 0 .. V - 1
  <2> HIDE DEF r
  <2>1. r \in 0 .. V - 1
    BY <1>2, <1>3, <1>11
  <2>2. Word = 0 .. V - 1
    BY DEF Word, V
  <2> QED
    BY <2>1, <2>2
<1>14. w = IF b <= r THEN 1 ELSE 0
  <2> HIDE DEF r
  <2> QED
    BY <1>11, <1>12, <1>13, WrapIs DEF M
<1>15. ASSUME NEW x \in 0 .. V - 1, NEW k \in Int, NEW y \in Int, y = k * V + x
       PROVE  Trunc(y) = x
  BY <1>15, <1>2, Quotient, Zenon DEF Trunc, V
<1>16. s.a \div M = c
  <2> DEFINE x == v * E + t
  <2>1. x \in 0 .. P * E - 1
    <3>1. t \in 0 .. E - 1
      BY <1>2, <1>4
    <3> QED
      BY <3>1, <1>2, <1>7, Below
  <2>2. u * E + t = c * M + x
    <3>1. (c * P + v) * E = c * (P * E) + v * E
      BY <1>2, <1>6, <1>7
    <3>2. c * (P * E) \in Int /\ v * E \in Int
      BY <1>2, <1>6, <1>7
    <3> QED
      BY <3>1, <3>2, <1>2, <1>4, <1>6
  <2>3. s.a = c * M + x /\ x \in 0 .. M - 1 /\ s.a \in Int
    BY <2>1, <2>2, <1>2, <1>4, <1>5, Sizes DEF Word
  <2> DEFINE g == s.a
  <2>4. g = c * M + x /\ x \in 0 .. M - 1 /\ g \in Int /\ c \in Int /\ M \in Nat \ {0}
    BY <2>3, <1>2, <1>6
  <2> HIDE DEF x, g
  <2>5. g \div M = c
    BY <2>4, Quotient, Zenon
  <2> QED
    BY <2>5 DEF g
<1>17. Trunc(s.rem * 2 + (s.a \div M)) = r
  <2>1. r = s.rem * 2 + c /\ r \in 0 .. V - 1
    BY <1>5, <1>6, <1>13
  <2> HIDE DEF r
  <2>2. r = 0 * V + r
    BY <2>1, <1>2
  <2>3. Trunc(r) = r
    BY <2>1, <2>2, <1>15
  <2> QED
    BY <2>1, <2>3, <1>16
<1> DEFINE x == v * (2 * E) + T
<1>18. x \in 0 .. V - 1
  <2>1. T \in 0 .. 2 * E - 1 /\ 2 * E \in Nat
    BY <1>2, <1>8
  <2> HIDE DEF T
  <2>2. x \in 0 .. P * (2 * E) - 1
    BY <2>1, <1>2, <1>7, Below
  <2>3. P * (2 * E) = 2 * (P * E)
    BY <1>2
  <2> QED
    BY <2>2, <2>3, <1>2
<1>19. Trunc(s.a * 2 + s.wrap) = x
  <2>1. s.a * 2 + s.wrap = c * V + x
    <3>1. (c * P + v) * E = c * (P * E) + v * E
      BY <1>2, <1>6, <1>7
    <3>2. v * (2 * E) = 2 * (v * E) /\ c * V = 2 * (c * (P * E))
      BY <1>2, <1>6, <1>7
    <3>3. c * (P * E) \in Int /\ v * E \in Int
      BY <1>2, <1>6, <1>7
    <3> QED
      BY <3>1, <3>2, <3>3, <1>2, <1>4, <1>5, <1>6
  <2>2. s.a * 2 + s.wrap \in Int
    BY <1>5, Sizes DEF Word
  <2> HIDE DEF x
  <2> QED
    BY <2>1, <2>2, <1>6, <1>15, <1>18
<1> DEFINE d == r - b * w
<1>20. d \in 0 .. b - 1 /\ w \in {0, 1} /\ z = (2 * T + w) * b + d
  <2> HIDE DEF w, z, T, r
  <2>1. CASE b <= r
    <3>1. (2 * T + 1) * b = (2 * T) * b + b /\ (2 * T) * b \in Int
      BY <1>3, <1>8
    <3> QED
      BY <3>1, <2>1, <1>3, <1>11, <1>14
  <2>2. CASE ~(b <= r)
    <3>1. (2 * T + 0) * b = (2 * T) * b
      BY <1>3, <1>8
    <3> QED
      BY <3>1, <2>2, <1>3, <1>11, <1>14
  <2> QED
    BY <2>1, <2>2
<1>21. Trunc(d) = d
  <2> HIDE DEF d
  <2>1. d \in 0 .. V - 1 /\ d \in Int
    BY <1>2, <1>3, <1>20
  <2>2. d = 0 * V + d
    BY <2>1, <1>2
  <2> QED
    BY <2>1, <2>2, <1>15
<1> DEFINE n == [a |-> x, wrap |-> w, rem |-> d]
<1>22. Round(b, s) = n
  BY <1>17, <1>19, <1>21 DEF Round, M
<1>23. n.a = x /\ n.wrap = w /\ n.rem = d /\ n \in [rem : 0 .. b - 1, a : Word, wrap : {0, 1}]
  <2>1. x \in Word
    BY <1>18 DEF Word, V
  <2> HIDE DEF x, w, d
  <2> QED
    BY <2>1, <1>20
<1>24. T \in 0 .. Pow2[i] - 1 /\ i # 0
  BY <1>2, <1>8
<1>25. /\ n.a = (a % Pow2[B - i]) * Pow2[W - B + i] + T
       /\ a \div Pow2[B - i] = (2 * T + n.wrap) * b + n.rem
  BY <1>1, <1>2, <1>20, <1>23 DEF v, P
<1> HIDE DEF n, T
<1>26. n \in Rounds(a, b, B, i)
  BY <1>23, <1>24, <1>25 DEF Rounds
<1> QED
  BY <1>22, <1>26

\* How many rounds there are, from the zeros in front of a and of b.
LEMMA RoundsNeeded ==
    ASSUME NEW a \in Word, NEW b \in Word, 1 < b, b <= a
    PROVE  LET B == clz(b) - clz(a) + 1
           IN  /\ B \in 1 .. W - 1
               /\ b > Pow2[W - 1] => B = 1
               /\ a < b * Pow2[B]
<1> DEFINE ca == clz(a)
           cb == clz(b)
           B == cb - ca + 1
           M == Pow2[W - 1]
           p == Pow2[ca]
           q == Pow2[cb]
<1>1. /\ ca \in 0 .. W - 1 /\ cb \in 0 .. W - 1
      /\ M <= a * p /\ a * p < Pow2[W]
      /\ M <= b * q /\ b * q < Pow2[W]
  <2>1. a # 0 /\ b # 0
    BY Sizes DEF Word
  <2> QED
    BY <2>1, LeadingZeros
<1>2. /\ a \in Nat \ {0} /\ b \in Nat \ {0} /\ p \in Nat \ {0} /\ q \in Nat \ {0}
      /\ M \in Nat \ {0} /\ Pow2[W] = 2 * M /\ W \in Nat
  <2>1. ca \in Nat /\ cb \in Nat
    BY <1>1
  <2> HIDE DEF ca, cb
  <2> QED
    BY <2>1, PowPositive, Sizes DEF Word
<1> HIDE DEF ca, cb
<1>3. ca <= cb
  <2>1. CASE cb + 1 <= ca
    <3>1. Pow2[cb + 1] = 2 * q /\ Pow2[cb + 1] <= Pow2[ca]
      BY <2>1, <1>1, PowNext, PowMonotone
    <3>2. 2 * q <= p
      BY <3>1
    <3> HIDE DEF p, q, M
    <3>3. a * p = b * (2 * q) + (a - b) * (2 * q) + a * (p - 2 * q)
      BY <1>2
    <3>4. /\ b * (2 * q) = 2 * (b * q) /\ b * q \in Int
          /\ (a - b) * (2 * q) \in Nat /\ a * (p - 2 * q) \in Nat
      BY <1>2, <3>2
    <3> QED
      BY <3>3, <3>4, <1>1, <1>2
  <2> QED
    BY <2>1, <1>1
<1>4. cb <= W - 2
  <2>1. CASE cb = W - 1
    <3>1. q = M
      BY <2>1
    <3> HIDE DEF M, q, p
    <3>2. b * M = 2 * M + (b - 2) * M /\ (b - 2) * M \in Nat
      BY <1>2
    <3> QED
      BY <3>1, <3>2, <1>1, <1>2
  <2> QED
    BY <2>1, <1>1, <1>2
<1>5. ASSUME b > M PROVE cb = 0
  <2>1. CASE cb >= 1
    <3>1. Pow2[1] = 2
      BY PowNext
    <3>2. 2 <= q
      <4>1. Pow2[1] <= Pow2[cb]
        BY <2>1, <1>1, PowMonotone
      <4> QED
        BY <3>1, <4>1
    <3> HIDE DEF M, q, p
    <3>3. b * q = 2 * b + b * (q - 2) /\ b * (q - 2) \in Nat
      BY <3>2, <1>2
    <3> QED
      BY <3>3, <1>1, <1>2, <1>5
  <2> QED
    BY <2>1, <1>1
<1>6. a < b * Pow2[B]
  <2>1. B \in Nat /\ B + ca = cb + 1 /\ ca \in Nat /\ cb \in Nat
    BY <1>1, <1>3
  <2> DEFINE k == Pow2[B]
  <2>2. k \in Nat \ {0}
    BY <2>1, PowPositive
  <2>3. k * p = 2 * q
    <3>1. Pow2[B + ca] = Pow2[B] * Pow2[ca]
      BY <2>1, PowSum, Zenon
    <3> HIDE DEF B
    <3> QED
      BY <3>1, <2>1, PowNext
  <2> HIDE DEF k, p, q, M
  <2>4. CASE a >= b * k
    <3>1. b * k \in Nat
      BY <1>2, <2>2
    <3>2. a * p = (b * k) * p + (a - b * k) * p
      BY <3>1, <1>2
    <3>3. (b * k) * p = b * (k * p) /\ b * (2 * q) = 2 * (b * q) /\ b * q \in Int
      BY <1>2, <2>2
    <3>4. (a - b * k) * p \in Nat
      <4> DEFINE d == a - b * k
      <4>1. d \in Nat
        BY <2>4, <3>1, <1>2
      <4> HIDE DEF d
      <4>2. d * p \in Nat
        BY <4>1, <1>2
      <4> QED
        BY <4>2 DEF d
    <3>5. a * p = 2 * (b * q) + (a - b * k) * p
      BY <3>2, <3>3, <2>3
    <3> QED
      BY <3>5, <3>4, <3>3, <1>1, <1>2
  <2>5. b * k \in Int
    BY <1>2, <2>2
  <2> QED
    BY <2>4, <2>5, <1>2 DEF k
<1>7. B \in 1 .. W - 1 /\ (b > M => B = 1)
  <2> HIDE DEF M, p, q
  <2> QED
    BY <1>1, <1>2, <1>3, <1>4, <1>5
<1> QED
  BY <1>6, <1>7, Zenon DEF ca, cb

LEMMA FirstRound ==
    ASSUME NEW a \in Word, NEW b \in Word, 1 < b, b <= a,
           NEW B \in 1 .. W - 1, a < b * Pow2[B]
    PROVE  [rem |-> a \div Pow2[B], a |-> Trunc(a * Pow2[W - B]), wrap |-> 0] \in Rounds(a, b, B, 0)
<1> DEFINE K == Pow2[B]
           E == Pow2[W - B]
           V == Pow2[W]
           y == a \div K
           k == a % K
<1>1. K \in Nat \ {0} /\ E \in Nat \ {0} /\ V \in Nat \ {0} /\ V = K * E
  <2>1. B \in Nat /\ W - B \in Nat /\ B + (W - B) = W
    BY Sizes
  <2>2. Pow2[B + (W - B)] = Pow2[B] * Pow2[W - B]
    BY <2>1, PowSum, Zenon
  <2> QED
    BY <2>1, <2>2, PowPositive, Sizes
<1>2. a \in Nat /\ b \in Nat /\ a \in Int
  BY Sizes DEF Word
<1>3. y \in Nat /\ k \in 0 .. K - 1 /\ a = y * K + k
  <2> HIDE DEF K
  <2> QED
    BY <1>1, <1>2, Divided, DividedNat, Zenon
<1> HIDE DEF E, V
<1>4. y \in 0 .. b - 1
  <2>1. a < b * K
    OBVIOUS
  <2> HIDE DEF y, k, K
  <2>2. CASE y >= b
    <3>1. y * K = b * K + (y - b) * K /\ (y - b) * K \in Nat /\ b * K \in Int
      BY <2>2, <1>1, <1>2, <1>3
    <3> QED
      BY <3>1, <2>1, <1>1, <1>2, <1>3
  <2> QED
    BY <2>2, <1>2, <1>3
<1>5. Trunc(a * E) = k * E /\ k * E \in Word
  <2> HIDE DEF y, k, K
  <2>1. k * E + 0 \in 0 .. K * E - 1
    <3>1. 0 \in 0 .. E - 1
      BY <1>1
    <3> QED
      BY <3>1, <1>1, <1>3, Below
  <2>2. k * E \in Int /\ a * E \in Int
    BY <1>1, <1>2, <1>3
  <2> DEFINE x == k * E
             z == a * E
  <2>3. z = y * V + x
    <3>1. (y * K + k) * E = y * (K * E) + k * E
      BY <1>1, <1>3
    <3> QED
      BY <3>1, <1>1, <1>3
  <2>4. x \in 0 .. V - 1 /\ z \in Int /\ V \in Nat \ {0} /\ y \in Int
    BY <2>1, <2>2, <1>1, <1>3
  <2> HIDE DEF x, z
  <2>5. z % V = x
    BY <2>3, <2>4, Quotient, Zenon
  <2> QED
    BY <2>4, <2>5 DEF Trunc, Word, V, x, z
<1> DEFINE s == [rem |-> y, a |-> Trunc(a * E), wrap |-> 0]
<1>6. B - 0 = B /\ W - B + 0 = W - B /\ Pow2[0] = 1
  BY Sizes, PowNext
<1>7. s.rem = y /\ s.a = k * E /\ s.wrap = 0 /\ s \in [rem : 0 .. b - 1, a : Word, wrap : {0, 1}]
  BY <1>4, <1>5
<1>8. a \div Pow2[B - 0] = y /\ a % Pow2[B - 0] = k /\ Pow2[W - B + 0] = E
  BY <1>6 DEF E
<1>9. (2 * 0 + 0) * b + y = y /\ k * E + 0 = k * E
  <2> HIDE DEF y, k
  <2> QED
    BY <1>1, <1>2, <1>3
<1>10. s \in Rounds(a, b, B, 0)
  <2> SUFFICES /\ s.a = (a % Pow2[B - 0]) * Pow2[W - B + 0] + 0
               /\ a \div Pow2[B - 0] = (2 * 0 + s.wrap) * b + s.rem
               /\ 2 * 0 + s.wrap = 0
    BY <1>6, <1>7 DEF Rounds
  <2> HIDE DEF s, y, k
  <2> QED
    BY <1>7, <1>8, <1>9
<1> QED
  BY <1>10 DEF E

\* What the last round leaves.
LEMMA LastRound ==
    ASSUME NEW a \in Word, NEW b \in Word, 1 < b,
           NEW B \in 1 .. W - 1, NEW s \in Rounds(a, b, B, B)
    PROVE  /\ Trunc(s.a * 2 + s.wrap) \in Word /\ s.rem \in 0 .. b - 1
           /\ a = Trunc(s.a * 2 + s.wrap) * b + s.rem
<1> DEFINE V == Pow2[W]
<1>1. a \in 0 .. V - 1 /\ b \in Nat /\ V \in Nat \ {0} /\ a \in Int
  BY Sizes DEF Word
<1>2. Pow2[B - B] = 1 /\ W - B + B = W /\ Pow2[B] \in Nat
  BY Sizes, PowNext, PowPositive
<1>3. PICK t \in 0 .. Pow2[B] - 1 :
        /\ s.a = (a % Pow2[B - B]) * Pow2[W - B + B] + t
        /\ a \div Pow2[B - B] = (2 * t + s.wrap) * b + s.rem
  BY DEF Rounds
<1>4. s.rem \in 0 .. b - 1 /\ s.wrap \in {0, 1}
  BY DEF Rounds
<1>5. a % 1 = 0 /\ a \div 1 = a
  BY <1>1
<1>6. s.a = t
  <2>1. 0 * V + t = t
    BY <1>1, <1>2
  <2> QED
    BY <2>1, <1>2, <1>3, <1>5
<1> DEFINE q == 2 * t + s.wrap
<1>7. q \in Nat /\ a = q * b + s.rem
  BY <1>2, <1>3, <1>4, <1>5
<1>8. q \in 0 .. V - 1
  <2> HIDE DEF q, V
  <2>1. q * b = q + q * (b - 1) /\ q * (b - 1) \in Nat
    BY <1>1, <1>7
  <2> QED
    BY <2>1, <1>1, <1>4, <1>7
<1>9. s.a * 2 + s.wrap = q
  BY <1>2, <1>4, <1>6
<1>10. Trunc(q) = q
  <2> HIDE DEF q, V
  <2>1. V \in Nat \ {0}
    BY <1>1
  <2>2. q % V = q
    BY <2>1, <1>8, Reduced
  <2> QED
    BY <2>2 DEF Trunc, V
<1> HIDE DEF q
<1> QED
  BY <1>4, <1>7, <1>8, <1>9, <1>10 DEF Word

LEMMA LongDivided ==
    ASSUME NEW a \in Word, NEW b \in Word, 1 < b, b <= a
    PROVE  LET u == LongDivision(a, b)
           IN  u.q \in Word /\ u.r \in 0 .. b - 1 /\ a = u.q * b + u.r
<1> DEFINE B == clz(b) - clz(a) + 1
           s0 == [rem |-> a \div Pow2[B], a |-> Trunc(a * Pow2[W - B]), wrap |-> 0]
           State == [rem : 0 .. b - 1, a : Word, wrap : {0, 1}]
           inv == [i \in 0 .. B |-> Rounds(a, b, B, i)]
           step == [p \in State \X (1 .. B) |-> Round(b, p[1])]
           Eq(f) == f = [i \in 0 .. B |-> IF i = 0 THEN s0 ELSE Round(b, f[i - 1])]
<1>1. B \in 1 .. W - 1 /\ (b > Pow2[W - 1] => B = 1) /\ a < b * Pow2[B]
  BY RoundsNeeded
<1>2. s0 \in Rounds(a, b, B, 0)
  <2> HIDE DEF B
  <2> QED
    BY <1>1, FirstRound
<1>3. LongDivision(a, b) =
        LET s == (CHOOSE f : Eq(f))[B] IN [q |-> Trunc(s.a * 2 + s.wrap), r |-> s.rem]
  BY Zenon DEF LongDivision, Loop
<1>4. B \in Nat /\ 0 \in 0 .. B /\ B \in 0 .. B
  <2> HIDE DEF B
  <2> QED
    BY <1>1, Sizes
<1> HIDE DEF B, s0
<1>5. \A i \in 1 .. B : \A s \in Rounds(a, b, B, i - 1) : Round(b, s) \in Rounds(a, b, B, i)
  <2>1. b # 0
    BY Sizes DEF Word
  <2> QED
    BY <2>1, <1>1, RoundStep
<1>6. \E f : Eq(f)
  <2>1. s0 \in inv[0]
    BY <1>4, <1>2
  <2>2. \A i \in 1 .. B : \A s \in inv[i - 1] : step[<<s, i>>] = Round(b, s) /\ step[<<s, i>>] \in inv[i]
    <3> SUFFICES ASSUME NEW i \in 1 .. B, NEW s \in inv[i - 1]
                 PROVE  step[<<s, i>>] = Round(b, s) /\ step[<<s, i>>] \in inv[i]
      OBVIOUS
    <3>1. i \in 0 .. B /\ i - 1 \in 0 .. B
      BY <1>4
    <3>2. s \in Rounds(a, b, B, i - 1)
      BY <3>1
    <3>3. s \in State
      BY <3>2 DEF Rounds
    <3>4. step[<<s, i>>] = Round(b, s)
      BY <3>3
    <3> QED
      BY <3>1, <3>2, <3>4, <1>5
  <2> HIDE DEF inv, step
  <2>4. \A m \in 0 .. B : \E g : g = [i \in 0 .. m |-> g[i]] /\ Run(g, s0, step, m) /\ \A i \in 0 .. m : g[i] \in inv[i]
    BY <2>1, <2>2, <1>4, RunExists
  <2>5. PICK g : g = [i \in 0 .. B |-> g[i]] /\ Run(g, s0, step, B) /\ \A i \in 0 .. B : g[i] \in inv[i]
    BY <2>4, <1>4
  <2>6. ASSUME NEW i \in 0 .. B PROVE g[i] = IF i = 0 THEN s0 ELSE Round(b, g[i - 1])
    <3>1. CASE i = 0
      BY <3>1, <2>5 DEF Run
    <3>2. CASE i # 0
      <4>1. i \in 1 .. B /\ i - 1 \in 0 .. B
        BY <3>2, <1>4
      <4>2. g[i] = step[<<g[i - 1], i>>] /\ g[i - 1] \in inv[i - 1]
        BY <4>1, <2>5 DEF Run
      <4> QED
        BY <4>1, <4>2, <3>2, <2>2
    <3> QED
      BY <3>1, <3>2
  <2>7. Eq(g)
    BY <2>5, <2>6
  <2> QED
    BY <2>7
<1>7. PICK f : Eq(f) /\ LongDivision(a, b) = [q |-> Trunc(f[B].a * 2 + f[B].wrap), r |-> f[B].rem]
  <2> DEFINE f == CHOOSE f : Eq(f)
  <2>1. Eq(f)
    BY <1>6
  <2> QED
    BY <2>1, <1>3
<1>8. f[B] \in Rounds(a, b, B, B)
  <2> DEFINE Q == {i \in 0 .. B : f[i] \in Rounds(a, b, B, i)}
  <2>1. 0 \in Q
    BY <1>4, <1>2, <1>7
  <2>2. ASSUME NEW i \in 1 .. B, i - 1 \in Q PROVE i \in Q
    <3>1. i \in 0 .. B /\ i # 0
      BY <1>4
    <3>2. f[i] = Round(b, f[i - 1])
      BY <3>1, <1>7
    <3> QED
      BY <3>1, <3>2, <2>2, <1>5
  <2>3. \A i \in 0 .. B : i \in Q
    <3> HIDE DEF Q
    <3> QED
      BY <2>1, <2>2, <1>4, Turns
  <2> QED
    BY <2>3, <1>4
<1> DEFINE s == f[B]
<1> HIDE DEF s
<1>9. /\ Trunc(s.a * 2 + s.wrap) \in Word /\ s.rem \in 0 .. b - 1
      /\ a = Trunc(s.a * 2 + s.wrap) * b + s.rem
  BY <1>1, <1>8, LastRound DEF s
<1>10. LongDivision(a, b) = [q |-> Trunc(s.a * 2 + s.wrap), r |-> s.rem]
  BY <1>7 DEF s
<1> QED
  BY <1>9, <1>10

-----------------------------------------------------------------------------
(* Division.                                                               *)
LEMMA Unsigned ==
    ASSUME NEW a \in Word, NEW b \in Word, b # 0
    PROVE  LET u == divmoddi4(a, b)
           IN  u.q \in Word /\ u.r \in 0 .. b - 1 /\ a = u.q * b + u.r /\ u.r \in Word /\ u.q <= a
<1> DEFINE u == divmoddi4(a, b)
           V == Pow2[W]
<1>1. a \in 0 .. V - 1 /\ b \in 1 .. V - 1 /\ V \in Nat
  BY Sizes DEF Word
<1>2. u.q \in Word /\ u.r \in 0 .. b - 1 /\ a = u.q * b + u.r
  <2>1. CASE b > a
    <3>1. u = [q |-> 0, r |-> a]
      BY <2>1 DEF divmoddi4
    <3>2. 0 * b + a = a
      BY <1>1
    <3> QED
      BY <3>1, <3>2, <2>1, <1>1 DEF Word
  <2>2. CASE ~(b > a) /\ b = 1
    <3>1. u = [q |-> a, r |-> 0]
      BY <2>2 DEF divmoddi4
    <3>2. a * 1 + 0 = a
      BY <1>1
    <3> QED
      BY <3>1, <3>2, <2>2, <1>1 DEF Word
  <2>3. CASE ~(b > a) /\ b # 1 /\ hi(b) = 0 /\ hi(a) = 0
    <3> DEFINE x == lo(a)
               y == lo(b)
    <3>1. u = [q |-> x \div y, r |-> x % y]
      BY <2>3 DEF divmoddi4
    <3>2. x = a /\ y = b
      <4>1. a = 0 * Pow2[H] + x /\ b = 0 * Pow2[H] + y /\ x \in Int /\ y \in Int /\ Pow2[H] \in Int
        BY <2>3, WordParts, Sizes
      <4> HIDE DEF x, y
      <4> QED
        BY <4>1
    <3> HIDE DEF x, y
    <3>3. x \in Int /\ x \in Nat /\ y \in Nat \ {0}
      BY <3>2, <1>1
    <3> DEFINE k == x \div y
               l == x % y
    <3>4. k \in Nat /\ l \in 0 .. y - 1 /\ x = k * y + l
      BY <3>3, Divided, DividedNat, Zenon
    <3> HIDE DEF k, l
    <3>5. k <= x
      <4>1. k * y = k + k * (y - 1) /\ k * (y - 1) \in Nat
        BY <3>3, <3>4
      <4> QED
        BY <4>1, <3>3, <3>4
    <3>6. u.q = k /\ u.r = l
      BY <3>1 DEF k, l
    <3> HIDE DEF u
    <3> QED
      BY <3>2, <3>4, <3>5, <3>6, <1>1 DEF Word
  <2>4. CASE ~(b > a) /\ b # 1 /\ ~(hi(b) = 0 /\ hi(a) = 0)
    <3>1. u = LongDivision(a, b)
      BY <2>4 DEF divmoddi4
    <3>2. 1 < b /\ b <= a
      BY <2>4, <1>1
    <3> QED
      BY <3>1, <3>2, LongDivided
  <2> QED
    BY <2>1, <2>2, <2>3, <2>4
<1> DEFINE q == u.q
           r == u.r
<1>3. q \in 0 .. V - 1 /\ r \in 0 .. b - 1 /\ a = q * b + r
  BY <1>2 DEF Word
<1> HIDE DEF u, V, q, r
<1>4. q * b = q + q * (b - 1) /\ q * (b - 1) \in Nat
  BY <1>1, <1>3
<1>5. q <= a /\ r \in 0 .. V - 1
  BY <1>1, <1>3, <1>4
<1> QED
  BY <1>2, <1>5 DEF Word, V, u, q, r

\* arith64_abs.
LEMMA AbsoluteIs ==
    ASSUME NEW a \in Word
    PROVE  /\ neg(a, a) = IF Signed(a) < 0 THEN -Signed(a) ELSE Signed(a)
           /\ neg(a, a) \in 0 .. Pow2[W - 1] /\ neg(a, a) \in Word
<1> DEFINE M == Pow2[W - 1]
           V == Pow2[W]
           s == Signed(a)
<1>1. M \in Nat \ {0} /\ V \in Nat \ {0} /\ V = 2 * M /\ a \in 0 .. V - 1
  BY Sizes DEF Word
<1>2. s \in Int /\ -M <= s /\ s < M /\ a = IF s < 0 THEN s + V ELSE s
  BY SignedRange
<1>3. CASE s < 0
  <2>1. neg(a, a) = Trunc(-a)
    BY <1>3 DEF neg
  <2> HIDE DEF s, M, V
  <2> DEFINE x == -a
             y == -s
             k == -1
  <2>2. x = k * V + y /\ x \in Int /\ k \in Int /\ y \in 0 .. V - 1 /\ y \in 0 .. M
    BY <1>1, <1>2, <1>3
  <2> HIDE DEF x, y, k
  <2>3. x % V = y
    BY <2>2, <1>1, Quotient, Zenon
  <2> QED
    BY <2>1, <2>2, <2>3, <1>3 DEF x, y, V, Trunc, M, s, Word
<1>4. CASE ~(s < 0)
  <2>1. neg(a, a) = a
    BY <1>4 DEF neg
  <2> HIDE DEF M, V
  <2> QED
    BY <2>1, <1>1, <1>2, <1>4 DEF M
<1> QED
  BY <1>3, <1>4

LEMMA NegatedIs ==
    ASSUME NEW c \in Word, NEW x \in 0 .. Pow2[W - 1]
    PROVE  Signed(neg(x, c)) = IF Signed(c) < 0 THEN -x
                               ELSE IF x = Pow2[W - 1] THEN -x ELSE x
<1> DEFINE M == Pow2[W - 1]
           V == Pow2[W]
<1>1. M \in Nat \ {0} /\ V \in Nat \ {0} /\ V = 2 * M /\ x \in 0 .. M
  BY Sizes
<1>2. \A k \in 0 .. V - 1 : Signed(k) = IF k >= M THEN k - V ELSE k
  BY DEF Signed
<1>3. CASE Signed(c) < 0
  <2>1. neg(x, c) = Trunc(-x)
    BY <1>3 DEF neg
  <2> HIDE DEF M, V
  <2>2. CASE x = 0
    <3> DEFINE z == -x
    <3>1. x \in Int /\ \A k \in Int : k = 0 => -k = 0
      BY <1>1
    <3>2. z = 0
      BY <2>2, <3>1, Zenon
    <3>3. 0 \in 0 .. V - 1
      BY <1>1
    <3> HIDE DEF z
    <3>4. z % V = 0
      BY <3>2, <3>3, <1>1, Reduced
    <3>5. Trunc(-x) = 0
      BY <3>4 DEF z, Trunc, V
    <3>6. Signed(0) = 0
      BY <3>3, <1>1, <1>2
    <3> QED
      BY <2>1, <2>2, <3>2, <3>5, <3>6, <1>1, <1>3 DEF z
  <2>3. CASE x # 0
    <3> DEFINE z == -x
               y == V - x
               k == -1
    <3>1. z = k * V + y /\ z \in Int /\ k \in Int /\ y \in 0 .. V - 1 /\ y >= M /\ y - V = -x
      BY <2>3, <1>1
    <3> HIDE DEF z, y, k
    <3>2. z % V = y
      BY <3>1, <1>1, Quotient, Zenon
    <3>3. Signed(y) = -x
      BY <3>1, <1>2
    <3> QED
      BY <2>1, <3>2, <3>3, <1>3 DEF z, Trunc, V
  <2> QED
    BY <2>2, <2>3
<1>4. CASE ~(Signed(c) < 0)
  <2>1. neg(x, c) = x
    BY <1>4 DEF neg
  <2> HIDE DEF M, V
  <2>2. x \in 0 .. V - 1 /\ (x >= M <=> x = M) /\ (x = M => x - V = -x)
    BY <1>1
  <2>3. Signed(x) = IF x >= M THEN x - V ELSE x
    BY <1>2, <2>2
  <2>4. Signed(x) = IF x = M THEN -x ELSE x
    BY <2>2, <2>3
  <2> QED
    BY <2>1, <2>4, <1>4 DEF M
<1> QED
  BY <1>3, <1>4

LEMMA DifferIs ==
    ASSUME NEW a \in Word, NEW b \in Word
    PROVE  /\ Differ(a, b) \in Word
           /\ (Signed(Differ(a, b)) < 0) = ((Signed(a) < 0) # (Signed(b) < 0))
<1> DEFINE M == Pow2[W - 1]
           V == Pow2[W]
<1>1. M \in Nat \ {0} /\ V \in Nat \ {0} /\ V = 2 * M
  BY Sizes
<1>2. \A k \in 0 .. V - 1 : Signed(k) = IF k >= M THEN k - V ELSE k
  BY DEF Signed
<1>3. Differ(a, b) = IF (Signed(a) < 0) # (Signed(b) < 0) THEN M ELSE 0
  BY DEF Differ
<1> HIDE DEF M
<1>4. M \in 0 .. V - 1 /\ 0 \in 0 .. V - 1
  <2> HIDE DEF V
  <2> QED
    BY <1>1
<1>5. Signed(M) < 0 /\ ~(Signed(0) < 0)
  <2> HIDE DEF V
  <2> QED
    BY <1>1, <1>2, <1>4
<1> QED
  BY <1>3, <1>4, <1>5 DEF Word

\* What the quotient q and the remainder r of a by b are, with m the lowest
\* number's distance from 0.
Divides(a, b, q, r, m) ==
    \/ a = q * b + r /\ (r = 0 \/ (r < 0) = (a < 0))
       /\ (IF r < 0 THEN -r ELSE r) < (IF b < 0 THEN -b ELSE b)
    \/ a = -m /\ b = -1 /\ q = a /\ r = 0

LEMMA SignsPut ==
    ASSUME NEW m \in Nat, NEW a \in Int, NEW b \in Int, b # 0, -m <= a, a < m, -m <= b, b < m,
           NEW Q \in 0 .. m, NEW R \in Nat,
           NEW A \in Nat, NEW B \in Nat, A = IF a < 0 THEN -a ELSE a, B = IF b < 0 THEN -b ELSE b,
           A = Q * B + R, R < B,
           NEW q, q = IF (a < 0) # (b < 0) \/ Q = m THEN -Q ELSE Q,
           NEW r, r = IF a < 0 THEN -R ELSE R
    PROVE  Divides(a, b, q, r, m)
<1>1. Q * (-B) = -(Q * B) /\ (-Q) * B = -(Q * B) /\ (-Q) * (-B) = Q * B /\ Q * B \in Nat
  OBVIOUS
<1> DEFINE P == Q * B
<1>2. P \in Nat /\ A = P + R
  BY <1>1
<1>3. CASE Q = m
  <2>1. B = 1 \/ Q = 0
    <3>1. CASE B >= 2
      <4>1. Q * B = 2 * Q + Q * (B - 2) /\ Q * (B - 2) \in Nat
        BY <3>1
      <4> QED
        BY <4>1, <1>3
    <3> QED
      BY <3>1
  <2>2. CASE B = 1
    <3>1. P = Q /\ R = 0 /\ A = Q
      BY <2>2
    <3>2. a = -m /\ a < 0
      BY <3>1, <2>2, <1>3
    <3>3. CASE b = 1
      <4>1. q = -Q /\ r = 0
        <5>1. q = -Q
          BY <1>3, Zenon
        <5>2. r = -0
          BY <3>1, <3>2
        <5> QED
          BY <5>1, <5>2
      <4>2. a = q * b + r
        BY <3>1, <3>2, <3>3, <4>1, <1>3
      <4> QED
        BY <3>2, <3>3, <4>1, <4>2 DEF Divides
    <3>4. CASE b = -1
      <4>1. q = -Q /\ r = 0
        <5>1. q = -Q
          BY <1>3, Zenon
        <5>2. r = -0
          BY <3>1, <3>2
        <5> QED
          BY <5>1, <5>2
      <4> QED
        BY <3>2, <3>4, <4>1, <1>3 DEF Divides
    <3> QED
      BY <3>3, <3>4, <2>2
  <2>3. CASE Q = 0
    BY <2>3, <1>3
  <2> QED
    BY <2>1, <2>2, <2>3
<1>4. CASE Q # m /\ a < 0 /\ b < 0
  <2>1. a = Q * b + (-R)
    <3>1. b = -B
      BY <1>4
    <3> QED
      BY <3>1, <1>1, <1>4
  <2> QED
    BY <2>1, <1>4 DEF Divides
<1>5. CASE Q # m /\ a < 0 /\ ~(b < 0)
  <2>1. a = (-Q) * b + (-R)
    <3>1. b = B
      BY <1>5
    <3> QED
      BY <3>1, <1>1, <1>5
  <2> QED
    BY <2>1, <1>5 DEF Divides
<1>6. CASE Q # m /\ ~(a < 0) /\ b < 0
  <2>1. a = (-Q) * b + R
    <3>1. b = -B
      BY <1>6
    <3> QED
      BY <3>1, <1>1, <1>6
  <2> QED
    BY <2>1, <1>6 DEF Divides
<1>7. CASE Q # m /\ ~(a < 0) /\ ~(b < 0)
  <2>1. a = Q * b + R
    BY <1>7
  <2> QED
    BY <2>1, <1>7 DEF Divides
<1> QED
  BY <1>3, <1>4, <1>5, <1>6, <1>7

LEMMA SignedDivided ==
    ASSUME NEW a \in Word, NEW b \in Word, b # 0
    PROVE  Divides(Signed(a), Signed(b), Signed(divdi3(a, b)), Signed(moddi3(a, b)), Pow2[W - 1])
<1> DEFINE A == neg(a, a)
           B == neg(b, b)
           Q == divmoddi4(A, B).q
           R == divmoddi4(A, B).r
           m == Pow2[W - 1]
           sa == Signed(a)
           sb == Signed(b)
           D == Differ(a, b)
<1>1. /\ A = IF sa < 0 THEN -sa ELSE sa
      /\ B = IF sb < 0 THEN -sb ELSE sb
      /\ A \in 0 .. m /\ A \in Word /\ B \in 0 .. m /\ B \in Word
  BY AbsoluteIs
<1>2. sa \in Int /\ sb \in Int /\ -m <= sa /\ sa < m /\ -m <= sb /\ sb < m
  BY SignedRange
<1>3. sb # 0
  <2>1. b = IF sb < 0 THEN sb + Pow2[W] ELSE sb
    BY SignedRange
  <2> QED
    BY <2>1
<1> HIDE DEF A, B, sa, sb, m, D
<1>4. m \in Nat \ {0}
  BY Sizes DEF m
<1>5. B # 0
  BY <1>1, <1>2, <1>3
<1>6. Q \in Word /\ R \in 0 .. B - 1 /\ A = Q * B + R /\ Q <= A
  BY <1>1, <1>5, Unsigned
<1>7. Q \in Nat
  BY <1>6, Sizes DEF Word
<1> HIDE DEF Q, R
<1>8. Q \in 0 .. m /\ R \in 0 .. m /\ R # m /\ R \in Nat /\ R < B /\ A \in Nat /\ B \in Nat
  BY <1>1, <1>4, <1>5, <1>6, <1>7
<1>9. D \in Word /\ (Signed(D) < 0) = ((sa < 0) # (sb < 0))
  BY DifferIs DEF D, sa, sb
<1>10. Signed(neg(Q, D)) = IF Signed(D) < 0 THEN -Q ELSE IF Q = m THEN -Q ELSE Q
  BY <1>8, <1>9, NegatedIs DEF m
<1>11. Signed(neg(R, a)) = IF sa < 0 THEN -R ELSE IF R = m THEN -R ELSE R
  BY <1>8, NegatedIs DEF m, sa
<1>12. divdi3(a, b) = neg(Q, D) /\ moddi3(a, b) = neg(R, a)
  BY DEF divdi3, moddi3, Q, R, A, B, D
<1> DEFINE q == IF (sa < 0) # (sb < 0) \/ Q = m THEN -Q ELSE Q
           r == IF sa < 0 THEN -R ELSE R
<1>13. Signed(divdi3(a, b)) = q
  BY <1>9, <1>10, <1>12
<1>14. Signed(moddi3(a, b)) = r
  BY <1>8, <1>11, <1>12
<1>15. Divides(sa, sb, q, r, m)
  <2>1. m \in Nat
    BY <1>4
  <2>2. /\ q = IF (sa < 0) # (sb < 0) \/ Q = m THEN -Q ELSE Q
        /\ r = IF sa < 0 THEN -R ELSE R
    OBVIOUS
  <2> HIDE DEF q, r
  <2> QED
    BY <2>1, <2>2, <1>1, <1>2, <1>3, <1>6, <1>8, SignsPut, Zenon
<1> QED
  BY <1>13, <1>14, <1>15 DEF sa, sb, m

-----------------------------------------------------------------------------
(* Strings.                                                                *)

\* What the assumption says of each constant.
LEMMA StringsGiven == Strings \subseteq Seq(Int \ {0})
BY LibAssumption, SMTT(60)

LEMMA DirectivesGiven ==
    \A d \in Directives : IF d.conv \in {"c", "s"} THEN d \in TextDirective ELSE d \in NumberDirective
BY LibAssumption, SMTT(60)

LEMMA EntriesGiven == Entries \in 1 .. 32768
BY LibAssumption, SMTT(60)

\* Stops(l, r, p): p is the first position where the strings differ or end.
Stops(l, r, p) ==
    /\ p \in 1 .. Len(l) + 1
    /\ Char(l, p) # Char(r, p) \/ Char(l, p) = 0
    /\ \A j \in 1 .. p - 1 : Char(l, j) = Char(r, j)

LEMMA CharIs ==
    ASSUME NEW l \in Strings
    PROVE  /\ l \in Seq(Int \ {0}) /\ Len(l) \in Nat
           /\ \A i \in 1 .. Len(l) : Char(l, i) = l[i] /\ Char(l, i) # 0 /\ Char(l, i) \in Int
           /\ \A i \in Nat : i > Len(l) => Char(l, i) = 0
<1>1. l \in Seq(Int \ {0})
  BY StringsGiven
<1> QED
  BY <1>1 DEF Char

LEMMA StopIs ==
    ASSUME NEW l \in Strings, NEW r \in Strings
    PROVE  Stops(l, r, Stop(l, r))
<1> DEFINE Here(i) == Char(l, i) # Char(r, i) \/ Char(l, i) = 0
           S == {i \in 1 .. Len(l) + 1 : Here(i)}
<1>1. Len(l) \in Nat /\ Char(l, Len(l) + 1) = 0
  BY CharIs
<1>2. Len(l) + 1 \in S /\ S \in SUBSET Nat
  BY <1>1
<1>3. PICK n \in S : \A x \in S : n <= x
  BY <1>2, LeastNumber
<1>4. ASSUME NEW j \in 1 .. n - 1 PROVE Char(l, j) = Char(r, j)
  <2>1. j \in 1 .. Len(l) + 1 /\ ~(n <= j) /\ j \notin S
    BY <1>1, <1>3
  <2> QED
    BY <2>1
<1>5. Stops(l, r, n)
  BY <1>3, <1>4 DEF Stops
<1>6. Stop(l, r) = CHOOSE i \in 1 .. Len(l) + 1 :
                     Here(i) /\ \A j \in 1 .. i - 1 : Char(l, j) = Char(r, j)
  BY Zenon DEF Stop
<1> QED
  BY <1>5, <1>6 DEF Stops

\* It is the same from either side.
LEMMA StopSame ==
    ASSUME NEW l \in Strings, NEW r \in Strings
    PROVE  Stop(l, r) = Stop(r, l)
<1>1. ASSUME NEW x \in Strings, NEW y \in Strings, NEW p, NEW q,
             Stops(x, y, p), Stops(y, x, q), p < q
      PROVE  FALSE
  <2>1. p \in 1 .. q - 1 /\ p \in Nat /\ q \in Nat /\ q <= Len(y) + 1 /\ Len(y) \in Nat
    BY <1>1, CharIs DEF Stops
  <2>2. Char(y, p) = Char(x, p) /\ Char(x, p) = 0
    BY <1>1, <2>1 DEF Stops
  <2>3. p \in 1 .. Len(y)
    BY <2>1
  <2> QED
    BY <2>2, <2>3, CharIs
<1> DEFINE p == Stop(l, r)
           q == Stop(r, l)
<1>2. Stops(l, r, p) /\ Stops(r, l, q)
  BY StopIs
<1>3. p \in Nat /\ q \in Nat
  BY <1>2, CharIs DEF Stops
<1> HIDE DEF p, q
<1>4. ~(p < q) /\ ~(q < p)
  BY <1>1, <1>2
<1>5. p = q
  BY <1>3, <1>4
<1> QED
  BY <1>5 DEF p, q

\* Where the first of the strings ends, it is the head of the second.
LEMMA StopAtEnd ==
    ASSUME NEW l \in Strings, NEW r \in Strings
    PROVE  /\ Stop(l, r) = Len(l) + 1 <=> IsPrefix(l, r)
           /\ Char(l, Stop(l, r)) = 0 <=> Stop(l, r) = Len(l) + 1
<1> DEFINE p == Stop(l, r)
<1>1. Stops(l, r, p)
  BY StopIs
<1> HIDE DEF p
<1>2. p \in 1 .. Len(l) + 1 /\ Len(l) \in Nat /\ Len(r) \in Nat /\ p \in Nat
  BY <1>1, CharIs DEF Stops
<1>3. l \in Seq(Int \ {0}) /\ r \in Seq(Int \ {0})
  BY CharIs
<1>4. Char(l, p) = 0 <=> p = Len(l) + 1
  <2>1. CASE p = Len(l) + 1
    BY <2>1, <1>2, CharIs
  <2>2. CASE p # Len(l) + 1
    <3>1. p \in 1 .. Len(l)
      BY <2>2, <1>2
    <3> QED
      BY <3>1, <2>2, CharIs
  <2> QED
    BY <2>1, <2>2
<1>5. ASSUME p = Len(l) + 1 PROVE IsPrefix(l, r)
  <2>1. \A j \in 1 .. Len(l) : Char(l, j) = Char(r, j) /\ Char(r, j) # 0
    <3> SUFFICES ASSUME NEW j \in 1 .. Len(l) PROVE Char(l, j) = Char(r, j) /\ Char(r, j) # 0
      OBVIOUS
    <3>1. j \in 1 .. p - 1
      BY <1>2, <1>5
    <3> QED
      BY <3>1, <1>1, CharIs DEF Stops
  <2>2. \A j \in 1 .. Len(l) : j <= Len(r) /\ l[j] = r[j]
    <3> SUFFICES ASSUME NEW j \in 1 .. Len(l) PROVE j <= Len(r) /\ l[j] = r[j]
      OBVIOUS
    <3>1. j <= Len(r)
      BY <2>1, <1>2, CharIs
    <3>2. Char(r, j) = r[j] /\ Char(l, j) = l[j]
      BY <3>1, <1>2, CharIs
    <3> QED
      BY <3>1, <3>2, <2>1
  <2>3. Len(l) <= Len(r)
    <3>1. CASE Len(l) = 0
      BY <3>1, <1>2
    <3>2. CASE Len(l) # 0
      <4>1. Len(l) \in 1 .. Len(l)
        BY <3>2, <1>2
      <4> QED
        BY <4>1, <2>2
    <3> QED
      BY <3>1, <3>2
  <2>4. SubSeq(l, 1, Len(l)) = SubSeq(r, 1, Len(l))
    BY <2>2, <2>3, <1>2, <1>3
  <2> QED
    BY <2>3, <2>4 DEF IsPrefix
<1>6. ASSUME p # Len(l) + 1, IsPrefix(l, r) PROVE FALSE
  <2>1. p \in 1 .. Len(l)
    BY <1>2, <1>6
  <2>2. Len(l) <= Len(r) /\ SubSeq(l, 1, Len(l)) = SubSeq(r, 1, Len(l))
    BY <1>6 DEF IsPrefix
  <2>3. SubSeq(l, 1, Len(l))[p] = l[p] /\ SubSeq(r, 1, Len(l))[p] = r[p]
    BY <2>1, <2>2, <1>2, <1>3
  <2>4. Char(l, p) = l[p] /\ Char(r, p) = r[p] /\ Char(l, p) # 0
    BY <2>1, <2>2, <1>2, CharIs
  <2> QED
    BY <2>2, <2>3, <2>4, <1>1 DEF Stops
<1> QED
  BY <1>4, <1>5, <1>6 DEF p

LEMMA SameStrings ==
    ASSUME NEW l \in Strings, NEW r \in Strings
    PROVE  strcmp(l, r) = 0 <=> l = r
<1> DEFINE p == Stop(l, r)
           x == Char(l, p)
           y == Char(r, p)
<1>1. Len(l) \in Nat /\ Len(r) \in Nat /\ l \in Seq(Int \ {0}) /\ r \in Seq(Int \ {0})
  BY CharIs
<1>2. p \in Nat \ {0}
  BY <1>1, StopIs DEF Stops
<1>3. x \in Int /\ y \in Int
  <2> HIDE DEF p
  <2> QED
    BY <1>1, <1>2, CharIs
<1>4. strcmp(l, r) = 0 <=> x = y
  <2> HIDE DEF x, y
  <2>1. strcmp(l, r) = Order(x, y)
    BY DEF strcmp, x, y
  <2> QED
    BY <2>1, <1>3 DEF Order
<1>5. ASSUME x = y PROVE l = r
  <2>1. x = 0 /\ y = 0
    BY <1>5, StopIs DEF Stops
  <2>2. p = Len(l) + 1 /\ p = Len(r) + 1
    BY <2>1, StopAtEnd, StopSame
  <2>3. IsPrefix(l, r)
    BY <2>2, StopAtEnd
  <2> HIDE DEF p
  <2>4. Len(l) = Len(r)
    BY <2>2, <1>1
  <2>5. SubSeq(l, 1, Len(l)) = l /\ SubSeq(r, 1, Len(r)) = r
    BY <1>1
  <2> QED
    BY <2>3, <2>4, <2>5 DEF IsPrefix
<1> QED
  BY <1>4, <1>5

LEMMA OppositeOrder ==
    ASSUME NEW l \in Strings, NEW r \in Strings
    PROVE  strcmp(l, r) = -strcmp(r, l)
<1> DEFINE p == Stop(l, r)
           x == Char(l, p)
           y == Char(r, p)
<1>1. Len(l) \in Nat /\ Len(r) \in Nat
  BY CharIs
<1>2. p \in Nat \ {0}
  BY <1>1, StopIs DEF Stops
<1>3. x \in Int /\ y \in Int
  <2> HIDE DEF p
  <2> QED
    BY <1>1, <1>2, CharIs
<1>4. strcmp(l, r) = Order(x, y) /\ strcmp(r, l) = Order(y, x)
  BY StopSame DEF strcmp
<1> HIDE DEF x, y
<1> QED
  BY <1>3, <1>4 DEF Order

LEMMA HeadCompared ==
    ASSUME NEW l \in Strings, NEW r \in Strings
    PROVE  strncmp(l, r, Len(l)) = 0 <=> IsPrefix(l, r)
<1> DEFINE p == Stop(l, r)
<1>1. p \in 1 .. Len(l) + 1 /\ Len(l) \in Nat
  BY StopIs, CharIs DEF Stops
<1>2. p = Len(l) + 1 <=> IsPrefix(l, r)
  BY StopAtEnd
<1>3. strncmp(l, r, Len(l)) = 0 <=> p - 1 = Len(l)
  BY DEF strncmp
<1> HIDE DEF p
<1> QED
  BY <1>1, <1>2, <1>3

-----------------------------------------------------------------------------
(* The search in the table.                                                *)
LEMMA Powers == Pow2[15] = 32768
<1>1. Pow2[0 + 1] = 2 /\ Pow2[1 + 1] = 2 * Pow2[1] /\ Pow2[2 + 1] = 2 * Pow2[2]
  BY PowNext
<1>2. Pow2[3 + 1] = 2 * Pow2[3] /\ Pow2[4 + 1] = 2 * Pow2[4] /\ Pow2[5 + 1] = 2 * Pow2[5]
  BY PowNext
<1>3. Pow2[6 + 1] = 2 * Pow2[6] /\ Pow2[7 + 1] = 2 * Pow2[7] /\ Pow2[8 + 1] = 2 * Pow2[8]
  BY PowNext
<1>4. Pow2[9 + 1] = 2 * Pow2[9] /\ Pow2[10 + 1] = 2 * Pow2[10] /\ Pow2[11 + 1] = 2 * Pow2[11]
  BY PowNext
<1>5. Pow2[12 + 1] = 2 * Pow2[12] /\ Pow2[13 + 1] = 2 * Pow2[13] /\ Pow2[14 + 1] = 2 * Pow2[14]
  BY PowNext
<1> QED
  BY <1>1, <1>2, <1>3, <1>4, <1>5

\* One probe for x in the table.
Probed(s, x) ==
    LET i == s.li + ((s.hi - s.li) \div 2)
    IN  IF s.c # 0 THEN s
        ELSE IF x = Table[i][1] THEN [s EXCEPT !.c = Table[i][2]]
        ELSE IF x > Table[i][1] THEN [s EXCEPT !.li = i] ELSE [s EXCEPT !.hi = i]

\* After n probes: what is found is the entry with key x; else x is between
\* the keys at the ends of a part that is half as long after each probe, and
\* after the last one no entry has it.  The mark at the end has index
\* Entries: it bounds the part and is not probed.
Between(x, n) ==
    {s \in [li : 0 .. Entries, hi : 0 .. Entries, c : 0 .. Entries] :
        /\ s.c # 0 => x = 2 * s.c - 1
        /\ s.c = 0 => /\ s.li < s.hi /\ 2 * s.li + 1 <= x /\ x < 2 * s.hi + 1
                      /\ n < Probes => s.hi - s.li <= Pow2[15 - n]
                      /\ n = Probes => x % 2 = 0}

LEMMA ProbeStep ==
    ASSUME NEW x \in 1 .. 2 * Entries, NEW n \in 1 .. Probes, NEW s \in Between(x, n - 1)
    PROVE  Probed(s, x) \in Between(x, n)
<1> DEFINE l == s.li
           h == s.hi
           i == l + ((h - l) \div 2)
<1>1. Entries \in Nat /\ x \in Int /\ n \in 1 .. 16
  <2>1. Entries \in 1 .. 32768
    BY EntriesGiven
  <2> QED
    BY <2>1 DEF Probes
<1>2. s \in [li : 0 .. Entries, hi : 0 .. Entries, c : 0 .. Entries] /\ (s.c # 0 => x = 2 * s.c - 1)
  BY DEF Between
<1>3. CASE s.c # 0
  BY <1>2, <1>3 DEF Probed, Between
<1>4. CASE s.c = 0
  <2>1. l \in 0 .. Entries /\ h \in 0 .. Entries /\ l < h /\ 2 * l + 1 <= x /\ x < 2 * h + 1
    BY <1>2, <1>4 DEF Between
  <2>2. h - l <= Pow2[15 - (n - 1)]
    BY <1>1, <1>4 DEF Between, Probes
  <2>3. Probed(s, x) = IF x = Table[i][1] THEN [s EXCEPT !.c = Table[i][2]]
                       ELSE IF x > Table[i][1] THEN [s EXCEPT !.li = i] ELSE [s EXCEPT !.hi = i]
    BY <1>4 DEF Probed
  <2>4. s = [li |-> l, hi |-> h, c |-> 0]
    BY <1>2, <1>4
  <2> HIDE DEF l, h
  <2>5. i \in l .. h - 1 /\ i - l <= h - i /\ h - i <= i - l + 1
    BY <2>1, <1>1
  <2> HIDE DEF i
  <2>6. i \in 0 .. Entries - 1 /\ i \in Int
    BY <2>1, <2>5, <1>1
  <2>7. Table[i] = <<2 * i + 1, i + 1>>
    BY <2>6, <1>1 DEF Table
  <2>8. Table[i][1] = 2 * i + 1 /\ Table[i][2] = i + 1
    BY <2>7
  <2>9. n < 16 => Pow2[15 - (n - 1)] = 2 * Pow2[15 - n] /\ Pow2[15 - n] \in Nat
    <3>1. CASE n < 16
      <4>1. 15 - n \in Nat /\ 15 - (n - 1) = (15 - n) + 1
        BY <3>1, <1>1
      <4>2. Pow2[(15 - n) + 1] = 2 * Pow2[15 - n] /\ Pow2[15 - n] \in Nat
        BY <4>1, PowNext, PowPositive
      <4> QED
        BY <4>1, <4>2
    <3> QED
      BY <3>1
  <2>10. n = 16 => h = l + 1 /\ i = l
    <3>1. CASE n = 16
      <4>1. Pow2[15 - (n - 1)] = 1
        BY <3>1, PowNext
      <4> QED
        BY <4>1, <2>1, <2>2, <2>5
    <3> QED
      BY <3>1
  <2>11. CASE x = 2 * i + 1
    <3>1. Probed(s, x) = [li |-> l, hi |-> h, c |-> i + 1]
      BY <2>3, <2>4, <2>8, <2>11
    <3> QED
      BY <3>1, <2>1, <2>6, <2>11, <1>1 DEF Between
  <2>12. CASE x > 2 * i + 1
    <3> DEFINE t == [li |-> i, hi |-> h, c |-> 0]
    <3>1. Probed(s, x) = t
      BY <2>3, <2>4, <2>8, <2>12, <2>6, <1>1
    <3>2. i < h /\ 2 * i + 1 <= x /\ x < 2 * h + 1 /\ i \in 0 .. Entries
      BY <2>1, <2>5, <2>6, <2>12, <1>1
    <3>3. n < Probes => h - i <= Pow2[15 - n]
      BY <2>1, <2>2, <2>5, <2>6, <2>9 DEF Probes
    <3>4. n = Probes => x % 2 = 0
      BY <2>1, <2>10, <2>12, <1>1 DEF Probes
    <3>5. t.li = i /\ t.hi = h /\ t.c = 0 /\ t \in [li : 0 .. Entries, hi : 0 .. Entries, c : 0 .. Entries]
      BY <2>1, <3>2, <1>1
    <3> HIDE DEF t
    <3> QED
      BY <3>1, <3>2, <3>3, <3>4, <3>5 DEF Between
  <2>13. CASE x < 2 * i + 1
    <3> DEFINE t == [li |-> l, hi |-> i, c |-> 0]
    <3>1. Probed(s, x) = t
      <4>1. x # 2 * i + 1 /\ ~(x > 2 * i + 1)
        BY <2>13, <2>6, <1>1
      <4> QED
        BY <4>1, <2>3, <2>4, <2>8
    <3>2. l < i /\ 2 * l + 1 <= x /\ x < 2 * i + 1 /\ i \in 0 .. Entries
      BY <2>1, <2>5, <2>6, <2>13, <1>1
    <3>3. n < Probes => i - l <= Pow2[15 - n]
      BY <2>1, <2>2, <2>5, <2>6, <2>9 DEF Probes
    <3>4. n # Probes
      BY <2>10, <2>6, <3>2 DEF Probes
    <3>5. t.li = l /\ t.hi = i /\ t.c = 0 /\ t \in [li : 0 .. Entries, hi : 0 .. Entries, c : 0 .. Entries]
      BY <2>1, <3>2, <1>1
    <3> HIDE DEF t
    <3> QED
      BY <3>1, <3>2, <3>3, <3>4, <3>5 DEF Between
  <2> QED
    BY <2>11, <2>12, <2>13, <2>6, <1>1
<1> QED
  BY <1>3, <1>4

LEMMA SearchIs ==
    ASSUME NEW x \in 1 .. 2 * Entries
    PROVE  Search(Table, Entries, x) = IF x % 2 = 1 THEN (x + 1) \div 2 ELSE 0
<1> DEFINE n == Probes
           s0 == [li |-> 0, hi |-> Entries, c |-> 0]
           State == [li : 0 .. Entries, hi : 0 .. Entries, c : 0 .. Entries]
           inv == [i \in 0 .. n |-> Between(x, i)]
           step == [p \in State \X (1 .. n) |-> Probed(p[1], x)]
           Eq(f) == f = [i \in 0 .. n |-> IF i = 0 THEN s0 ELSE Probed(f[i - 1], x)]
<1>1. n \in Nat /\ n \in 0 .. n /\ 0 \in 0 .. n /\ n = 16
  BY DEF Probes
<1>2. s0 \in Between(x, 0)
  <2>1. Pow2[15 - 0] = 32768
    BY Powers
  <2>2. Entries \in 1 .. 32768
    BY EntriesGiven
  <2> QED
    BY <2>1, <2>2 DEF Between, Probes
<1>3. Search(Table, Entries, x) = (CHOOSE f : Eq(f))[n].c
  BY Zenon DEF Search, Loop, Probed
<1> HIDE DEF n, s0
<1>4. \A i \in 1 .. n : \A s \in Between(x, i - 1) : Probed(s, x) \in Between(x, i)
  BY ProbeStep DEF n
<1>5. \E f : Eq(f)
  <2>1. s0 \in inv[0]
    BY <1>1, <1>2
  <2>2. \A i \in 1 .. n : \A s \in inv[i - 1] : step[<<s, i>>] = Probed(s, x) /\ step[<<s, i>>] \in inv[i]
    <3> SUFFICES ASSUME NEW i \in 1 .. n, NEW s \in inv[i - 1]
                 PROVE  step[<<s, i>>] = Probed(s, x) /\ step[<<s, i>>] \in inv[i]
      OBVIOUS
    <3>1. i \in 0 .. n /\ i - 1 \in 0 .. n
      BY <1>1
    <3>2. s \in Between(x, i - 1)
      BY <3>1
    <3>3. s \in State
      BY <3>2 DEF Between
    <3>4. step[<<s, i>>] = Probed(s, x)
      BY <3>3
    <3> QED
      BY <3>1, <3>2, <3>4, <1>4
  <2> HIDE DEF inv, step
  <2>4. \A m \in 0 .. n : \E g : g = [i \in 0 .. m |-> g[i]] /\ Run(g, s0, step, m) /\ \A i \in 0 .. m : g[i] \in inv[i]
    BY <2>1, <2>2, <1>1, RunExists
  <2>5. PICK g : g = [i \in 0 .. n |-> g[i]] /\ Run(g, s0, step, n) /\ \A i \in 0 .. n : g[i] \in inv[i]
    BY <2>4, <1>1
  <2>6. ASSUME NEW i \in 0 .. n PROVE g[i] = IF i = 0 THEN s0 ELSE Probed(g[i - 1], x)
    <3>1. CASE i = 0
      BY <3>1, <2>5 DEF Run
    <3>2. CASE i # 0
      <4>1. i \in 1 .. n /\ i - 1 \in 0 .. n
        BY <3>2, <1>1
      <4>2. g[i] = step[<<g[i - 1], i>>] /\ g[i - 1] \in inv[i - 1]
        BY <4>1, <2>5 DEF Run
      <4> QED
        BY <4>1, <4>2, <3>2, <2>2
    <3> QED
      BY <3>1, <3>2
  <2>7. Eq(g)
    BY <2>5, <2>6
  <2> QED
    BY <2>7
<1>6. PICK f : Eq(f) /\ Search(Table, Entries, x) = f[n].c
  <2> DEFINE f == CHOOSE f : Eq(f)
  <2>1. Eq(f)
    BY <1>5
  <2> QED
    BY <2>1, <1>3
<1>7. f[n] \in Between(x, n)
  <2> DEFINE Q == {i \in 0 .. n : f[i] \in Between(x, i)}
  <2>1. 0 \in Q
    BY <1>1, <1>2, <1>6
  <2>2. ASSUME NEW i \in 1 .. n, i - 1 \in Q PROVE i \in Q
    <3>1. i \in 0 .. n /\ i # 0
      BY <1>1
    <3>2. f[i] = Probed(f[i - 1], x)
      BY <3>1, <1>6
    <3> QED
      BY <3>1, <3>2, <2>2, <1>4
  <2>3. \A i \in 0 .. n : i \in Q
    <3> HIDE DEF Q
    <3> QED
      BY <2>1, <2>2, <1>1, Turns
  <2> QED
    BY <2>3, <1>1
<1> DEFINE c == f[n].c
<1>8. c \in 0 .. Entries /\ (c # 0 => x = 2 * c - 1) /\ (c = 0 => x % 2 = 0)
  BY <1>7 DEF Between, n
<1> HIDE DEF c
<1>9. Entries \in Nat
  <2>1. Entries \in 1 .. 32768
    BY EntriesGiven
  <2> QED
    BY <2>1
<1>10. c = IF x % 2 = 1 THEN (x + 1) \div 2 ELSE 0
  BY <1>8, <1>9
<1> QED
  BY <1>6, <1>10 DEF c

-----------------------------------------------------------------------------
(* What vsprintf writes.                                                   *)

\* Two texts put together.
LEMMA ConcatIs ==
    ASSUME NEW a \in Seq(Int), NEW b \in Seq(Int)
    PROVE  /\ a \o b \in Seq(Int) /\ Len(a \o b) = Len(a) + Len(b)
           /\ \A i \in 1 .. Len(a) + Len(b) :
                (a \o b)[i] = IF i <= Len(a) THEN a[i] ELSE b[i - Len(a)]
BY ConcatProperties, Zenon

\* A text between two others.
LEMMA Framed ==
    ASSUME NEW A \in Seq(Int), NEW B \in Seq(Int), NEW C \in Seq(Int)
    PROVE  LET T == A \o B \o C IN
           /\ T \in Seq(Int)
           /\ Len(T) = Len(A) + Len(B) + Len(C)
           /\ SubSeq(T, Len(A) + 1, Len(T) - Len(C)) = B
           /\ \A k \in 1 .. Len(A) : T[k] = A[k]
           /\ \A k \in 1 .. Len(C) : T[Len(A) + Len(B) + k] = C[k]
<1> DEFINE a == Len(A)
           b == Len(B)
           c == Len(C)
           AB == A \o B
           T == AB \o C
           D == SubSeq(T, a + 1, Len(T) - c)
<1>1. a \in Nat /\ b \in Nat /\ c \in Nat
  OBVIOUS
<1>2. /\ AB \in Seq(Int) /\ Len(AB) = a + b
      /\ \A i \in 1 .. a + b : AB[i] = IF i <= a THEN A[i] ELSE B[i - a]
  BY ConcatIs, Zenon
<1> HIDE DEF AB
<1>3. /\ T \in Seq(Int) /\ Len(T) = a + b + c
      /\ \A i \in 1 .. a + b + c : T[i] = IF i <= a + b THEN AB[i] ELSE C[i - (a + b)]
  <2>1. /\ T \in Seq(Int) /\ Len(T) = Len(AB) + c
        /\ \A i \in 1 .. Len(AB) + c : T[i] = IF i <= Len(AB) THEN AB[i] ELSE C[i - Len(AB)]
    BY <1>2, ConcatIs, Zenon
  <2> HIDE DEF T, a, b, c
  <2> QED
    BY <2>1, <1>1, <1>2
<1> HIDE DEF T, a, b, c
<1>4. \A k \in 1 .. a : T[k] = A[k]
  <2> SUFFICES ASSUME NEW k \in 1 .. a PROVE T[k] = A[k]
    OBVIOUS
  <2>1. k \in 1 .. a + b /\ k \in 1 .. a + b + c /\ k <= a /\ k <= a + b
    BY <1>1
  <2>2. T[k] = AB[k]
    BY <2>1, <1>3
  <2>3. AB[k] = A[k]
    BY <2>1, <1>2
  <2> QED
    BY <2>2, <2>3
<1>5. \A k \in 1 .. c : T[a + b + k] = C[k]
  <2> SUFFICES ASSUME NEW k \in 1 .. c PROVE T[a + b + k] = C[k]
    OBVIOUS
  <2>1. a + b + k \in 1 .. a + b + c /\ ~(a + b + k <= a + b) /\ (a + b + k) - (a + b) = k
    BY <1>1
  <2> QED
    BY <2>1, <1>3
<1>6. D = B
  <2>1. Len(T) - c = a + b
    BY <1>1, <1>3
  <2>2. \A i \in a + 1 .. a + b : T[i] \in Int /\ T[i] = B[i - a]
    <3> SUFFICES ASSUME NEW i \in a + 1 .. a + b PROVE T[i] \in Int /\ T[i] = B[i - a]
      OBVIOUS
    <3>1. i \in 1 .. a + b + c /\ i \in 1 .. a + b /\ i <= a + b /\ ~(i <= a) /\ i - a \in 1 .. b
      BY <1>1
    <3>2. T[i] = B[i - a]
      BY <3>1, <1>2, <1>3
    <3> QED
      BY <3>1, <3>2, ElementOfSeq DEF b
  <2>3. /\ SubSeq(T, a + 1, a + b) \in Seq(Int)
        /\ Len(SubSeq(T, a + 1, a + b)) = IF a + 1 <= a + b THEN (a + b) - (a + 1) + 1 ELSE 0
        /\ \A i \in 1 .. (a + b) - (a + 1) + 1 : SubSeq(T, a + 1, a + b)[i] = T[(a + 1) + i - 1]
    BY <2>2, <1>1, SubSeqProperties
  <2>4. Len(D) = b /\ D \in Seq(Int)
    BY <2>1, <2>3, <1>1
  <2>5. \A i \in 1 .. b : D[i] = B[i]
    <3> SUFFICES ASSUME NEW i \in 1 .. b PROVE D[i] = B[i]
      OBVIOUS
    <3>1. /\ i \in 1 .. (a + b) - (a + 1) + 1 /\ (a + 1) + i - 1 \in a + 1 .. a + b
          /\ ((a + 1) + i - 1) - a = i
      BY <1>1
    <3> QED
      BY <3>1, <2>1, <2>2, <2>3
  <2> HIDE DEF D
  <2>6. Len(D) = Len(B) /\ \A i \in 1 .. Len(D) : D[i] = B[i]
    BY <2>4, <2>5 DEF b
  <2> QED
    BY <2>4, <2>6, SeqEqual
<1> QED
  BY <1>3, <1>4, <1>5, <1>6 DEF T, AB, D, a, b, c

\* The first part of a text and the rest.
LEMMA HeadAndRest ==
    ASSUME NEW A \in Seq(Int), NEW B \in Seq(Int)
    PROVE  /\ A \o B \in Seq(Int) /\ Len(A \o B) = Len(A) + Len(B)
           /\ SubSeq(A \o B, Len(A) + 1, Len(A \o B)) = B
           /\ IsPrefix(A, A \o B)
           /\ A # <<>> => (A \o B)[1] = A[1]
<1> DEFINE T == A \o B
<1>1. <<>> \in Seq(Int) /\ Len(<<>>) = 0
  OBVIOUS
<1>2. T \in Seq(Int) /\ T \o <<>> = T
  BY ConcatProperties, ConcatEmptySeq
<1>3. /\ Len(T) = Len(A) + Len(B) + Len(<<>>)
      /\ SubSeq(T, Len(A) + 1, Len(T) - Len(<<>>)) = B
      /\ \A k \in 1 .. Len(A) : T[k] = A[k]
  <2>1. /\ Len(T \o <<>>) = Len(A) + Len(B) + Len(<<>>)
        /\ SubSeq(T \o <<>>, Len(A) + 1, Len(T \o <<>>) - Len(<<>>)) = B
        /\ \A k \in 1 .. Len(A) : (T \o <<>>)[k] = A[k]
    BY <1>1, Framed
  <2> QED
    BY <2>1, <1>2
<1> HIDE DEF T
<1>4. Len(A) \in Nat /\ Len(B) \in Nat /\ Len(T) = Len(A) + Len(B)
  BY <1>1, <1>3
<1>5. SubSeq(A, 1, Len(A)) = SubSeq(T, 1, Len(A))
  <2>1. SubSeq(A, 1, Len(A)) = A
    BY SubSeqFull
  <2>2. \A i \in 1 .. Len(A) : T[i] = A[i] /\ T[i] \in Int
    BY <1>3, ElementOfSeq
  <2>3. /\ SubSeq(T, 1, Len(A)) \in Seq(Int)
        /\ Len(SubSeq(T, 1, Len(A))) = Len(A)
        /\ \A i \in 1 .. Len(A) : SubSeq(T, 1, Len(A))[i] = T[i]
    BY <1>4, <2>2, SubSeqProperties
  <2>4. \A i \in 1 .. Len(A) : A[i] = SubSeq(T, 1, Len(A))[i]
    BY <2>2, <2>3
  <2>5. A = SubSeq(T, 1, Len(A))
    BY <2>3, <2>4, SeqEqual, Zenon
  <2> QED
    BY <2>1, <2>5
<1>6. IsPrefix(A, T)
  BY <1>4, <1>5 DEF IsPrefix
<1>7. A # <<>> => T[1] = A[1]
  <2>1. A # <<>> => 1 \in 1 .. Len(A)
    BY <1>4, EmptySeq
  <2> QED
    BY <2>1, <1>3
<1>8. SubSeq(T, Len(A) + 1, Len(T)) = B
  <2>1. Len(T) - Len(<<>>) = Len(T)
    BY <1>1, <1>4
  <2> QED
    BY <2>1, <1>3
<1> QED
  BY <1>2, <1>4, <1>6, <1>7, <1>8 DEF T

LEMMA CopiesAre ==
    ASSUME NEW c \in Int, NEW n \in Int
    PROVE  /\ Copies(c, n) \in Seq(Int)
           /\ Len(Copies(c, n)) = IF n > 0 THEN n ELSE 0
           /\ \A k \in 1 .. Len(Copies(c, n)) : Copies(c, n)[k] = c
<1> DEFINE m == IF n > 0 THEN n ELSE 0
           t == [i \in 1 .. m |-> c]
<1>1. m \in Nat
  OBVIOUS
<1> HIDE DEF m
<1>2. t \in Seq(Int) /\ Len(t) = m /\ \A k \in 1 .. m : t[k] = c
  BY <1>1
<1>3. Copies(c, n) = t
  BY DEF Copies, m, t
<1> HIDE DEF t
<1> QED
  BY <1>2, <1>3 DEF m

\* A text framed by blanks, with the part that is not padding.
LEMMA FramedSays ==
    ASSUME NEW A \in Seq(Int), NEW B \in Seq(Int), NEW C \in Seq(Int), NEW d,
           \A k \in 1 .. Len(A) : A[k] = Blank,
           \A k \in 1 .. Len(C) : C[k] = Blank,
           IF d.conv \in {"c", "s"} THEN Shows(A \o B \o C, d, Len(A), Len(C))
           ELSE Reads(A \o B \o C, d, Len(A), Len(C))
    PROVE  Says(A \o B \o C, d)
<1> DEFINE T == A \o B \o C
           i == Len(A)
           j == Len(C)
<1>1. /\ Len(T) = i + Len(B) + j
      /\ \A k \in 1 .. i : T[k] = A[k]
      /\ \A k \in 1 .. j : T[i + Len(B) + k] = C[k]
  BY Framed
<1>2. i \in Nat /\ j \in Nat /\ Len(B) \in Nat
  OBVIOUS
<1>3. IF d.conv \in {"c", "s"} THEN Shows(T, d, i, j) ELSE Reads(T, d, i, j)
  OBVIOUS
<1>4. \A k \in 1 .. i : T[k] = Blank
  BY <1>1
<1>5. \A k \in 1 .. j : T[i + Len(B) + k] = Blank
  BY <1>1
<1> HIDE DEF T, i, j
<1>6. \A k \in Len(T) - j + 1 .. Len(T) : T[k] = Blank
  <2> SUFFICES ASSUME NEW k \in Len(T) - j + 1 .. Len(T) PROVE T[k] = Blank
    OBVIOUS
  <2> DEFINE x == k - (i + Len(B))
  <2>1. x \in 1 .. j /\ i + Len(B) + x = k
    BY <1>1, <1>2
  <2> HIDE DEF x
  <2> QED
    BY <2>1, <1>5
<1>7. i \in 0 .. Len(T) /\ j \in 0 .. Len(T) /\ i + j <= Len(T)
  BY <1>1, <1>2
<1>8. Says(T, d)
  BY <1>3, <1>4, <1>6, <1>7 DEF Says
<1> QED
  BY <1>8 DEF T

LEMMA CutIs ==
    ASSUME NEW s \in Seq(Int), NEW prec \in Int
    PROVE  /\ Cut(s, prec) \in Seq(Int) /\ IsPrefix(Cut(s, prec), s)
           /\ Len(Cut(s, prec)) = IF prec >= 0 /\ Len(s) > prec THEN prec ELSE Len(s)
<1>1. Len(s) \in Nat
  OBVIOUS
<1>2. CASE prec >= 0 /\ Len(s) > prec
  <2> DEFINE c == SubSeq(s, 1, prec)
  <2>1. Cut(s, prec) = c
    BY <1>2 DEF Cut
  <2>2. c \in Seq(Int) /\ Len(c) = prec
    <3>1. \A i \in 1 .. prec : s[i] \in Int
      BY <1>1, <1>2, ElementOfSeq
    <3> QED
      BY <3>1, <1>2, SubSeqProperties
  <2>3. SubSeq(c, 1, Len(c)) = c
    BY <2>2, SubSeqFull
  <2> QED
    BY <2>1, <2>2, <2>3, <1>1, <1>2 DEF IsPrefix
<1>3. CASE ~(prec >= 0 /\ Len(s) > prec)
  BY <1>1, <1>3 DEF Cut, IsPrefix
<1> QED
  BY <1>2, <1>3

LEMMA FieldsAre ==
    ASSUME NEW d, d.width \in Field, d.prec \in Field, d.flags \in SUBSET Flag
    PROVE  /\ d.width.v \in Int /\ d.prec.v \in Int
           /\ Width(d) \in Int /\ Precision(d) \in Int
           /\ Width(d) = IF d.width = None THEN -1 ELSE IF d.width.v < 0 THEN -d.width.v ELSE d.width.v
           /\ Precision(d) = IF d.prec = None THEN -1 ELSE IF d.prec.v < 0 THEN 0 ELSE d.prec.v
           /\ d.width = None => d.width.v = -1
           /\ d.prec = None => d.prec.v = -1
           /\ "-" \in Flags(d) <=> "-" \in d.flags \/ (d.width.star /\ d.width.v < 0)
           /\ d.width.v < 0 => d.width.star \/ d.width = None
           /\ d.prec.v < 0 => d.prec.star \/ d.prec = None
<1>1. \A f \in Field : /\ f.v \in Int /\ f.star \in BOOLEAN
                       /\ f = None => f.v = -1 /\ ~f.star
                       /\ f.v < 0 /\ ~f.star => f = None
  <2> SUFFICES ASSUME NEW f \in Field
               PROVE  /\ f.v \in Int /\ f.star \in BOOLEAN
                      /\ f = None => f.v = -1 /\ ~f.star
                      /\ f.v < 0 /\ ~f.star => f = None
    OBVIOUS
  <2>1. f \in [star : BOOLEAN, v : Int] /\ (f.star \/ f.v >= -1)
    BY DEF Field
  <2>2. f = [star |-> f.star, v |-> f.v]
    BY <2>1
  <2>3. f.v < 0 /\ ~f.star => f.v = -1 /\ f.star = FALSE
    BY <2>1
  <2> QED
    BY <2>1, <2>2, <2>3 DEF None
<1> DEFINE w == d.width
           p == d.prec
<1>2. /\ w.v \in Int /\ w.star \in BOOLEAN /\ (w = None => w.v = -1 /\ ~w.star)
      /\ (w.v < 0 /\ ~w.star => w = None)
  BY <1>1
<1>3. /\ p.v \in Int /\ p.star \in BOOLEAN /\ (p = None => p.v = -1 /\ ~p.star)
      /\ (p.v < 0 /\ ~p.star => p = None)
  BY <1>1
<1>4. Width(d) = IF w.star /\ w.v < 0 THEN -w.v ELSE w.v
  BY DEF Width
<1>5. Precision(d) = IF p.star /\ p.v < 0 THEN 0 ELSE p.v
  BY DEF Precision
<1>6. "-" \in Flags(d) <=> "-" \in d.flags \/ (w.star /\ w.v < 0)
  BY DEF Flags
<1> HIDE DEF w, p
<1>7. Width(d) \in Int /\ Width(d) = IF w = None THEN -1 ELSE IF w.v < 0 THEN -w.v ELSE w.v
  BY <1>2, <1>4
<1>8. Precision(d) \in Int /\ Precision(d) = IF p = None THEN -1 ELSE IF p.v < 0 THEN 0 ELSE p.v
  BY <1>3, <1>5
<1> QED
  BY <1>2, <1>3, <1>6, <1>7, <1>8 DEF w, p

\* %s and %c: what the precision leaves of the text, padded to the width.
LEMMA TextSays ==
    ASSUME NEW d \in TextDirective
    PROVE  Says(vsprintf(d), d)
<1> DEFINE arg == d.arg
           prec == IF d.conv = "c" THEN None ELSE d.prec
           P == IF d.conv = "c" THEN -1 ELSE Precision(d)
           s == IF d.conv = "c" THEN d.arg ELSE Cut(d.arg, Precision(d))
           w == Width(d)
           n == w - Len(s)
           left == "-" \in Flags(d)
           A == IF left THEN <<>> ELSE Copies(Blank, n)
           C == IF left THEN Copies(Blank, n) ELSE <<>>
<1>1. /\ d.flags \in SUBSET Flag /\ d.width \in Field /\ d.prec \in Field
      /\ d.conv \in {"c", "s"} /\ arg \in Seq(Int)
  BY DEF TextDirective
<1>2. /\ d.width.v \in Int /\ w \in Int
      /\ w = IF d.width = None THEN -1 ELSE IF d.width.v < 0 THEN -d.width.v ELSE d.width.v
      /\ d.width = None => d.width.v = -1
      /\ left <=> "-" \in d.flags \/ (d.width.star /\ d.width.v < 0)
      /\ d.width.v < 0 => d.width.star \/ d.width = None
  BY <1>1, FieldsAre
<1>3. /\ P \in Int /\ prec.v \in Int
      /\ P = IF prec = None THEN -1 ELSE IF prec.v < 0 THEN 0 ELSE prec.v
  <2>1. /\ Precision(d) \in Int /\ d.prec.v \in Int
        /\ Precision(d) = IF d.prec = None THEN -1 ELSE IF d.prec.v < 0 THEN 0 ELSE d.prec.v
    BY <1>1, FieldsAre
  <2>2. None.v = -1
    BY DEF None
  <2> QED
    BY <2>1, <2>2
<1>4. /\ s \in Seq(Int) /\ IsPrefix(s, arg)
      /\ Len(s) = IF P >= 0 /\ Len(arg) > P THEN P ELSE Len(arg)
  <2>1. IsPrefix(arg, arg)
    BY <1>1 DEF IsPrefix
  <2>2. Precision(d) \in Int
    BY <1>1, FieldsAre
  <2>3. /\ Cut(arg, Precision(d)) \in Seq(Int) /\ IsPrefix(Cut(arg, Precision(d)), arg)
        /\ Len(Cut(arg, Precision(d))) =
             IF Precision(d) >= 0 /\ Len(arg) > Precision(d) THEN Precision(d) ELSE Len(arg)
    BY <2>2, <1>1, CutIs
  <2> QED
    BY <2>1, <2>3, <1>1
<1>5. vsprintf(d) = Padded(s, w, Flags(d))
  BY <1>1 DEF vsprintf
<1>6. Blank \in Int
  BY DEF Blank
<1> DEFINE c == Copies(Blank, n)
<1>7. Len(s) \in Nat /\ Len(arg) \in Nat /\ n \in Int
  BY <1>1, <1>2, <1>4
<1>8. /\ c \in Seq(Int) /\ Len(c) = IF n > 0 THEN n ELSE 0
      /\ \A k \in 1 .. Len(c) : c[k] = Blank
  <2> HIDE DEF n, c
  <2>1. n \in Int
    BY <1>7
  <2> QED
    BY <2>1, <1>6, CopiesAre DEF c
<1> HIDE DEF s, w, P, prec, arg, left, c
<1>9. /\ A = IF left THEN <<>> ELSE c
      /\ C = IF left THEN c ELSE <<>>
  BY DEF c
<1> HIDE DEF A, C
<1>10. /\ A \in Seq(Int) /\ C \in Seq(Int)
       /\ Len(A) = IF left THEN 0 ELSE Len(c)
       /\ Len(C) = IF left THEN Len(c) ELSE 0
       /\ \A k \in 1 .. Len(A) : A[k] = Blank
       /\ \A k \in 1 .. Len(C) : C[k] = Blank
  BY <1>8, <1>9, EmptySeq
<1>11. vsprintf(d) = A \o s \o C
  <2>1. CASE left
    <3>1. vsprintf(d) = s \o c
      BY <1>5, <2>1 DEF Padded, left, c, n
    <3>2. A \o s = s
      BY <1>4, <1>9, <2>1, ConcatEmptySeq
    <3> QED
      BY <3>1, <3>2, <1>9, <2>1
  <2>2. CASE ~left
    <3>1. vsprintf(d) = c \o s
      BY <1>5, <2>2 DEF Padded, left, c, n
    <3>2. (c \o s) \o <<>> = c \o s
      BY <1>4, <1>8, ConcatProperties, ConcatEmptySeq
    <3> QED
      BY <3>1, <3>2, <1>9, <2>2
  <2> QED
    BY <2>1, <2>2
<1> DEFINE T == A \o s \o C
<1>12. /\ Len(T) = Len(A) + Len(s) + Len(C)
       /\ SubSeq(T, Len(A) + 1, Len(T) - Len(C)) = s
  BY <1>4, <1>10, Framed
<1> HIDE DEF T
<1>13. Len(c) \in Nat /\ (Len(A) = 0 \/ Len(C) = 0)
  BY <1>7, <1>8, <1>10
<1>14. Len(s) < Len(arg) => Len(s) = IF prec.v < 0 THEN 0 ELSE prec.v
  BY <1>3, <1>4, <1>7
<1>15. Len(s) > prec.v => prec = None \/ s = <<>>
  <2> SUFFICES ASSUME Len(s) > prec.v, prec # None PROVE s = <<>>
    OBVIOUS
  <2>1. Len(s) = 0
    BY <1>3, <1>4, <1>7
  <2> QED
    BY <2>1, <1>4, EmptySeq
<1> DEFINE wide == IF d.width.v < 0 THEN -d.width.v ELSE d.width.v
<1>16. IF wide > Len(s) /\ d.width # None
       THEN Len(T) = wide /\ (Len(C) = 0) = ("-" \notin d.flags /\ d.width.v >= 0)
       ELSE T = s
  <2>1. CASE wide > Len(s) /\ d.width # None
    <3>1. w = wide /\ n > 0 /\ Len(c) = n
      BY <1>2, <1>7, <1>8, <2>1
    <3>2. Len(T) = wide
      <4>1. Len(A) + Len(C) = Len(c) /\ Len(A) \in Nat /\ Len(C) \in Nat
        BY <1>10, <1>13
      <4>2. Len(T) = Len(s) + Len(c)
        BY <4>1, <1>12, <1>7, <1>13
      <4>3. Len(s) + Len(c) = w
        BY <3>1, <1>2, <1>7
      <4> QED
        BY <3>1, <4>2, <4>3
    <3>3. left <=> ~("-" \notin d.flags /\ d.width.v >= 0)
      BY <1>2, <2>1
    <3>4. (Len(C) = 0) <=> ~left
      BY <3>1, <1>10
    <3> QED
      BY <2>1, <3>2, <3>3, <3>4
  <2>2. CASE ~(wide > Len(s) /\ d.width # None)
    <3>1. ~(n > 0)
      BY <1>2, <1>7, <2>2
    <3>2. A = <<>> /\ C = <<>>
      BY <3>1, <1>8, <1>9, EmptySeq
    <3>3. <<>> \o s = s /\ s \o <<>> = s
      BY <1>4, ConcatEmptySeq
    <3> QED
      BY <2>2, <3>2, <3>3 DEF T
  <2> QED
    BY <2>1, <2>2
<1>17. Shows(T, d, Len(A), Len(C))
  BY <1>4, <1>12, <1>13, <1>14, <1>15, <1>16 DEF Shows, arg, prec
<1>18. IF d.conv \in {"c", "s"} THEN Shows(A \o s \o C, d, Len(A), Len(C))
       ELSE Reads(A \o s \o C, d, Len(A), Len(C))
  BY <1>1, <1>17 DEF T
<1>19. Says(A \o s \o C, d)
  BY <1>4, <1>10, <1>18, FramedSays, Zenon
<1> QED
  BY <1>11, <1>19

(* The digits of a number.                                                 *)
Bases == {2, 8, 10, 16}

LEMMA DigitStep ==
    ASSUME NEW base \in Bases, NEW p \in Nat \ {0}, NEW n \in 0 .. 2 * p - 1
    PROVE  /\ n \div base \in 0 .. p - 1 /\ n % base \in 0 .. base - 1
           /\ n = (n \div base) * base + (n % base)
<1>1. CASE base = 2
  BY <1>1
<1>2. CASE base = 8
  BY <1>2
<1>3. CASE base = 10
  BY <1>3
<1>4. CASE base = 16
  BY <1>4
<1> QED
  BY <1>1, <1>2, <1>3, <1>4 DEF Bases

\* What is left of the number after k turns, and the digits so far.
Digited(base, k) == [num : 0 .. Pow2[U - k] - 1, tmp : Seq(0 .. base - 1)]

LEMMA NextDigitIs ==
    ASSUME NEW base \in Bases, NEW k \in 1 .. U, NEW s \in Digited(base, k - 1)
    PROVE  NextDigit(s, base) \in Digited(base, k)
<1> DEFINE p == Pow2[U - k]
<1>1. U - k \in Nat /\ U - (k - 1) = (U - k) + 1
  BY VsprintfAssumption
<1>2. p \in Nat \ {0} /\ Pow2[U - (k - 1)] = 2 * p
  BY <1>1, PowNext, PowPositive
<1> HIDE DEF p
<1>3. s.num \in 0 .. 2 * p - 1 /\ s.tmp \in Seq(0 .. base - 1) /\ s \in [num : Int, tmp : Seq(0 .. base - 1)]
  BY <1>2 DEF Digited
<1>4. s.num \div base \in 0 .. p - 1 /\ s.num % base \in 0 .. base - 1
  BY <1>2, <1>3, DigitStep
<1>5. CASE s.num = 0
  <2>1. 0 \in 0 .. p - 1
    BY <1>2
  <2>2. s = [num |-> s.num, tmp |-> s.tmp]
    BY <1>3
  <2>3. s \in [num : 0 .. p - 1, tmp : Seq(0 .. base - 1)]
    BY <2>1, <2>2, <1>3, <1>5
  <2> QED
    BY <2>3, <1>5 DEF NextDigit, Digited, p
<1>6. CASE s.num # 0
  <2>1. Append(s.tmp, s.num % base) \in Seq(0 .. base - 1)
    BY <1>3, <1>4, AppendProperties
  <2>2. NextDigit(s, base) = [num |-> s.num \div base, tmp |-> Append(s.tmp, s.num % base)]
    BY <1>6 DEF NextDigit
  <2> QED
    BY <2>1, <2>2, <1>4 DEF Digited, p
<1> QED
  BY <1>5, <1>6

\* The turns f of the loop in number.
DigitTurns(f, num, base) ==
    /\ f[0] = [num |-> num, tmp |-> <<>>]
    /\ \A k \in 1 .. U : f[k] = NextDigit(f[k - 1], base)
    /\ \A k \in 0 .. U : f[k] \in Digited(base, k)

LEMMA DigitLoop ==
    ASSUME NEW base \in Bases, NEW num \in 1 .. Pow2[U] - 1
    PROVE  \E f : DigitTurns(f, num, base) /\ Digits(num, base) = f[U].tmp
<1> DEFINE s0 == [num |-> num, tmp |-> <<>>]
           inv == [k \in 0 .. U |-> Digited(base, k)]
           State == [num : Int, tmp : Seq(0 .. base - 1)]
           step == [p \in State \X (1 .. U) |-> NextDigit(p[1], base)]
           Eq(f) == f = [k \in 0 .. U |-> IF k = 0 THEN s0 ELSE NextDigit(f[k - 1], base)]
<1>1. U \in Nat /\ U - 0 = U
  BY VsprintfAssumption
<1>2. s0 \in Digited(base, 0)
  <2>1. num \in 0 .. Pow2[U - 0] - 1
    BY <1>1, PowPositive
  <2>2. <<>> \in Seq(0 .. base - 1)
    OBVIOUS
  <2> QED
    BY <2>1, <2>2 DEF Digited
<1>3. Digits(num, base) = (CHOOSE f : Eq(f))[U].tmp
  <2>1. num # 0
    OBVIOUS
  <2> QED
    BY <2>1, Zenon DEF Digits, Loop
<1> HIDE DEF s0
<1>4. \A k \in 1 .. U : \A s \in inv[k - 1] : step[<<s, k>>] = NextDigit(s, base) /\ step[<<s, k>>] \in inv[k]
  <2> SUFFICES ASSUME NEW k \in 1 .. U, NEW s \in inv[k - 1]
               PROVE  step[<<s, k>>] = NextDigit(s, base) /\ step[<<s, k>>] \in inv[k]
    OBVIOUS
  <2>1. k \in 0 .. U /\ k - 1 \in 0 .. U
    BY <1>1
  <2>2. s \in Digited(base, k - 1)
    BY <2>1
  <2>3. s \in State
    BY <2>2 DEF Digited
  <2>4. NextDigit(s, base) \in Digited(base, k)
    BY <2>2, NextDigitIs
  <2> QED
    BY <2>1, <2>3, <2>4
<1>5. s0 \in inv[0]
  BY <1>1, <1>2
<1> HIDE DEF inv, step
<1>6. PICK g : g = [k \in 0 .. U |-> g[k]] /\ Run(g, s0, step, U) /\ \A k \in 0 .. U : g[k] \in inv[k]
  <2>1. \A m \in 0 .. U : \E g : g = [k \in 0 .. m |-> g[k]] /\ Run(g, s0, step, m) /\ \A k \in 0 .. m : g[k] \in inv[k]
    BY <1>1, <1>4, <1>5, RunExists
  <2>2. U \in 0 .. U
    BY <1>1
  <2> QED
    BY <2>1, <2>2, Zenon
<1>7. ASSUME NEW k \in 0 .. U PROVE g[k] = IF k = 0 THEN s0 ELSE NextDigit(g[k - 1], base)
  <2>1. CASE k = 0
    BY <2>1, <1>6 DEF Run
  <2>2. CASE k # 0
    <3>1. k \in 1 .. U /\ k - 1 \in 0 .. U
      BY <2>2, <1>1
    <3>2. g[k] = step[<<g[k - 1], k>>] /\ g[k - 1] \in inv[k - 1]
      BY <3>1, <1>6 DEF Run
    <3> QED
      BY <3>1, <3>2, <2>2, <1>4
  <2> QED
    BY <2>1, <2>2
<1>8. Eq(g)
  BY <1>6, <1>7
<1> DEFINE f == CHOOSE f : Eq(f)
<1>9. Eq(f)
  BY <1>8
<1>10. Digits(num, base) = f[U].tmp
  BY <1>3
<1> HIDE DEF f
<1>11. f[0] = s0 /\ \A k \in 1 .. U : f[k] = NextDigit(f[k - 1], base)
  <2>1. 0 \in 0 .. U /\ \A k \in 1 .. U : k \in 0 .. U /\ k # 0
    BY <1>1
  <2> QED
    BY <2>1, <1>9
<1>12. \A k \in 0 .. U : f[k] \in Digited(base, k)
  <2> DEFINE Q == {k \in 0 .. U : f[k] \in Digited(base, k)}
  <2>1. 0 \in Q
    BY <1>1, <1>2, <1>11
  <2>2. ASSUME NEW k \in 1 .. U, k - 1 \in Q PROVE k \in Q
    BY <2>2, <1>11, NextDigitIs
  <2> HIDE DEF Q
  <2>3. \A k \in 0 .. U : k \in Q
    BY <2>1, <2>2, <1>1, Turns
  <2> QED
    BY <2>3 DEF Q
<1> QED
  BY <1>10, <1>11, <1>12 DEF DigitTurns, s0

\* The digits d of num with what is left after each of them.
DigitsOf(d, q, num, base) ==
    /\ d \in Seq(0 .. base - 1) /\ Len(d) \in 1 .. U
    /\ q[0] = num /\ q[Len(d)] = 0
    /\ \A i \in 1 .. Len(d) : /\ q[i - 1] \in Nat /\ q[i] \in Nat
                              /\ d[i] = q[i - 1] % base /\ q[i] = q[i - 1] \div base
    /\ Len(d) > 1 => d[Len(d)] # 0

LEMMA DigitsAre ==
    ASSUME NEW base \in Bases, NEW num \in 0 .. Pow2[U] - 1
    PROVE  \E q : DigitsOf(Digits(num, base), q, num, base)
<1>1. U \in Nat /\ 1 \in 1 .. U /\ U \in 0 .. U /\ 0 \in 0 .. U
  BY VsprintfAssumption
<1>2. base \in Nat \ {0}
  BY DEF Bases
<1>3. CASE num = 0
  <2> DEFINE q == [i \in 0 .. 1 |-> 0]
             d == <<0>>
  <2>1. Digits(num, base) = d
    BY <1>3 DEF Digits
  <2>2. d \in Seq(0 .. base - 1) /\ Len(d) = 1 /\ d[1] = 0
    BY <1>2
  <2>3. q[0] = 0 /\ q[1] = 0
    OBVIOUS
  <2>4. 0 % base = 0 /\ 0 \div base = 0
    BY <1>2, Reduced
  <2> HIDE DEF d, q
  <2>5. DigitsOf(d, q, num, base)
    <3>1. \A i \in 1 .. Len(d) : i = 1 /\ i - 1 = 0
      BY <2>2
    <3> QED
      BY <3>1, <2>2, <2>3, <2>4, <1>1, <1>3 DEF DigitsOf
  <2> QED
    BY <2>1, <2>5
<1>4. CASE num # 0
  <2>1. PICK f : DigitTurns(f, num, base) /\ Digits(num, base) = f[U].tmp
    <3>1. num \in 1 .. Pow2[U] - 1
      BY <1>1, <1>4, PowPositive
    <3> QED
      BY <3>1, DigitLoop
  <2>2. \A k \in 0 .. U : f[k].num \in Nat /\ f[k].tmp \in Seq(0 .. base - 1) /\ Len(f[k].tmp) \in Nat
    <3> SUFFICES ASSUME NEW k \in 0 .. U
                 PROVE  f[k].num \in Nat /\ f[k].tmp \in Seq(0 .. base - 1) /\ Len(f[k].tmp) \in Nat
      OBVIOUS
    <3>1. Pow2[U - k] \in Nat \ {0}
      BY <1>1, PowPositive
    <3>2. f[k].num \in 0 .. Pow2[U - k] - 1 /\ f[k].tmp \in Seq(0 .. base - 1)
      BY <2>1 DEF DigitTurns, Digited
    <3> QED
      BY <3>1, <3>2
  <2> DEFINE Digit(d, i) == /\ d[i] = f[i - 1].num % base /\ f[i - 1].num # 0
                            /\ f[i].num = f[i - 1].num \div base
             So(k) == LET d == f[k].tmp IN
                      /\ Len(d) <= k /\ (f[k].num # 0 => Len(d) = k)
                      /\ f[Len(d)].num = f[k].num
                      /\ \A i \in 1 .. Len(d) : Digit(d, i)
             Q == {k \in 0 .. U : So(k)}
  <2>3. 0 \in Q
    <3>1. f[0].tmp = <<>> /\ Len(f[0].tmp) = 0
      BY <2>1 DEF DigitTurns
    <3> QED
      BY <3>1, <1>1
  <2>4. ASSUME NEW k \in 1 .. U, k - 1 \in Q PROVE k \in Q
    <3> DEFINE d == f[k - 1].tmp
               e == f[k].tmp
    <3>1. So(k - 1) /\ k \in 0 .. U /\ k - 1 \in 0 .. U
      BY <2>4, <1>1
    <3>2. f[k] = NextDigit(f[k - 1], base)
      BY <2>1 DEF DigitTurns
    <3>3. CASE f[k - 1].num = 0
      <4>1. f[k] = f[k - 1]
        BY <3>2, <3>3 DEF NextDigit
      <4>2. Len(d) <= k
        BY <3>1, <2>2
      <4>3. So(k)
        BY <3>1, <3>3, <4>1, <4>2
      <4> QED
        BY <3>1, <4>3
    <3>4. CASE f[k - 1].num # 0
      <4>1. f[k].num = f[k - 1].num \div base /\ e = Append(d, f[k - 1].num % base)
        BY <3>2, <3>4 DEF NextDigit
      <4>2. Len(d) = k - 1 /\ d \in Seq(0 .. base - 1)
        BY <3>1, <3>4, <2>2
      <4>3. f[k - 1].num % base \in 0 .. base - 1
        BY <3>1, <2>2, <1>2
      <4>4. /\ Len(e) = k /\ e[k] = f[k - 1].num % base
            /\ \A i \in 1 .. k - 1 : e[i] = d[i]
        BY <4>1, <4>2, <4>3, AppendProperties
      <4>5. \A i \in 1 .. k - 1 : Digit(d, i)
        BY <3>1, <4>2
      <4> HIDE DEF d, e
      <4>6. \A i \in 1 .. k : Digit(e, i)
        <5> SUFFICES ASSUME NEW i \in 1 .. k PROVE Digit(e, i)
          OBVIOUS
        <5>1. CASE i = k
          BY <5>1, <4>1, <4>4, <3>4
        <5>2. CASE i # k
          <6>1. i \in 1 .. k - 1
            BY <5>2, <3>1
          <6> QED
            BY <6>1, <4>4, <4>5
        <5> QED
          BY <5>1, <5>2
      <4>7. So(k)
        BY <4>4, <4>6, <3>1 DEF e
      <4> QED
        BY <3>1, <4>7
    <3> QED
      BY <3>3, <3>4
  <2>5. So(U)
    <3> HIDE DEF Q
    <3>1. \A k \in 0 .. U : k \in Q
      BY <2>3, <2>4, <1>1, Turns
    <3> QED
      BY <3>1, <1>1 DEF Q
  <2> DEFINE d == f[U].tmp
             n == Len(d)
             q == [i \in 0 .. U |-> f[i].num]
  <2>6. f[U].num = 0
    <3>1. Pow2[U - U] = 1
      BY <1>1, PowNext
    <3>2. f[U].num \in 0 .. Pow2[U - U] - 1
      BY <2>1, <1>1 DEF DigitTurns, Digited
    <3> QED
      BY <3>1, <3>2
  <2>7. f[0].num = num
    BY <2>1 DEF DigitTurns
  <2>8. n \in 1 .. U
    <3>1. n \in Nat /\ n <= U
      BY <2>2, <2>5, <1>1
    <3>2. n # 0
      BY <2>5, <2>6, <2>7, <1>4
    <3> QED
      BY <3>1, <3>2
  <2>9. d \in Seq(0 .. base - 1) /\ Digits(num, base) = d
    BY <2>1, <2>2, <1>1
  <2>10. q[0] = num /\ q[n] = 0
    BY <2>5, <2>6, <2>7, <2>8, <1>1
  <2>11. \A i \in 1 .. n : Digit(d, i)
    BY <2>5
  <2> HIDE DEF d, n, So
  <2>12. \A i \in 1 .. n : /\ q[i - 1] \in Nat /\ q[i] \in Nat /\ q[i - 1] # 0
                           /\ d[i] = q[i - 1] % base /\ q[i] = q[i - 1] \div base
    <3> SUFFICES ASSUME NEW i \in 1 .. n
                 PROVE  /\ q[i - 1] \in Nat /\ q[i] \in Nat /\ q[i - 1] # 0
                        /\ d[i] = q[i - 1] % base /\ q[i] = q[i - 1] \div base
      OBVIOUS
    <3>1. i \in 0 .. U /\ i - 1 \in 0 .. U
      BY <2>8, <1>1
    <3>2. q[i] = f[i].num /\ q[i - 1] = f[i - 1].num /\ q[i] \in Nat /\ q[i - 1] \in Nat
      BY <3>1, <2>2
    <3>3. Digit(d, i)
      BY <2>11
    <3> HIDE DEF q
    <3> QED
      BY <3>2, <3>3
  <2> HIDE DEF q
  <2>13. d[n] # 0
    <3>1. /\ q[n - 1] \in Nat /\ q[n - 1] # 0 /\ d[n] = q[n - 1] % base /\ 0 = q[n - 1] \div base
      BY <2>8, <2>10, <2>12
    <3> DEFINE x == q[n - 1]
    <3>2. x = (x \div base) * base + (x % base)
      <4>1. x \in Int
        BY <3>1
      <4> HIDE DEF x
      <4> QED
        BY <4>1, <1>2, Divided, Zenon
    <3>3. 0 * base = 0
      BY <1>2
    <3> QED
      BY <3>1, <3>2, <3>3
  <2>14. DigitsOf(d, q, num, base)
    BY <2>8, <2>9, <2>10, <2>12, <2>13 DEF DigitsOf, n
  <2> QED
    BY <2>9, <2>14
<1> QED
  BY <1>3, <1>4

\* The turns of Value.
LEMMA ValueIs ==
    ASSUME NEW base \in Int, NEW ds \in Seq(Int)
    PROVE  \E v : /\ v[0] = 0 /\ Value(ds, base) = v[Len(ds)]
                  /\ \A k \in 0 .. Len(ds) : v[k] \in Int
                  /\ \A k \in 1 .. Len(ds) : v[k] = v[k - 1] * base + ds[k]
<1> DEFINE n == Len(ds)
           inv == [k \in 0 .. n |-> Int]
           step == [p \in Int \X (1 .. n) |-> p[1] * base + ds[p[2]]]
           Eq(f) == f = [k \in 0 .. n |-> IF k = 0 THEN 0 ELSE f[k - 1] * base + ds[k]]
<1>1. n \in Nat /\ \A k \in 1 .. n : ds[k] \in Int
  BY ElementOfSeq
<1>2. Value(ds, base) = (CHOOSE f : Eq(f))[n]
  BY Zenon DEF Value, Loop
<1> HIDE DEF n
<1>3. \A k \in 1 .. n : \A x \in Int : step[<<x, k>>] = x * base + ds[k] /\ step[<<x, k>>] \in Int
  BY <1>1
<1>4. /\ 0 \in inv[0]
      /\ \A k \in 1 .. n : inv[k - 1] = Int /\ inv[k] = Int
      /\ \A k \in 0 .. n : inv[k] = Int
  BY <1>1
<1> HIDE DEF inv, step
<1>5. PICK g : g = [k \in 0 .. n |-> g[k]] /\ Run(g, 0, step, n) /\ \A k \in 0 .. n : g[k] \in inv[k]
  <2>1. \A k \in 1 .. n : \A x \in inv[k - 1] : step[<<x, k>>] \in inv[k]
    BY <1>3, <1>4
  <2>2. \A m \in 0 .. n : \E g : g = [k \in 0 .. m |-> g[k]] /\ Run(g, 0, step, m) /\ \A k \in 0 .. m : g[k] \in inv[k]
    BY <1>1, <1>4, <2>1, RunExists
  <2>3. n \in 0 .. n
    BY <1>1
  <2> QED
    BY <2>2, <2>3, Zenon
<1>6. ASSUME NEW k \in 0 .. n PROVE g[k] = IF k = 0 THEN 0 ELSE g[k - 1] * base + ds[k]
  <2>1. CASE k = 0
    BY <2>1, <1>5 DEF Run
  <2>2. CASE k # 0
    <3>1. k \in 1 .. n /\ k - 1 \in 0 .. n
      BY <2>2, <1>1
    <3>2. g[k] = step[<<g[k - 1], k>>] /\ g[k - 1] \in Int
      BY <3>1, <1>4, <1>5 DEF Run
    <3> QED
      BY <3>1, <3>2, <2>2, <1>3
  <2> QED
    BY <2>1, <2>2
<1>7. Eq(g)
  BY <1>5, <1>6
<1> DEFINE f == CHOOSE f : Eq(f)
<1>8. Eq(f) /\ Value(ds, base) = f[n]
  BY <1>2, <1>7
<1> HIDE DEF f
<1>9. f[0] = 0 /\ \A k \in 1 .. n : f[k] = f[k - 1] * base + ds[k]
  <2>1. 0 \in 0 .. n /\ \A k \in 1 .. n : k \in 0 .. n /\ k # 0
    BY <1>1
  <2> QED
    BY <2>1, <1>8
<1>10. \A k \in 0 .. n : f[k] \in Int
  <2> DEFINE Q == {k \in 0 .. n : f[k] \in Int}
  <2>1. 0 \in Q
    BY <1>1, <1>9
  <2>2. ASSUME NEW k \in 1 .. n, k - 1 \in Q PROVE k \in Q
    <3>1. f[k - 1] \in Int /\ ds[k] \in Int /\ k \in 0 .. n
      BY <2>2, <1>1
    <3>2. f[k - 1] * base + ds[k] \in Int
      BY <3>1
    <3> QED
      BY <3>1, <3>2, <1>9
  <2> HIDE DEF Q
  <2>3. \A k \in 0 .. n : k \in Q
    BY <2>1, <2>2, <1>1, Turns
  <2> QED
    BY <2>3 DEF Q
<1> QED
  BY <1>8, <1>9, <1>10 DEF n

\* Digits in their order behind zeros have the value of the number.
LEMMA DigitsRead ==
    ASSUME NEW base \in Bases, NEW d, NEW q, NEW num \in Nat, DigitsOf(d, q, num, base),
           NEW ds \in Seq(Int), NEW z \in Nat, Len(ds) = z + Len(d),
           \A k \in 1 .. z : ds[k] = 0,
           \A j \in 1 .. Len(d) : ds[z + j] = d[Len(d) + 1 - j]
    PROVE  Value(ds, base) = num
<1> DEFINE n == Len(d)
<1>1. n \in Nat /\ base \in Nat \ {0}
  BY DEF DigitsOf, Bases
<1>2. PICK v : /\ v[0] = 0 /\ Value(ds, base) = v[z + n]
               /\ \A k \in 1 .. z + n : v[k] = v[k - 1] * base + ds[k]
  <2>1. base \in Int
    BY <1>1
  <2>2. \E v : /\ v[0] = 0 /\ Value(ds, base) = v[Len(ds)]
               /\ \A k \in 0 .. Len(ds) : v[k] \in Int
               /\ \A k \in 1 .. Len(ds) : v[k] = v[k - 1] * base + ds[k]
    BY <2>1, ValueIs
  <2> QED
    BY <2>2
<1>3. /\ q[0] = num /\ q[n] = 0
      /\ \A i \in 1 .. n : q[i - 1] = q[i] * base + d[i]
  <2> SUFFICES ASSUME NEW i \in 1 .. n PROVE q[i - 1] = q[i] * base + d[i]
    BY DEF DigitsOf
  <2>1. q[i - 1] \in Int /\ d[i] = q[i - 1] % base /\ q[i] = q[i - 1] \div base
    BY DEF DigitsOf
  <2> DEFINE x == q[i - 1]
  <2>2. x = (x \div base) * base + (x % base)
    <3>1. x \in Int
      BY <2>1
    <3> HIDE DEF x
    <3> QED
      BY <3>1, <1>1, Divided, Zenon
  <2> QED
    BY <2>1, <2>2
<1>4. \A k \in 1 .. z : ds[k] = 0
  OBVIOUS
<1>5. \A j \in 1 .. n : ds[z + j] = d[n + 1 - j]
  OBVIOUS
<1> HIDE DEF n
<1> DEFINE Q == {k \in 0 .. z + n : IF k <= z THEN v[k] = 0 ELSE v[k] = q[n - (k - z)]}
<1>6. 0 \in Q
  BY <1>1, <1>2
<1>7. ASSUME NEW k \in 1 .. z + n, k - 1 \in Q PROVE k \in Q
  <2>1. v[k] = v[k - 1] * base + ds[k] /\ k \in 0 .. z + n
    BY <1>1, <1>2
  <2>2. CASE k <= z
    <3>1. v[k - 1] = 0 /\ ds[k] = 0
      BY <1>7, <1>4, <1>1, <2>2
    <3>2. 0 * base + 0 = 0
      BY <1>1
    <3>3. v[k] = 0
      BY <2>1, <3>1, <3>2
    <3> QED
      BY <2>1, <2>2, <3>3
  <2>3. CASE ~(k <= z)
    <3> DEFINE i == n - (k - z) + 1
    <3>1. i \in 1 .. n /\ n + 1 - i \in 1 .. n /\ n + 1 - (n + 1 - i) = i /\ z + (n + 1 - i) = k
      BY <1>1, <2>3
    <3>2. ds[k] = d[i]
      <4> HIDE DEF i
      <4> QED
        BY <3>1, <1>5
    <3>3. v[k - 1] = q[i]
      <4>1. CASE k - 1 <= z
        <5>1. i = n /\ v[k - 1] = 0
          BY <4>1, <1>7, <1>1, <2>3
        <5> HIDE DEF i
        <5> QED
          BY <5>1, <1>3
      <4>2. CASE ~(k - 1 <= z)
        <5>1. n - ((k - 1) - z) = i
          BY <1>1
        <5> HIDE DEF i
        <5> QED
          BY <5>1, <4>2, <1>7
      <4> QED
        BY <4>1, <4>2
    <3>4. i - 1 = n - (k - z)
      BY <1>1
    <3> HIDE DEF i
    <3>5. v[k] = q[i - 1]
      BY <2>1, <3>1, <3>2, <3>3, <1>3
    <3> QED
      BY <2>1, <2>3, <3>4, <3>5
  <2> QED
    BY <2>2, <2>3
<1>8. \A k \in 0 .. z + n : k \in Q
  <2>1. z + n \in Nat
    BY <1>1
  <2> HIDE DEF Q
  <2> QED
    BY <2>1, <1>6, <1>7, Turns
<1>9. v[z + n] = q[0]
  <2>1. z + n \in Q
    BY <1>1, <1>8
  <2>2. CASE n = 0
    BY <2>1, <2>2, <1>1, <1>3
  <2>3. CASE n # 0
    <3>1. ~(z + n <= z) /\ n - ((z + n) - z) = 0
      BY <2>3, <1>1
    <3> QED
      BY <2>1, <3>1
  <2> QED
    BY <2>2, <2>3
<1> QED
  BY <1>2, <1>3, <1>9

(* The text of a number.                                                   *)
LEMMA SignIs ==
    ASSUME NEW num, NEW flags
    PROVE  /\ Sign(num, flags) \in {<<Minus>>, <<Plus>>, <<Blank>>, <<>>}
           /\ Sign(num, flags) = <<Minus>> <=> "SIGN" \in flags /\ num >= Pow2[U - 1]
<1>1. <<Minus>> # <<Plus>> /\ <<Minus>> # <<Blank>> /\ <<Minus>> # <<>>
  <2>1. Minus # Plus /\ Minus # Blank
    BY DEF Minus, Plus, Blank
  <2>2. <<Minus>>[1] = Minus /\ <<Plus>>[1] = Plus /\ <<Blank>>[1] = Blank
    OBVIOUS
  <2>3. Len(<<Minus>>) = 1 /\ Len(<<>>) = 0
    OBVIOUS
  <2> QED
    BY <2>1, <2>2, <2>3
<1>2. CASE "SIGN" \in flags /\ num >= Pow2[U - 1]
  BY <1>2, Zenon DEF Sign
<1>3. CASE ~("SIGN" \in flags /\ num >= Pow2[U - 1])
  BY <1>1, <1>3, Zenon DEF Sign
<1> QED
  BY <1>2, <1>3

LEMMA HeadIs ==
    ASSUME NEW num, NEW base, NEW flags
    PROVE  LET h == Sign(num, flags) \o Prefix(base, flags) IN
           /\ Sign(num, flags) \in Seq(Int) /\ Prefix(base, flags) \in Seq(Int) /\ h \in Seq(Int)
           /\ Len(h) = Len(Sign(num, flags)) + Len(Prefix(base, flags))
           /\ h # <<>> /\ h[1] = Minus <=> Sign(num, flags) = <<Minus>>
<1> DEFINE s == Sign(num, flags)
           p == Prefix(base, flags)
           h == s \o p
<1>1. s \in {<<Minus>>, <<Plus>>, <<Blank>>, <<>>}
  BY SignIs
<1>2. p \in {<<>>, <<0>>, <<0, X>>}
  BY DEF Prefix
<1> HIDE DEF s, p
<1>3. Minus \in Int /\ Plus \in Int /\ Blank \in Int /\ X \in Int
  BY DEF Minus, Plus, Blank, X
<1>4. s \in Seq(Int) /\ (s = <<>> \/ (Len(s) = 1 /\ s[1] \in {Minus, Plus, Blank}))
  <2>1. \A x \in Int : <<x>> \in Seq(Int) /\ Len(<<x>>) = 1 /\ <<x>>[1] = x
    OBVIOUS
  <2>2. CASE s = <<>>
    BY <2>2
  <2>3. CASE s # <<>>
    BY <2>1, <2>3, <1>1, <1>3, Zenon
  <2> QED
    BY <2>2, <2>3
<1>5. p \in Seq(Int) /\ (p = <<>> \/ (Len(p) > 0 /\ p[1] = 0))
  <2>1. CASE p = <<>>
    BY <2>1
  <2>2. CASE p = <<0>>
    BY <2>2
  <2>3. CASE p = <<0, X>>
    BY <2>3, <1>3
  <2> QED
    BY <2>1, <2>2, <2>3, <1>2
<1>6. h \in Seq(Int) /\ Len(h) = Len(s) + Len(p) /\ (s # <<>> => h[1] = s[1])
  BY <1>4, <1>5, HeadAndRest
<1>7. s = <<>> => h = p
  BY <1>5, ConcatEmptySeq
<1> HIDE DEF h
<1>8. s # <<>> => h # <<>>
  BY <1>4, <1>5, <1>6, EmptySeq
<1>9. Minus # 0 /\ Minus # Plus /\ Minus # Blank
  BY DEF Minus, Plus, Blank
<1>10. h # <<>> /\ h[1] = Minus <=> s = <<Minus>>
  <2>1. CASE s = <<>>
    <3>1. s # <<Minus>>
      BY <2>1
    <3> QED
      BY <3>1, <2>1, <1>5, <1>7, <1>9
  <2>2. CASE s # <<>>
    <3>1. s = <<Minus>> <=> s[1] = Minus
      BY <2>2, <1>1, <1>9
    <3> QED
      BY <3>1, <2>2, <1>6, <1>8
  <2> QED
    BY <2>1, <2>2
<1> QED
  BY <1>4, <1>5, <1>6, <1>10 DEF h, s, p

Join(a, b) == a \o b

LEMMA JoinIs ==
    ASSUME NEW a \in Seq(Int), NEW b \in Seq(Int)
    PROVE  /\ Join(a, b) \in Seq(Int) /\ Len(Join(a, b)) = Len(a) + Len(b)
           /\ \A i \in 1 .. Len(a) + Len(b) :
                Join(a, b)[i] = IF i <= Len(a) THEN a[i] ELSE b[i - Len(a)]
BY ConcatIs, Zenon DEF Join

LEMMA JoinAssociative ==
    ASSUME NEW a \in Seq(Int), NEW b \in Seq(Int), NEW c \in Seq(Int)
    PROVE  Join(Join(a, b), c) = Join(a, Join(b, c))
<1> DEFINE ab == Join(a, b)
           bc == Join(b, c)
           l == Join(ab, c)
           r == Join(a, bc)
<1>1. /\ ab \in Seq(Int) /\ Len(ab) = Len(a) + Len(b)
      /\ \A i \in 1 .. Len(a) + Len(b) : ab[i] = IF i <= Len(a) THEN a[i] ELSE b[i - Len(a)]
  BY JoinIs
<1>2. /\ bc \in Seq(Int) /\ Len(bc) = Len(b) + Len(c)
      /\ \A i \in 1 .. Len(b) + Len(c) : bc[i] = IF i <= Len(b) THEN b[i] ELSE c[i - Len(b)]
  BY JoinIs
<1> HIDE DEF ab, bc
<1>3. /\ l \in Seq(Int) /\ Len(l) = Len(ab) + Len(c)
      /\ \A i \in 1 .. Len(ab) + Len(c) : l[i] = IF i <= Len(ab) THEN ab[i] ELSE c[i - Len(ab)]
  BY <1>1, JoinIs
<1>4. /\ r \in Seq(Int) /\ Len(r) = Len(a) + Len(bc)
      /\ \A i \in 1 .. Len(a) + Len(bc) : r[i] = IF i <= Len(a) THEN a[i] ELSE bc[i - Len(a)]
  BY <1>2, JoinIs
<1> HIDE DEF l, r
<1> DEFINE x == Len(a)
           y == Len(b)
           z == Len(c)
<1>5. x \in Nat /\ y \in Nat /\ z \in Nat
  OBVIOUS
<1>6. ASSUME NEW i \in 1 .. x + y + z PROVE l[i] = r[i]
  <2>1. \A k \in 1 .. x + y : ab[k] = IF k <= x THEN a[k] ELSE b[k - x]
    BY <1>1
  <2>2. \A k \in 1 .. y + z : bc[k] = IF k <= y THEN b[k] ELSE c[k - y]
    BY <1>2
  <2>3. l[i] = IF i <= x + y THEN ab[i] ELSE c[i - (x + y)]
    BY <1>1, <1>3
  <2>4. r[i] = IF i <= x THEN a[i] ELSE bc[i - x]
    <3>1. x + Len(bc) = x + y + z
      BY <1>2, <1>5
    <3> QED
      BY <3>1, <1>4
  <2> HIDE DEF x, y, z
  <2>5. CASE i <= x
    <3>1. i \in 1 .. x + y /\ i <= x + y
      BY <2>5, <1>5
    <3> QED
      BY <3>1, <2>5, <2>1, <2>3, <2>4
  <2>6. CASE ~(i <= x) /\ i <= x + y
    <3>1. i - x \in 1 .. y + z /\ i - x <= y /\ i \in 1 .. x + y
      BY <2>6, <1>5
    <3> QED
      BY <3>1, <2>6, <2>1, <2>2, <2>3, <2>4
  <2>7. CASE ~(i <= x + y)
    <3>1. i - x \in 1 .. y + z /\ ~(i - x <= y) /\ (i - x) - y = i - (x + y) /\ ~(i <= x)
      BY <2>7, <1>5
    <3> QED
      BY <3>1, <2>7, <2>2, <2>3, <2>4
  <2> QED
    BY <2>5, <2>6, <2>7
<1>7. Len(l) = Len(r) /\ \A i \in 1 .. Len(l) : l[i] = r[i]
  BY <1>1, <1>2, <1>3, <1>4, <1>5, <1>6
<1>8. l = r
  BY <1>3, <1>4, <1>7, SeqEqual
<1> QED
  BY <1>8 DEF l, r, ab, bc

Same(a, b, c, d, e, f, g) ==
    a \o b \o c \o d \o e \o f \o g = a \o ((b \o c) \o ((d \o e) \o f)) \o g

LEMMA Regrouped ==
    ASSUME NEW a \in Seq(Int), NEW b \in Seq(Int), NEW c \in Seq(Int), NEW d \in Seq(Int),
           NEW e \in Seq(Int), NEW f \in Seq(Int), NEW g \in Seq(Int)
    PROVE  Same(a, b, c, d, e, f, g)
<1> DEFINE bc == Join(b, c)
           de == Join(d, e)
           abc == Join(a, bc)
           def == Join(de, f)
<1>1. bc \in Seq(Int) /\ de \in Seq(Int) /\ Join(Join(a, b), c) = abc
  BY JoinIs, JoinAssociative
<1>2. abc \in Seq(Int) /\ def \in Seq(Int)
  BY <1>1, JoinIs
<1>3. Join(Join(abc, d), e) = Join(abc, de)
  BY <1>2, JoinAssociative
<1>4. Join(Join(abc, de), f) = Join(abc, def)
  BY <1>1, <1>2, JoinAssociative
<1>5. Join(abc, def) = Join(a, Join(bc, def))
  BY <1>1, <1>2, JoinAssociative
<1>6. Join(Join(Join(Join(Join(a, b), c), d), e), f) = Join(a, Join(bc, def))
  BY <1>1, <1>3, <1>4, <1>5
<1> QED
  BY <1>6 DEF Join, Same

\* What number writes: blanks, the sign and the prefix, zeros and the digits, blanks.
NumberText(text, num, base, width, prec, flags, A, D, C, n) ==
    LET h == Sign(num, flags) \o Prefix(base, flags)
        precision == IF n > prec THEN n ELSE prec
        size == width - Len(h) - precision
        pad == IF size > 0 THEN size ELSE 0
    IN  /\ text = A \o (h \o D) \o C
        /\ A \in Seq(Int) /\ D \in Seq(Int) /\ C \in Seq(Int)
        /\ \A k \in 1 .. Len(A) : A[k] = Blank
        /\ \A k \in 1 .. Len(C) : C[k] = Blank
        /\ Len(A) = IF "-" \notin flags /\ "0" \notin flags THEN pad ELSE 0
        /\ Len(C) = IF "-" \in flags THEN pad ELSE 0
        /\ Len(D) = precision + (IF "-" \notin flags /\ "0" \in flags THEN pad ELSE 0)

NumberedAs(num, base, width, prec, flags, t, A, D, C) ==
    /\ NumberText(number(num, base, width, prec, flags), num, base, width, prec, flags, A, D, C, Len(t))
    /\ \A k \in 1 .. Len(D) - Len(t) : D[k] = 0
    /\ \A j \in 1 .. Len(t) : D[Len(D) - Len(t) + j] = t[Len(t) + 1 - j]

Magnitude(num, flags) == IF Sign(num, flags) = <<Minus>> THEN Pow2[U] - num ELSE num

LEMMA MagnitudeIs ==
    ASSUME NEW num \in 0 .. Pow2[U] - 1, NEW flags
    PROVE  Magnitude(num, flags) \in 0 .. Pow2[U] - 1
<1>1. U - 1 \in Nat /\ U \in Nat
  BY VsprintfAssumption
<1>2. Pow2[U - 1] \in Nat \ {0} /\ Pow2[U] \in Nat
  BY <1>1, PowPositive
<1>3. Sign(num, flags) = <<Minus>> => num >= Pow2[U - 1]
  BY SignIs
<1> QED
  BY <1>2, <1>3 DEF Magnitude

LEMMA NumberIs ==
    ASSUME NEW num \in 0 .. Pow2[U] - 1, NEW base \in Bases, NEW width \in Int, NEW prec \in Int,
           NEW flags, NEW q, NEW t, t = Digits(Magnitude(num, flags), base),
           DigitsOf(t, q, Magnitude(num, flags), base)
    PROVE  \E A, D, C : NumberedAs(num, base, width, prec, flags, t, A, D, C)
<1> DEFINE n == Len(t)
           sign == Sign(num, flags)
           prefix == Prefix(base, flags)
           h == sign \o prefix
           precision == IF n > prec THEN n ELSE prec
           size == width - Len(sign) - Len(prefix) - precision
           zeropad == "0" \in flags /\ "-" \notin flags
           before == "-" \notin flags /\ "0" \notin flags
           after == "-" \in flags
           pad == IF size > 0 THEN size ELSE 0
           A == Copies(Blank, IF before THEN size ELSE 0)
           Z == Copies(0, IF zeropad THEN size ELSE 0)
           Y == Copies(0, precision - n)
           R == Reverse(t)
           C == Copies(Blank, IF after THEN size ELSE 0)
           ZY == Z \o Y
           D == ZY \o R
<1>1. n \in Nat /\ t \in Seq(Int)
  <2>1. t \in Seq(0 .. base - 1)
    BY DEF DigitsOf
  <2>2. base \in Int
    BY DEF Bases
  <2> QED
    BY <2>1, <2>2
<1>2. /\ sign \in Seq(Int) /\ prefix \in Seq(Int) /\ h \in Seq(Int)
      /\ Len(h) = Len(sign) + Len(prefix)
  BY HeadIs
<1>3. R \in Seq(Int) /\ Len(R) = n /\ \A j \in 1 .. n : R[j] = t[n + 1 - j]
  <2> DEFINE r == [i \in 1 .. n |-> t[n - i + 1]]
  <2>1. \A i \in 1 .. n : t[n - i + 1] \in Int /\ n - i + 1 = n + 1 - i
    <3> SUFFICES ASSUME NEW i \in 1 .. n PROVE t[n - i + 1] \in Int /\ n - i + 1 = n + 1 - i
      OBVIOUS
    <3>1. n - i + 1 \in 1 .. n /\ n - i + 1 = n + 1 - i
      BY <1>1
    <3> QED
      BY <3>1, <1>1, ElementOfSeq
  <2>2. R = r
    BY DEF Reverse
  <2> HIDE DEF n
  <2>3. r \in [1 .. n -> Int]
    BY <2>1
  <2>4. r \in Seq(Int) /\ Len(r) = n
    BY <2>3, <1>1
  <2>5. \A j \in 1 .. n : r[j] = t[n + 1 - j]
    BY <2>1
  <2> QED
    BY <2>2, <2>4, <2>5
<1>4. number(num, base, width, prec, flags) = A \o sign \o prefix \o Z \o Y \o R \o C
  BY DEF number, Magnitude, Written
<1> HIDE DEF n, sign, prefix, R
<1>5. precision \in Int /\ size \in Int /\ precision >= n
  <2>1. Len(sign) \in Nat /\ Len(prefix) \in Nat
    BY <1>2
  <2> QED
    BY <2>1, <1>1
<1>6. size = width - Len(h) - precision
  <2>1. Len(sign) \in Nat /\ Len(prefix) \in Nat /\ precision \in Int
    BY <1>2, <1>5
  <2> HIDE DEF precision, h
  <2> QED
    BY <2>1, <1>2
<1> HIDE DEF size, precision, h
<1>7. Blank \in Int
  BY DEF Blank
<1>8. /\ A \in Seq(Int) /\ Len(A) = IF before THEN pad ELSE 0
      /\ \A k \in 1 .. Len(A) : A[k] = Blank
  <2>1. (IF before THEN size ELSE 0) \in Int
    BY <1>5
  <2> HIDE DEF before
  <2> QED
    BY <2>1, <1>7, CopiesAre
<1>9. /\ C \in Seq(Int) /\ Len(C) = IF after THEN pad ELSE 0
      /\ \A k \in 1 .. Len(C) : C[k] = Blank
  <2>1. (IF after THEN size ELSE 0) \in Int
    BY <1>5
  <2> HIDE DEF after
  <2> QED
    BY <2>1, <1>7, CopiesAre
<1>10. /\ Z \in Seq(Int) /\ Len(Z) = IF zeropad THEN pad ELSE 0
       /\ \A k \in 1 .. Len(Z) : Z[k] = 0
  <2>1. (IF zeropad THEN size ELSE 0) \in Int /\ 0 \in Int
    BY <1>5
  <2> HIDE DEF zeropad
  <2> QED
    BY <2>1, CopiesAre
<1>11. /\ Y \in Seq(Int) /\ Len(Y) = precision - n
       /\ \A k \in 1 .. Len(Y) : Y[k] = 0
  <2>1. precision - n \in Int /\ 0 \in Int /\ (precision - n > 0 \/ precision - n = 0)
    BY <1>1, <1>5
  <2>2. Len(Y) = IF precision - n > 0 THEN precision - n ELSE 0
    BY <2>1, CopiesAre
  <2>3. Y \in Seq(Int) /\ \A k \in 1 .. Len(Y) : Y[k] = 0
    BY <2>1, CopiesAre
  <2> QED
    BY <2>1, <2>2, <2>3
<1> HIDE DEF A, C, Z, Y
<1>12. number(num, base, width, prec, flags) = A \o (h \o D) \o C
  <2>1. /\ A \in Seq(Int) /\ sign \in Seq(Int) /\ prefix \in Seq(Int) /\ Z \in Seq(Int)
        /\ Y \in Seq(Int) /\ R \in Seq(Int) /\ C \in Seq(Int)
    BY <1>2, <1>3, <1>8, <1>9, <1>10, <1>11
  <2>2. A \o sign \o prefix \o Z \o Y \o R \o C
          = A \o ((sign \o prefix) \o ((Z \o Y) \o R)) \o C
    <3>1. Same(A, sign, prefix, Z, Y, R, C)
      BY <2>1, Regrouped
    <3> QED
      BY <3>1 DEF Same
  <2> QED
    BY <2>2, <1>4 DEF h
<1> HIDE DEF before, after, zeropad
<1>13. /\ ZY \in Seq(Int) /\ Len(ZY) = Len(Z) + Len(Y)
       /\ \A i \in 1 .. Len(Z) + Len(Y) : ZY[i] = IF i <= Len(Z) THEN Z[i] ELSE Y[i - Len(Z)]
  BY <1>10, <1>11, ConcatIs, Zenon
<1>14. Len(Z) \in Nat /\ Len(Y) \in Nat
  BY <1>10, <1>11
<1> DEFINE z == Len(ZY)
<1>15. z \in Nat /\ \A k \in 1 .. z : ZY[k] = 0
  <2>1. z \in Nat
    BY <1>13
  <2> SUFFICES ASSUME NEW k \in 1 .. z PROVE ZY[k] = 0
    BY <2>1
  <2>2. k \in 1 .. Len(Z) + Len(Y)
    BY <1>13
  <2>3. CASE k <= Len(Z)
    BY <2>2, <2>3, <1>10, <1>13
  <2>4. CASE ~(k <= Len(Z))
    <3>1. k - Len(Z) \in 1 .. Len(Y)
      BY <2>2, <2>4, <1>14
    <3> QED
      BY <3>1, <2>2, <2>4, <1>11, <1>13
  <2> QED
    BY <2>3, <2>4
<1> HIDE DEF ZY
<1>16. /\ D \in Seq(Int) /\ Len(D) = z + n
       /\ \A i \in 1 .. z + n : D[i] = IF i <= z THEN ZY[i] ELSE R[i - z]
  <2>1. /\ D \in Seq(Int) /\ Len(D) = z + Len(R)
        /\ \A i \in 1 .. z + Len(R) : D[i] = IF i <= z THEN ZY[i] ELSE R[i - z]
    <3>1. ZY \in Seq(Int) /\ R \in Seq(Int)
      BY <1>3, <1>13
    <3> QED
      BY <3>1, ConcatIs, Zenon
  <2>2. Len(R) = n
    BY <1>3
  <2> HIDE DEF D, z
  <2> QED
    BY <2>1, <2>2
<1> HIDE DEF D, z
<1>17. Len(D) - n = z
  BY <1>1, <1>15, <1>16
<1>18. \A k \in 1 .. z : D[k] = 0
  <2> SUFFICES ASSUME NEW k \in 1 .. z PROVE D[k] = 0
    OBVIOUS
  <2>1. k \in 1 .. z + n /\ k <= z
    BY <1>1, <1>15
  <2> QED
    BY <2>1, <1>15, <1>16
<1>19. \A j \in 1 .. n : D[z + j] = t[n + 1 - j]
  <2> SUFFICES ASSUME NEW j \in 1 .. n PROVE D[z + j] = t[n + 1 - j]
    OBVIOUS
  <2>1. z + j \in 1 .. z + n /\ ~(z + j <= z) /\ (z + j) - z = j
    BY <1>1, <1>15
  <2> QED
    BY <2>1, <1>3, <1>16
<1>20. Len(D) = precision + (IF zeropad THEN pad ELSE 0)
  <2>1. z = (IF zeropad THEN pad ELSE 0) + (precision - n)
    BY <1>10, <1>11, <1>13 DEF z
  <2>2. pad \in Int
    BY <1>5
  <2> QED
    BY <2>1, <2>2, <1>1, <1>5, <1>16
<1> HIDE DEF pad
<1>21. NumberText(number(num, base, width, prec, flags), num, base, width, prec, flags, A, D, C, n)
  <2>1. zeropad <=> "-" \notin flags /\ "0" \in flags
    BY DEF zeropad
  <2> QED
    BY <2>1, <1>6, <1>8, <1>9, <1>12, <1>16, <1>20
    DEF NumberText, h, sign, prefix, precision, pad, before, after
<1>22. NumberedAs(num, base, width, prec, flags, t, A, D, C)
  BY <1>17, <1>18, <1>19, <1>21 DEF n, NumberedAs
<1> QED
  BY <1>22

\* Reads with the parts of the text.
ReadsAs(text, d, i, j, wide, left, head, body, ds) ==
    LET minus == head # <<>> /\ head[1] = Minus
    IN  /\ Len(text) >= wide
        /\ IF left THEN i = 0 ELSE j = 0
        /\ IsPrefix(head, body) /\ ds # <<>>
        /\ \A k \in DOMAIN ds : ds[k] \in 0 .. Base(d.conv) - 1
        /\ Value(ds, Base(d.conv)) = IF minus THEN Pow2[U] - d.arg ELSE d.arg
        /\ Len(ds) >= d.prec.v
        /\ Len(text) > wide => /\ i = 0 /\ j = 0
                              /\ \/ Len(ds) = 1 \/ Len(ds) <= d.prec.v
                                 \/ ds[1] # 0

\* The conversions of numbers: the text reads back as the argument.
LEMMA NumberSays ==
    ASSUME NEW d \in NumberDirective
    PROVE  Says(vsprintf(d), d)
<1> DEFINE num == d.arg
           base == Base(d.conv)
           pointer == d.conv = "p" /\ d.width = None
           w == IF pointer THEN 8 ELSE Width(d)
           P == Precision(d)
           more == IF d.conv = "d" THEN {"SIGN"} ELSE {}
           fl == IF pointer THEN Flags(d) \cup {"0"} ELSE Flags(d) \cup more
           sg == d.flags \cup more
           left == "-" \in d.flags \/ (d.width.star /\ d.width.v < 0)
           wide == IF pointer THEN 8 ELSE IF d.width.v < 0 THEN -d.width.v ELSE d.width.v
           sign == Sign(num, sg)
           prefix == Prefix(base, d.flags)
           h == sign \o prefix
           m == Magnitude(num, fl)
           t == Digits(m, base)
           n == Len(t)
<1>1. /\ d.flags \in SUBSET Flag /\ d.width \in Field /\ d.prec \in Field
      /\ d.conv \in {"d", "u", "o", "x", "b", "p"} /\ num \in 0 .. Pow2[U] - 1
  BY DEF NumberDirective
<1>2. base \in Bases /\ (d.conv = "p" => base = 16)
  BY <1>1 DEF Base, Bases
<1>3. /\ d.width.v \in Int /\ d.prec.v \in Int /\ Width(d) \in Int /\ P \in Int
      /\ Width(d) = IF d.width = None THEN -1 ELSE IF d.width.v < 0 THEN -d.width.v ELSE d.width.v
      /\ P = IF d.prec = None THEN -1 ELSE IF d.prec.v < 0 THEN 0 ELSE d.prec.v
      /\ d.width = None => d.width.v = -1
      /\ d.prec = None => d.prec.v = -1
      /\ "-" \in Flags(d) <=> left
  BY <1>1, FieldsAre
<1>4. Width(d) = -1 <=> d.width = None
  BY <1>3
<1>5. vsprintf(d) = number(num, base, w, P, fl)
  <2>1. d.conv # "c" /\ d.conv # "s"
    BY <1>1
  <2>2. CASE pointer
    BY <2>1, <2>2, <1>2, <1>4 DEF vsprintf
  <2>3. CASE ~pointer
    <3>1. ~(d.conv = "p" /\ Width(d) = -1)
      BY <2>3, <1>4
    <3> QED
      BY <2>1, <2>3, <3>1, Zenon DEF vsprintf
  <2> QED
    BY <2>2, <2>3
<1>6. \A x \in {"+", " ", "#"} : x \in fl <=> x \in d.flags
  BY DEF Flags
<1>7. "SIGN" \in fl <=> "SIGN" \in sg
  BY DEF Flags
<1>8. Sign(num, fl) = sign
  <2>1. \A x \in {"+", " "} : x \in sg <=> x \in d.flags
    OBVIOUS
  <2> HIDE DEF fl, sg
  <2> QED
    BY <2>1, <1>6, <1>7 DEF Sign
<1>9. Prefix(base, fl) = prefix
  BY <1>6 DEF Prefix
<1>10. "-" \in fl <=> left
  BY <1>3
<1>11. w \in Int /\ wide \in Int /\ (w = wide \/ (w = -1 /\ wide = 1))
  BY <1>3
<1> HIDE DEF w, fl, P, left, num, base, pointer, sg, sign, prefix
<1>12. m \in 0 .. Pow2[U] - 1 /\ m = IF sign = <<Minus>> THEN Pow2[U] - num ELSE num
  <2>1. m \in 0 .. Pow2[U] - 1
    BY <1>1, MagnitudeIs
  <2> QED
    BY <2>1, <1>8 DEF Magnitude
<1> HIDE DEF m
<1>13. PICK q : DigitsOf(t, q, m, base)
  BY <1>2, <1>12, DigitsAre
<1>14. PICK A, D, C : NumberedAs(num, base, w, P, fl, t, A, D, C)
  <2>1. t = Digits(Magnitude(num, fl), base) /\ DigitsOf(t, q, Magnitude(num, fl), base)
    BY <1>13 DEF m
  <2>2. num \in 0 .. Pow2[U] - 1 /\ base \in Bases /\ w \in Int /\ P \in Int
    BY <1>1, <1>2, <1>3, <1>11
  <2> HIDE DEF t
  <2> QED
    BY <2>1, <2>2, NumberIs
<1> HIDE DEF t
<1> DEFINE precision == IF n > P THEN n ELSE P
           size == w - Len(h) - precision
           pad == IF size > 0 THEN size ELSE 0
           B == h \o D
           T == A \o B \o C
<1>15. /\ vsprintf(d) = T
       /\ A \in Seq(Int) /\ D \in Seq(Int) /\ C \in Seq(Int)
       /\ \A k \in 1 .. Len(A) : A[k] = Blank
       /\ \A k \in 1 .. Len(C) : C[k] = Blank
       /\ Len(A) = IF "-" \notin fl /\ "0" \notin fl THEN pad ELSE 0
       /\ Len(C) = IF "-" \in fl THEN pad ELSE 0
       /\ Len(D) = precision + (IF "-" \notin fl /\ "0" \in fl THEN pad ELSE 0)
  BY <1>5, <1>8, <1>9, <1>14 DEF NumberText, NumberedAs
<1>16. /\ h \in Seq(Int) /\ (h # <<>> /\ h[1] = Minus <=> sign = <<Minus>>)
  BY <1>8, <1>9, HeadIs DEF sign, prefix
<1>17. n \in Nat \ {0} /\ t \in Seq(0 .. base - 1) /\ (n > 1 => t[n] # 0)
  <2>1. n \in 1 .. U /\ U \in Nat
    BY <1>13, VsprintfAssumption DEF DigitsOf
  <2> QED
    BY <2>1, <1>13 DEF DigitsOf
<1> HIDE DEF h
<1>18. h \o D \in Seq(Int) /\ Len(h \o D) = Len(h) + Len(D)
       /\ SubSeq(h \o D, Len(h) + 1, Len(h \o D)) = D /\ IsPrefix(h, h \o D)
  BY <1>15, <1>16, HeadAndRest
<1> HIDE DEF n, B, precision, size, pad
<1>19. /\ Len(T) = Len(A) + Len(B) + Len(C)
       /\ SubSeq(T, Len(A) + 1, Len(T) - Len(C)) = B
  <2>1. B \in Seq(Int)
    BY <1>18 DEF B
  <2> QED
    BY <2>1, <1>15, Framed
<1>20. /\ Len(A) \in Nat /\ Len(B) \in Nat /\ Len(C) \in Nat /\ Len(D) \in Nat /\ Len(h) \in Nat
       /\ Len(B) = Len(h) + Len(D)
  <2>1. \A s \in Seq(Int) : Len(s) \in Nat
    OBVIOUS
  <2>2. B \in Seq(Int) /\ Len(B) = Len(h) + Len(D)
    BY <1>18 DEF B
  <2> QED
    BY <2>1, <2>2, <1>15, <1>16, Zenon
<1> HIDE DEF T, wide
<1>21. /\ precision \in Int /\ precision >= n /\ precision >= P
       /\ precision = IF n > P THEN n ELSE P
       /\ size \in Int /\ size = w - Len(h) - precision
       /\ pad \in Nat /\ pad >= size /\ (size > 0 => pad = size) /\ (~(size > 0) => pad = 0)
  BY <1>3, <1>11, <1>17, <1>20 DEF precision, size, pad
<1>22. Len(T) = Len(h) + precision + pad
  <2>1. CASE "-" \in fl
    BY <2>1, <1>15, <1>19, <1>20, <1>21
  <2>2. CASE "-" \notin fl /\ "0" \in fl
    BY <2>2, <1>15, <1>19, <1>20, <1>21
  <2>3. CASE "-" \notin fl /\ "0" \notin fl
    BY <2>3, <1>15, <1>19, <1>20, <1>21
  <2> QED
    BY <2>1, <2>2, <2>3
<1>23. Len(T) >= wide
  <2>1. Len(T) >= w /\ Len(T) >= 1
    <3> DEFINE x == Len(T)
               y == Len(h)
    <3>1. x = y + precision + pad /\ y \in Nat /\ size = w - y - precision
      BY <1>22, <1>20, <1>21
    <3>2. precision \in Int /\ precision >= 1 /\ pad \in Nat /\ pad >= size /\ size \in Int
      BY <1>17, <1>21
    <3> HIDE DEF x, y
    <3>3. x >= w /\ x >= 1
      BY <3>1, <3>2, <1>11
    <3> QED
      BY <3>3 DEF x
  <2>2. Len(T) \in Int
    BY <1>19, <1>20
  <2> QED
    BY <2>1, <2>2, <1>11
<1>24. IF left THEN Len(A) = 0 ELSE Len(C) = 0
  BY <1>10, <1>15
<1>25. D # <<>> /\ Len(D) >= precision
  <2>1. Len(D) >= precision
    <3>1. Len(D) = precision \/ Len(D) = precision + pad
      BY <1>15, <1>21
    <3> QED
      BY <3>1, <1>21
  <2>2. Len(D) # 0
    BY <2>1, <1>17, <1>20, <1>21
  <2> QED
    BY <2>1, <2>2
<1> DEFINE z == Len(D) - n
<1>26. z \in Nat /\ Len(D) = z + n
  BY <1>17, <1>20, <1>21, <1>25
<1>27. /\ \A k \in 1 .. z : D[k] = 0
       /\ \A j \in 1 .. n : D[z + j] = t[n + 1 - j]
  BY <1>14 DEF NumberedAs, n
<1> HIDE DEF z
<1>28. \A k \in DOMAIN D : D[k] \in 0 .. base - 1
  <2>3. D \in Seq(Int)
    BY <1>15, Zenon
  <2>4. DOMAIN D = 1 .. Len(D)
    BY <2>3
  <2> SUFFICES ASSUME NEW k \in 1 .. Len(D) PROVE D[k] \in 0 .. base - 1
    BY <2>4
  <2>1. CASE k <= z
    <3>1. D[k] = 0
      BY <2>1, <1>26, <1>27
    <3> QED
      BY <3>1, <1>2 DEF Bases
  <2>2. CASE ~(k <= z)
    <3>1. k - z \in 1 .. n /\ z + (k - z) = k /\ n + 1 - (k - z) \in 1 .. n
      BY <2>2, <1>17, <1>26
    <3>2. D[k] = t[n + 1 - (k - z)]
      BY <3>1, <1>27
    <3> QED
      BY <3>1, <3>2, <1>17, ElementOfSeq DEF n
  <2> QED
    BY <2>1, <2>2
<1>29. Value(D, base) = m
  <2>1. m \in Nat
    BY <1>12, VsprintfAssumption, PowPositive
  <2>2. Len(D) = z + Len(t)
    BY <1>26 DEF n
  <2>3. \A k \in 1 .. z : D[k] = 0
    BY <1>27
  <2>4. \A j \in 1 .. Len(t) : D[z + j] = t[Len(t) + 1 - j]
    BY <1>27 DEF n
  <2> QED
    BY <2>1, <2>2, <2>3, <2>4, <1>2, <1>13, <1>15, <1>26, DigitsRead
<1>30. Len(D) >= d.prec.v
  <2>1. P >= d.prec.v
    BY <1>3
  <2> QED
    BY <2>1, <1>3, <1>20, <1>21, <1>25
<1>31. Len(T) > wide => /\ Len(A) = 0 /\ Len(C) = 0
                        /\ \/ Len(D) = 1 \/ Len(D) <= d.prec.v
                           \/ D[1] # 0
  <2> SUFFICES ASSUME Len(T) > wide
               PROVE  /\ Len(A) = 0 /\ Len(C) = 0
                      /\ \/ Len(D) = 1 \/ Len(D) <= d.prec.v
                         \/ D[1] # 0
    OBVIOUS
  <2>1. pad = 0
    <3>1. CASE size > 0
      <4>1. Len(T) = w
        BY <3>1, <1>22, <1>20, <1>21, <1>11
      <4> QED
        BY <4>1, <1>11
    <3>2. CASE ~(size > 0)
      BY <3>2, <1>21
    <3> QED
      BY <3>1, <3>2
  <2>2. Len(A) = 0 /\ Len(C) = 0 /\ Len(D) = precision
    BY <2>1, <1>15, <1>21
  <2>3. CASE P > n
    <3>1. Len(D) = P /\ P = d.prec.v
      BY <2>2, <2>3, <1>3, <1>17, <1>21
    <3> QED
      BY <2>2, <3>1, <1>3
  <2>4. CASE ~(P > n)
    <3>1. Len(D) = n /\ z = 0
      BY <2>2, <2>4, <1>3, <1>17, <1>21, <1>26
    <3>2. D[0 + 1] = t[n + 1 - 1]
      BY <3>1, <1>17, <1>27
    <3>3. D[1] = t[n]
      BY <3>2, <1>17
    <3> QED
      BY <2>2, <3>1, <3>3, <1>17
  <2> QED
    BY <2>3, <2>4, <1>3, <1>17
<1>32. Reads(T, d, Len(A), Len(C))
  <2>1. Value(D, base) = IF h # <<>> /\ h[1] = Minus THEN Pow2[U] - num ELSE num
    BY <1>12, <1>16, <1>29
  <2>2. wide = IF d.width = None /\ d.conv = "p" THEN 8
               ELSE IF d.width.v < 0 THEN -d.width.v ELSE d.width.v
    BY DEF wide, pointer
  <2>3. h = Sign(d.arg, d.flags \cup (IF d.conv = "d" THEN {"SIGN"} ELSE {})) \o Prefix(Base(d.conv), d.flags)
    BY DEF h, sign, prefix, sg, num, base
  <2>4. ReadsAs(T, d, Len(A), Len(C), wide, left, h, B, D)
    BY <2>1, <1>18, <1>23, <1>24, <1>25, <1>28, <1>30, <1>31 DEF ReadsAs, B, base, num
  <2>5. B = SubSeq(T, Len(A) + 1, Len(T) - Len(C)) /\ D = SubSeq(B, Len(h) + 1, Len(B))
    BY <1>18, <1>19 DEF B
  <2>6. left = ("-" \in d.flags \/ (d.width.star /\ d.width.v < 0))
    BY DEF left
  <2> QED
    BY <2>2, <2>3, <2>4, <2>5, <2>6, Zenon DEF Reads, ReadsAs
<1>33. Says(T, d)
  <2>1. d.conv \notin {"c", "s"}
    BY <1>1
  <2>2. B \in Seq(Int)
    BY <1>18 DEF B
  <2>3. IF d.conv \in {"c", "s"} THEN Shows(A \o B \o C, d, Len(A), Len(C))
        ELSE Reads(A \o B \o C, d, Len(A), Len(C))
    BY <2>1, <1>32 DEF T, B
  <2>4. Says(A \o B \o C, d)
    BY <2>2, <2>3, <1>15, FramedSays, Zenon
  <2> QED
    BY <2>4 DEF T, B
<1> QED
  BY <1>15, <1>33

-----------------------------------------------------------------------------
(* The theorems.                                                           *)

\* What is between two calls says which function was called.
Called == "fn" \in DOMAIN call

\* One step: a result is there only after a call from the idle state.
LEMMA Steps ==
    ASSUME Called, [Next]_call
    PROVE  /\ Called'
           /\ \/ UNCHANGED call
              \/ Divide \/ Shift \/ Compare \/ Convert
              \/ Format /\ call'.fn = "vsprintf"
              \/ call'.fn = "names"
<1>1. CASE Divide
  BY <1>1 DEF Divide, Called
<1>2. CASE Shift
  BY <1>2 DEF Shift, Called
<1>3. CASE Format
  BY <1>3 DEF Format, Called
<1>4. CASE Compare
  BY <1>4 DEF Compare, Called
<1>5. CASE Convert
  <2>1. \E f, g : call' = [fn |-> "upper", up |-> f] \/ call' = [fn |-> "search", key |-> f, val |-> g]
    BY <1>5, Zenon DEF Convert
  <2>2. Called'
    BY <2>1 DEF Called
  <2> QED
    BY <2>2, <1>5
<1>6. CASE Program
  BY <1>6 DEF Program, Called
<1>7. CASE Step
  <2>1. call' = [call EXCEPT !.v = Do(@, Head(call.todo)), !.todo = Tail(@)] /\ call.fn = "names"
    BY <1>7 DEF Step
  <2>2. "fn" \in DOMAIN call' /\ call'.fn = call.fn
    BY <2>1 DEF Called
  <2> QED
    BY <2>1, <2>2 DEF Called
<1>8. CASE UNCHANGED call
  BY <1>8 DEF Called
<1> QED
  BY <1>1, <1>2, <1>3, <1>4, <1>5, <1>6, <1>7, <1>8 DEF Next

\* The shifts and divisions of arith64.c return what the compiler expects of
\* them, for every width of a register that is a power of two: products and
\* quotients by powers of two, and quotient and remainder of every two words,
\* unsigned and signed, the lowest number by -1 included.
THEOREM ArithmeticCorrect == Spec => []Exact
<1>1. Init => Called /\ Exact
  BY DEF Init, Called, Exact
<1>2. Called /\ Exact /\ [Next]_call => Called' /\ Exact'
  <2> SUFFICES ASSUME Called, Exact, [Next]_call PROVE Called' /\ Exact'
    OBVIOUS
  <2>1. Called'
    BY Steps
  <2>2. CASE UNCHANGED call
    BY <2>1, <2>2 DEF Exact
  <2>3. CASE Divide
    <3>1. PICK a \in Word, b \in Word :
            /\ b # 0
            /\ call' = [fn |-> "div", a |-> a, b |-> b, u |-> divmoddi4(a, b),
                        q |-> divdi3(a, b), r |-> moddi3(a, b)]
      BY <2>3, Zenon DEF Divide
    <3> DEFINE u == divmoddi4(a, b)
               sa == Signed(a)
               sb == Signed(b)
               q == Signed(divdi3(a, b))
               r == Signed(moddi3(a, b))
    <3>2. a = u.q * b + u.r /\ u.r \in 0 .. b - 1
      BY <3>1, Unsigned
    <3>3. Divides(sa, sb, q, r, Pow2[W - 1])
      BY <3>1, SignedDivided
    <3>4. /\ call'.fn = "div" /\ call'.a = a /\ call'.b = b /\ call'.u = u
          /\ call'.q = divdi3(a, b) /\ call'.r = moddi3(a, b)
      BY <3>1
    <3> HIDE DEF u
    <3>5. Exact'
      <4> SUFFICES \/ sa = q * sb + r /\ (r = 0 \/ (r < 0) = (sa < 0))
                      /\ (IF r < 0 THEN -r ELSE r) < (IF sb < 0 THEN -sb ELSE sb)
                   \/ sa = -Pow2[W - 1] /\ sb = -1 /\ q = sa /\ r = 0
        BY <3>2, <3>4, Zenon DEF Exact
      <4> HIDE DEF sa, sb, q, r
      <4> QED
        BY <3>3 DEF Divides
    <3> QED
      BY <2>1, <3>5
  <2>4. CASE Shift
    <3>1. PICK a \in Word, n \in 0 .. W - 1 :
            call' = [fn |-> "shift", a |-> a, n |-> n, left |-> ashldi3(a, n),
                     right |-> lshrdi3(a, n), sright |-> ashrdi3(a, n)]
      BY <2>4, Zenon DEF Shift
    <3>2. /\ ashldi3(a, n) = Trunc(a * Pow2[n]) /\ lshrdi3(a, n) = a \div Pow2[n]
          /\ Signed(ashrdi3(a, n)) = Signed(a) \div Pow2[n]
      BY LeftExact, RightExact, ArithmeticExact, Zenon
    <3>3. /\ call'.fn = "shift" /\ call'.a = a /\ call'.n = n /\ call'.left = ashldi3(a, n)
          /\ call'.right = lshrdi3(a, n) /\ call'.sright = ashrdi3(a, n)
      BY <3>1
    <3>4. "shift" # "div"
      OBVIOUS
    <3>5. Exact'
      BY <3>2, <3>3, <3>4, Zenon DEF Exact
    <3> QED
      BY <2>1, <3>5
  <2>5. CASE Compare
    BY <2>1, <2>5 DEF Compare, Exact
  <2>6. CASE Convert
    <3>1. \E f, g : call' = [fn |-> "upper", up |-> f] \/ call' = [fn |-> "search", key |-> f, val |-> g]
      BY <2>6, Zenon DEF Convert
    <3> QED
      BY <2>1, <3>1 DEF Exact
  <2>7. CASE call'.fn \in {"vsprintf", "names"}
    BY <2>1, <2>7 DEF Exact
  <2> QED
    BY <2>2, <2>3, <2>4, <2>5, <2>6, <2>7, Steps
<1> QED
  BY <1>1, <1>2, PTL DEF Spec

\* strcmp and strncmp of string.c, for all strings: strcmp orders them and
\* calls the same strings equal only; strncmp with the length of its first
\* argument tells a prefix, as the look-up of paths needs it.
THEOREM StringsCorrect == Spec => []Compares
<1>1. Init => Called /\ Compares
  BY DEF Init, Called, Compares
<1>2. Called /\ Compares /\ [Next]_call => Called' /\ Compares'
  <2> SUFFICES ASSUME Called, Compares, [Next]_call PROVE Called' /\ Compares'
    OBVIOUS
  <2>1. Called'
    BY Steps
  <2>2. CASE UNCHANGED call
    BY <2>1, <2>2 DEF Compares
  <2>3. CASE Divide
    BY <2>1, <2>3 DEF Divide, Compares
  <2>4. CASE Shift
    BY <2>1, <2>4 DEF Shift, Compares
  <2>5. CASE Compare
    <3>1. PICK l \in Strings, r \in Strings :
            call' = [fn |-> "cmp", l |-> l, r |-> r, all |-> strcmp(l, r),
                     head |-> strncmp(l, r, Len(l))]
      BY <2>5, Zenon DEF Compare
    <3>2. /\ (strcmp(l, r) = 0) = (l = r) /\ strcmp(l, r) = -strcmp(r, l)
          /\ (strncmp(l, r, Len(l)) = 0) = IsPrefix(l, r)
      <4>1. IsPrefix(l, r) \in BOOLEAN
        BY DEF IsPrefix
      <4> QED
        BY <4>1, SameStrings, OppositeOrder, HeadCompared
    <3>3. /\ call'.l = l /\ call'.r = r /\ call'.all = strcmp(l, r)
          /\ call'.head = strncmp(l, r, Len(l))
      BY <3>1
    <3>4. Compares'
      BY <3>2, <3>3, Zenon DEF Compares
    <3> QED
      BY <2>1, <3>4
  <2>6. CASE Convert
    <3>1. \E f, g : call' = [fn |-> "upper", up |-> f] \/ call' = [fn |-> "search", key |-> f, val |-> g]
      BY <2>6, Zenon DEF Convert
    <3> QED
      BY <2>1, <3>1 DEF Compares
  <2>7. CASE call'.fn \in {"vsprintf", "names"}
    BY <2>1, <2>7 DEF Compares
  <2> QED
    BY <2>2, <2>3, <2>4, <2>5, <2>6, <2>7, Steps
<1> QED
  BY <1>1, <1>2, PTL DEF Spec

\* The search of ff_uni2oem and ff_oem2uni finds every entry of a table of up
\* to 2^15 entries in its 16 probes, and answers 0 for every other key.
THEOREM SearchCorrect == Spec => []Searches
<1>1. Init => Called /\ Searches
  BY DEF Init, Called, Searches
<1>2. Called /\ Searches /\ [Next]_call => Called' /\ Searches'
  <2> SUFFICES ASSUME Called, Searches, [Next]_call PROVE Called' /\ Searches'
    OBVIOUS
  <2>1. Called'
    BY Steps
  <2>2. CASE UNCHANGED call
    BY <2>1, <2>2 DEF Searches
  <2>3. CASE Divide
    BY <2>1, <2>3 DEF Divide, Searches
  <2>4. CASE Shift
    BY <2>1, <2>4 DEF Shift, Searches
  <2>5. CASE Compare
    BY <2>1, <2>5 DEF Compare, Searches
  <2>6. CASE Convert
    <3>1. CASE \E f : call' = [fn |-> "upper", up |-> f]
      BY <2>1, <3>1 DEF Searches
    <3>2. CASE \E x \in 1 .. 2 * Entries :
                 call' = [fn |-> "search", key |-> x, val |-> Search(Table, Entries, x)]
      <4>1. PICK x \in 1 .. 2 * Entries :
              call' = [fn |-> "search", key |-> x, val |-> Search(Table, Entries, x)]
        BY <3>2
      <4>2. Search(Table, Entries, x) = IF x % 2 = 1 THEN (x + 1) \div 2 ELSE 0
        BY SearchIs
      <4>3. call'.key = x /\ call'.val = Search(Table, Entries, x)
        BY <4>1
      <4>4. Searches'
        BY <4>2, <4>3, Zenon DEF Searches
      <4> QED
        BY <2>1, <4>4
    <3> QED
      BY <2>6, <3>1, <3>2, Zenon DEF Convert
  <2>7. CASE call'.fn \in {"vsprintf", "names"}
    BY <2>1, <2>7 DEF Searches
  <2> QED
    BY <2>2, <2>3, <2>4, <2>5, <2>6, <2>7, Steps
<1> QED
  BY <1>1, <1>2, PTL DEF Spec

\* The text vsprintf writes for a directive reads back as its argument, in the
\* width and with the precision asked for, whatever its flags; of a string it
\* shows what the precision leaves.
THEOREM FormattingCorrect == Spec => []ReadsBack
<1>1. Init => Called /\ ReadsBack
  BY DEF Init, Called, ReadsBack
<1>2. Called /\ ReadsBack /\ [Next]_call => Called' /\ ReadsBack'
  <2> SUFFICES ASSUME Called, ReadsBack, [Next]_call PROVE Called' /\ ReadsBack'
    OBVIOUS
  <2>1. Called'
    BY Steps
  <2>2. CASE UNCHANGED call
    BY <2>1, <2>2 DEF ReadsBack
  <2>3. CASE Divide
    BY <2>1, <2>3 DEF Divide, ReadsBack
  <2>4. CASE Shift
    BY <2>1, <2>4 DEF Shift, ReadsBack
  <2>5. CASE Compare
    BY <2>1, <2>5 DEF Compare, ReadsBack
  <2>6. CASE Convert
    <3>1. \E f, g : call' = [fn |-> "upper", up |-> f] \/ call' = [fn |-> "search", key |-> f, val |-> g]
      BY <2>6, Zenon DEF Convert
    <3> QED
      BY <2>1, <3>1 DEF ReadsBack
  <2>7. CASE Format
    <3>1. PICK d \in Directives : call' = [fn |-> "vsprintf", d |-> d, text |-> vsprintf(d)]
      BY <2>7 DEF Format
    <3>2. Says(vsprintf(d), d)
      <4>1. IF d.conv \in {"c", "s"} THEN d \in TextDirective ELSE d \in NumberDirective
        BY DirectivesGiven
      <4> QED
        BY <4>1, TextSays, NumberSays
    <3>3. call'.d = d /\ call'.text = vsprintf(d)
      BY <3>1
    <3>4. ReadsBack'
      BY <3>2, <3>3, Zenon DEF ReadsBack
    <3> QED
      BY <2>1, <3>4
  <2>8. CASE call'.fn = "names"
    BY <2>1, <2>8 DEF ReadsBack
  <2> QED
    BY <2>2, <2>3, <2>4, <2>5, <2>6, <2>7, <2>8, Steps
<1> QED
  BY <1>1, <1>2, PTL DEF Spec
=============================================================================
