--------------------------- MODULE ConsoleProofs ---------------------------
(***************************************************************************)
(* For any number of user tasks: the start-up stack has one user at a      *)
(* time, and on one processor the busy flag is exact, those who wait never *)
(* help the holder, and a user task shows only its own text.               *)
(*                                                                         *)
(* Why the last two hold: a task that waits stays in the ring, so the      *)
(* processor never goes to task 0, which alone can hold the device         *)
(* (Waiting); nobody waits and finds the device free.                      *)
(***************************************************************************)
EXTENDS Console, SequenceTheorems, FiniteSetTheorems, TLAPS

InRing(t) == \E i \in DOMAIN ring : ring[i] = t
Alive == {"user"} \cup Spinning
OnStack(a) == pc[a] \in Printing \cup {"release"}

(* The ring holds the living user tasks, once each. *)
RingInv ==
    /\ ring \in Seq(User) /\ IsInjective(ring)
    /\ created \in 0 .. MaxUser
    /\ current \in {0} \cup User
    /\ current # 0 => InRing(current)
    /\ pc \in [Actor -> Label]
    /\ \A u \in User : InRing(u) <=> pc[u] \in Alive
    /\ \A u \in User : created < u => pc[u] = "off"
    /\ \A u \in User : pc[u] \in Alive \cup {"off", "done"}

OtherTypes ==
    /\ phase \in {1, 2} /\ using \in {0, 1} /\ buf \in Actor \cup {None}
    /\ shown \in [Actor -> Actor \cup {None}]
    /\ ap_locker \in {0, 1} /\ stray \in BOOLEAN

StackInv ==
    /\ \A a, b \in Ap : OnStack(a) /\ OnStack(b) => a = b
    /\ \A a \in Ap : OnStack(a) => ap_locker = 0

(* On one processor. *)
Waiting ==
    /\ using = 1 <=> InDriver(0)
    /\ \A u \in User : pc[u] \in Spinning => using = 1 /\ current # 0
    /\ \A u \in User : shown[u] \in {None, u}

-----------------------------------------------------------------------------
LEMMA Actors ==
    /\ 0 \in Actor /\ User \subseteq Actor /\ Ap \subseteq Actor
    /\ 0 \notin User /\ 0 \notin Ap /\ User \cap Ap = {} /\ User \subseteq Nat
BY ConsoleAssumption DEF Actor, User

(* The ring as a sequence without repetition.                              *)
LEMMA PlaceIs ==
    ASSUME RingInv, NEW t, t # 0, InRing(t)
    PROVE  Place(t) \in 1 .. Len(ring) /\ ring[Place(t)] = t
<1>1. DOMAIN ring = 1 .. Len(ring)
  BY DEF RingInv
<1>2. \E i \in DOMAIN ring : ring[i] = t
  BY DEF InRing
<1> QED
  BY <1>1, <1>2 DEF Place

LEMMA PlaceRange ==
    ASSUME RingInv, NEW t, t = 0 \/ InRing(t)
    PROVE  Place(t) \in 0 .. Len(ring)
<1>1. Len(ring) \in Nat
  BY DEF RingInv
<1> QED
  BY <1>1, PlaceIs DEF Place

(* The turn goes to a user task if there is one, and to another one if     *)
(* there are two.                                                          *)
LEMMA NextTurn ==
    ASSUME RingInv, NEW t, t = 0 \/ InRing(t), ring # <<>>
    PROVE  /\ After(t) \in User /\ InRing(After(t))
           /\ t # 0 /\ After(t) = t => Len(ring) = 1
<1> DEFINE n == Len(ring)
           p == Place(t)
           q == (p % n) + 1
<1>1. n \in Nat \ {0} /\ p \in 0 .. n /\ DOMAIN ring = 1 .. n
  BY PlaceRange DEF RingInv
<1>2. t # 0 => ring[p] = t /\ p \in 1 .. n
  BY PlaceIs
<1>3. After(t) = ring[q]
  BY DEF After
<1> HIDE DEF n, p
<1>4. q = IF p = n THEN 1 ELSE p + 1
  BY <1>1
<1> HIDE DEF q
<1>5. q \in 1 .. n
  BY <1>1, <1>4
<1>6. ring[q] \in User /\ InRing(ring[q])
  BY <1>1, <1>5 DEF RingInv, InRing
<1>7. ASSUME t # 0, After(t) = t PROVE n = 1
  <2>1. ring[q] = ring[p] /\ q \in DOMAIN ring /\ p \in DOMAIN ring
    BY <1>1, <1>2, <1>3, <1>5, <1>7
  <2>2. q = p
    BY <2>1 DEF RingInv, IsInjective
  <2> QED
    BY <2>2, <1>1, <1>4
<1> QED
  BY <1>3, <1>6, <1>7 DEF n

LEMMA Turn ==
    ASSUME RingInv, NEW t, t = 0 \/ InRing(t)
    PROVE  After(t) \in {0} \cup User /\ (After(t) # 0 => InRing(After(t)))
BY NextTurn DEF After

LEMMA RingAdd ==
    ASSUME RingInv, NEW t, t = 0 \/ InRing(t), NEW new \in User, ~InRing(new), AddBehind(t, new)
    PROVE  /\ ring' \in Seq(User) /\ IsInjective(ring')
           /\ \A u : InRing(u)' <=> InRing(u) \/ u = new
<1> DEFINE n == Len(ring)
           k == Place(t) + 1
           l == SubSeq(ring, 1, k - 1)
           r == SubSeq(ring, k, n)
           m == l \o <<new>>
           s == m \o r
<1>1. n \in Nat /\ k \in 1 .. n + 1 /\ ring \in Seq(User) /\ DOMAIN ring = 1 .. n
  <2>1. n \in Nat /\ Place(t) \in 0 .. n
    BY PlaceRange DEF RingInv
  <2> HIDE DEF n
  <2>2. k \in 1 .. n + 1
    BY <2>1
  <2> QED
    BY <2>1, <2>2 DEF RingInv, n
<1>2. ring' = s
  BY DEF AddBehind, InsertAt
<1> HIDE DEF k, n
<1>3. \A i \in 1 .. n : ring[i] \in User
  BY <1>1
<1>4. l \in Seq(User) /\ Len(l) = k - 1 /\ \A i \in 1 .. k - 1 : l[i] = ring[i]
  BY <1>1, <1>3, SubSeqProperties
<1>5. r \in Seq(User) /\ Len(r) = n - k + 1 /\ \A i \in 1 .. n - k + 1 : r[i] = ring[k + i - 1]
  BY <1>1, <1>3, SubSeqProperties
<1> HIDE DEF l, r
<1>6. <<new>> \in Seq(User) /\ Len(<<new>>) = 1 /\ <<new>>[1] = new
  OBVIOUS
<1>7. m \in Seq(User) /\ Len(m) = k /\ \A i \in 1 .. k : m[i] = IF i = k THEN new ELSE ring[i]
  BY <1>1, <1>4, <1>6, ConcatProperties
<1> HIDE DEF m
<1>8. /\ s \in Seq(User) /\ Len(s) = n + 1
      /\ \A i \in 1 .. n + 1 : s[i] = IF i <= k THEN m[i] ELSE r[i - k]
  BY <1>1, <1>5, <1>7, ConcatProperties
<1> HIDE DEF s
<1>9. DOMAIN s = 1 .. n + 1
  BY <1>1, <1>8
<1>10. \A i \in 1 .. n + 1 : s[i] = IF i < k THEN ring[i] ELSE IF i = k THEN new ELSE ring[i - 1]
  <2> SUFFICES ASSUME NEW i \in 1 .. n + 1
               PROVE  s[i] = IF i < k THEN ring[i] ELSE IF i = k THEN new ELSE ring[i - 1]
    OBVIOUS
  <2>1. CASE i <= k
    BY <2>1, <1>1, <1>7, <1>8
  <2>2. CASE i > k
    <3>1. i - k \in 1 .. n - k + 1 /\ k + (i - k) - 1 = i - 1
      BY <2>2, <1>1
    <3>2. s[i] = r[i - k]
      BY <2>2, <1>1, <1>8
    <3>3. r[i - k] = ring[k + (i - k) - 1]
      BY <3>1, <1>5
    <3>4. ~(i < k) /\ i # k
      BY <2>2, <1>1
    <3> QED
      BY <3>1, <3>2, <3>3, <3>4
  <2> QED
    BY <2>1, <2>2, <1>1
<1>11. \A i \in DOMAIN ring : ring[i] # new
  BY DEF InRing
<1>12. IsInjective(s)
  <2> SUFFICES ASSUME NEW i \in 1 .. n + 1, NEW j \in 1 .. n + 1, s[i] = s[j] PROVE i = j
    BY <1>9 DEF IsInjective
  <2>1. \A x, y \in 1 .. n : ring[x] = ring[y] => x = y
    BY <1>1 DEF RingInv, IsInjective
  <2>2. i < k => i \in 1 .. n
    BY <1>1
  <2>3. i > k => i - 1 \in 1 .. n
    BY <1>1
  <2>4. j < k => j \in 1 .. n
    BY <1>1
  <2>5. j > k => j - 1 \in 1 .. n
    BY <1>1
  <2>6. CASE i < k
    BY <2>6, <2>1, <2>2, <2>4, <2>5, <1>1, <1>10, <1>11
  <2>7. CASE i = k
    BY <2>7, <2>1, <2>4, <2>5, <1>1, <1>10, <1>11
  <2>8. CASE i > k
    BY <2>8, <2>1, <2>3, <2>4, <2>5, <1>1, <1>10, <1>11
  <2> QED
    BY <2>6, <2>7, <2>8, <1>1
<1>13. ASSUME NEW u PROVE (\E i \in DOMAIN s : s[i] = u) <=> InRing(u) \/ u = new
  <2>1. ASSUME NEW i \in DOMAIN s, s[i] = u PROVE InRing(u) \/ u = new
    <3>1. CASE i < k
      <4>1. i \in DOMAIN ring
        BY <3>1, <2>1, <1>1, <1>9
      <4> QED
        BY <4>1, <3>1, <2>1, <1>9, <1>10 DEF InRing
    <3>2. CASE i = k
      BY <3>2, <2>1, <1>9, <1>10, <1>1
    <3>3. CASE i > k
      <4>1. i - 1 \in DOMAIN ring
        BY <3>3, <2>1, <1>1, <1>9
      <4>2. s[i] = ring[i - 1]
        BY <3>3, <1>1, <1>9, <1>10
      <4> QED
        BY <4>1, <4>2, <2>1 DEF InRing
    <3> QED
      BY <3>1, <3>2, <3>3, <1>1, <1>9
  <2>2. ASSUME InRing(u) PROVE \E i \in DOMAIN s : s[i] = u
    <3>1. PICK j \in 1 .. n : ring[j] = u
      BY <2>2, <1>1 DEF InRing
    <3>2. CASE j < k
      <4>1. j \in DOMAIN s /\ s[j] = u
        BY <3>1, <3>2, <1>1, <1>9, <1>10
      <4> QED
        BY <4>1
    <3>3. CASE j >= k
      <4>1. j + 1 \in DOMAIN s /\ s[j + 1] = u
        BY <3>1, <3>3, <1>1, <1>9, <1>10
      <4> QED
        BY <4>1
    <3> QED
      BY <3>2, <3>3, <1>1
  <2>3. k \in DOMAIN s /\ s[k] = new
    BY <1>1, <1>9, <1>10
  <2> QED
    BY <2>1, <2>2, <2>3
<1> QED
  BY <1>2, <1>8, <1>12, <1>13 DEF InRing

LEMMA RingRemove ==
    ASSUME RingInv, NEW t \in User, InRing(t), ring' = RemoveAt(ring, Place(t))
    PROVE  /\ ring' \in Seq(User) /\ IsInjective(ring')
           /\ \A u : InRing(u)' <=> InRing(u) /\ u # t
<1> DEFINE n == Len(ring)
           k == Place(t)
           l == SubSeq(ring, 1, k - 1)
           r == SubSeq(ring, k + 1, n)
           s == l \o r
<1>1. /\ n \in Nat /\ k \in 1 .. n /\ ring[k] = t /\ ring \in Seq(User) /\ DOMAIN ring = 1 .. n
  <2>1. t # 0
    BY Actors
  <2>2. Place(t) \in 1 .. Len(ring) /\ ring[Place(t)] = t
    BY <2>1, PlaceIs
  <2> QED
    BY <2>2 DEF RingInv
<1>2. ring' = s
  BY DEF RemoveAt
<1> HIDE DEF k, n
<1>3. \A i \in 1 .. n : ring[i] \in User
  BY <1>1
<1>4. l \in Seq(User) /\ Len(l) = k - 1 /\ \A i \in 1 .. k - 1 : l[i] = ring[i]
  BY <1>1, <1>3, SubSeqProperties
<1>5. /\ r \in Seq(User) /\ Len(r) = n - k
      /\ \A i \in 1 .. n - (k + 1) + 1 : r[i] = ring[(k + 1) + i - 1]
  BY <1>1, <1>3, SubSeqProperties
<1> HIDE DEF l, r
<1>6. /\ s \in Seq(User) /\ Len(s) = (k - 1) + (n - k)
      /\ \A i \in 1 .. (k - 1) + (n - k) : s[i] = IF i <= k - 1 THEN l[i] ELSE r[i - (k - 1)]
  <2>1. /\ s \in Seq(User) /\ Len(s) = Len(l) + Len(r)
        /\ \A i \in 1 .. Len(l) + Len(r) : s[i] = IF i <= Len(l) THEN l[i] ELSE r[i - Len(l)]
    BY <1>4, <1>5, ConcatProperties
  <2>2. Len(l) = k - 1 /\ Len(r) = n - k
    BY <1>4, <1>5
  <2> HIDE DEF s
  <2> QED
    BY <2>1, <2>2
<1> HIDE DEF s
<1>7. DOMAIN s = 1 .. n - 1
  BY <1>1, <1>6
<1>8. \A i \in 1 .. n - 1 : s[i] = IF i < k THEN ring[i] ELSE ring[i + 1]
  <2> SUFFICES ASSUME NEW i \in 1 .. n - 1
               PROVE  s[i] = IF i < k THEN ring[i] ELSE ring[i + 1]
    OBVIOUS
  <2>1. CASE i < k
    BY <2>1, <1>1, <1>4, <1>6
  <2>2. CASE ~(i < k)
    <3> DEFINE j == i - (k - 1)
    <3>1. j \in 1 .. n - (k + 1) + 1 /\ (k + 1) + j - 1 = i + 1
      BY <2>2, <1>1
    <3>2. s[i] = r[j]
      BY <2>2, <1>1, <1>6
    <3> HIDE DEF j
    <3>3. r[j] = ring[(k + 1) + j - 1]
      BY <3>1, <1>5
    <3> QED
      BY <3>1, <3>2, <3>3, <2>2
  <2> QED
    BY <2>1, <2>2
<1>9. \A x, y \in 1 .. n : ring[x] = ring[y] => x = y
  BY <1>1 DEF RingInv, IsInjective
<1>10. IsInjective(s)
  <2> SUFFICES ASSUME NEW i \in 1 .. n - 1, NEW j \in 1 .. n - 1, s[i] = s[j] PROVE i = j
    BY <1>7 DEF IsInjective
  <2>1. i \in 1 .. n /\ i + 1 \in 1 .. n /\ j \in 1 .. n /\ j + 1 \in 1 .. n
    BY <1>1
  <2>2. CASE i < k
    BY <2>1, <2>2, <1>1, <1>8, <1>9
  <2>3. CASE ~(i < k)
    BY <2>1, <2>3, <1>1, <1>8, <1>9
  <2> QED
    BY <2>2, <2>3
<1>11. ASSUME NEW u PROVE (\E i \in DOMAIN s : s[i] = u) <=> InRing(u) /\ u # t
  <2>1. ASSUME NEW i \in DOMAIN s, s[i] = u PROVE InRing(u) /\ u # t
    <3>1. CASE i < k
      <4>1. i \in 1 .. n /\ ring[i] = u /\ i # k
        BY <3>1, <2>1, <1>1, <1>7, <1>8
      <4> QED
        BY <4>1, <1>1, <1>9 DEF InRing
    <3>2. CASE ~(i < k)
      <4>1. i + 1 \in 1 .. n /\ ring[i + 1] = u /\ i + 1 # k
        BY <3>2, <2>1, <1>1, <1>7, <1>8
      <4> QED
        BY <4>1, <1>1, <1>9 DEF InRing
    <3> QED
      BY <3>1, <3>2
  <2>2. ASSUME InRing(u), u # t PROVE \E i \in DOMAIN s : s[i] = u
    <3>1. PICK j \in 1 .. n : ring[j] = u
      BY <2>2, <1>1 DEF InRing
    <3>2. j # k
      BY <3>1, <2>2, <1>1
    <3>3. CASE j < k
      <4>1. j \in DOMAIN s /\ s[j] = u
        BY <3>1, <3>3, <1>1, <1>7, <1>8
      <4> QED
        BY <4>1
    <3>4. CASE j > k
      <4>1. j - 1 \in DOMAIN s /\ s[j - 1] = u
        <5>1. j - 1 \in 1 .. n - 1 /\ ~(j - 1 < k) /\ (j - 1) + 1 = j
          BY <3>1, <3>4, <1>1
        <5> QED
          BY <5>1, <3>1, <1>7, <1>8
      <4> QED
        BY <4>1
    <3> QED
      BY <3>2, <3>3, <3>4, <1>1
  <2> QED
    BY <2>1, <2>2
<1> QED
  BY <1>2, <1>6, <1>10, <1>11 DEF InRing

-----------------------------------------------------------------------------
(* RingInv, step by step.                                                  *)
LEMMA RingSame ==
    ASSUME RingInv, UNCHANGED <<ring, created>>, pc' \in [Actor -> Label],
           current' \in {0} \cup User, current' # 0 => InRing(current'),
           \A u \in User : /\ pc'[u] \in Alive <=> pc[u] \in Alive
                           /\ pc[u] = "off" => pc'[u] = "off"
                           /\ pc'[u] \in Alive \cup {"off", "done"}
    PROVE  RingInv'
<1>1. \A u : InRing(u)' <=> InRing(u)
  BY DEF InRing
<1> QED
  BY <1>1 DEF RingInv

(* A new task takes the next number and a place in the ring.               *)
LEMMA RingCreate ==
    ASSUME RingInv, NEW t, t = 0 \/ InRing(t), created < MaxUser, created' = created + 1,
           AddBehind(t, created'), UNCHANGED current, pc' \in [Actor -> Label],
           \A u \in User : pc'[u] = IF u = created' THEN "user" ELSE pc[u]
    PROVE  RingInv'
<1>1. created' \in User /\ created' \in 0 .. MaxUser /\ created < created' /\ created \in Nat
  BY ConsoleAssumption DEF RingInv, User
<1>2. pc[created'] = "off"
  BY <1>1 DEF RingInv
<1>3. ~InRing(created')
  BY <1>1, <1>2 DEF RingInv, Alive, Spinning
<1>4. /\ ring' \in Seq(User) /\ IsInjective(ring')
      /\ \A u : InRing(u)' <=> InRing(u) \/ u = created'
  BY <1>1, <1>3, RingAdd
<1>5. \A u \in User : InRing(u)' <=> pc'[u] \in Alive
  BY <1>4 DEF RingInv, Alive
<1>6. \A u \in User : created' < u => pc'[u] = "off"
  <2> SUFFICES ASSUME NEW u \in User, created' < u PROVE pc'[u] = "off"
    OBVIOUS
  <2>1. u \in Nat /\ created < u /\ u # created'
    BY <1>1, Actors
  <2> QED
    BY <2>1 DEF RingInv
<1>7. \A u \in User : pc'[u] \in Alive \cup {"off", "done"}
  BY DEF RingInv, Alive
<1>8. current' \in {0} \cup User /\ (current' # 0 => InRing(current)')
  BY <1>4 DEF RingInv
<1> QED
  BY <1>1, <1>4, <1>5, <1>6, <1>7, <1>8 DEF RingInv

-----------------------------------------------------------------------------
(* The steps, each with what it does to the ring and the types.            *)
LEMMA Labels ==
    /\ Printing \cup {"start", "exec", "idle", "off", "lock", "release", "done", "user"} \subseteq Label
    /\ Alive \subseteq Label
    /\ Printing \cap Alive = {} /\ "off" \notin Alive /\ "done" \notin Alive
    /\ "user" \in Alive /\ Spinning \subseteq Alive /\ "user" \notin Spinning
BY DEF Printing, Label, Alive, Spinning

LEMMA RunsInRing ==
    ASSUME RingInv, NEW u \in User, CanRun(u)
    PROVE  current = u /\ u # 0 /\ InRing(u)
BY Actors DEF RingInv, CanRun

(* A step of a printk, of task 0's start-up or of another processor: no    *)
(* user task's place in its program changes, and the processor goes on     *)
(* with the ring's next task or stays.                                     *)
LEMMA RingKernel ==
    ASSUME RingInv, UNCHANGED <<ring, created>>, pc' \in [Actor -> Label],
           \A u \in User : pc'[u] = pc[u],
           current' = current \/ current' = After(current)
    PROVE  RingInv'
<1>1. current = 0 \/ InRing(current)
  BY DEF RingInv
<1>2. After(current) \in {0} \cup User /\ (After(current) # 0 => InRing(After(current)))
  BY <1>1, Turn
<1>3. current' \in {0} \cup User /\ (current' # 0 => InRing(current'))
  BY <1>2 DEF RingInv
<1> QED
  BY <1>3, RingSame DEF RingInv

LEMMA TypesOf == RingInv /\ OtherTypes => TypeOK
BY DEF RingInv, OtherTypes, TypeOK

LEMMA PrintkTypes ==
    ASSUME RingInv, OtherTypes, NEW x \in {0} \cup Ap, Printk(x)
    PROVE  /\ RingInv' /\ OtherTypes'
           /\ \A y \in Actor : y # x => pc'[y] = pc[y]
           /\ pc[x] \in Printing
<1>1. x \in Actor /\ x \notin User /\ pc \in [Actor -> Label]
  BY Actors DEF RingInv
<1>2. UNCHANGED <<ring, created>> /\ (current' = current \/ current' = After(current))
  BY DEF Printk, Format, TestFree, TestBusy, Enter, Write, Clear, Schedule
<1>3. /\ pc' \in [Actor -> Label] /\ pc[x] \in Printing
      /\ \A y \in Actor : y # x => pc'[y] = pc[y]
  BY <1>1 DEF Printk, Format, TestFree, TestBusy, Enter, Write, Clear, Label, Printing
<1>4. \A u \in User : pc'[u] = pc[u]
  BY <1>1, <1>3, Actors
<1>5. RingInv'
  BY <1>2, <1>3, <1>4, RingKernel
<1>6. OtherTypes'
  <2>1. CASE Format(x)
    BY <2>1, <1>1 DEF Format, OtherTypes
  <2>2. CASE TestFree(x)
    BY <2>2 DEF TestFree, OtherTypes
  <2>3. CASE TestBusy(x)
    BY <2>3 DEF TestBusy, OtherTypes
  <2>4. CASE Enter(x)
    BY <2>4 DEF Enter, OtherTypes
  <2>5. CASE Write(x)
    BY <2>5, <1>1 DEF Write, OtherTypes
  <2>6. CASE Clear(x)
    BY <2>6 DEF Clear, OtherTypes
  <2> QED
    BY <2>1, <2>2, <2>3, <2>4, <2>5, <2>6 DEF Printk
<1> QED
  BY <1>3, <1>5, <1>6

LEMMA UserTypes ==
    ASSUME RingInv, OtherTypes, NEW u \in User,
           UserExec(u) \/ UserWrite(u) \/ UserLog(u) \/ UserExit(u) \/ SpinBusy(u) \/ SpinFree(u)
    PROVE  /\ RingInv' /\ OtherTypes'
           /\ \A a \in {0} \cup Ap : pc'[a] = pc[a]
<1>1. u \in Actor /\ pc \in [Actor -> Label] /\ pc[u] \in Alive /\ CanRun(u)
  BY Actors, Labels DEF RingInv, UserExec, UserWrite, UserLog, UserExit, SpinBusy, SpinFree
<1>2. current = u /\ u # 0 /\ InRing(u)
  BY <1>1, RunsInRing
<1>3. CASE UserExec(u)
  <2>1. /\ created < MaxUser /\ created' = created + 1 /\ AddBehind(u, created')
        /\ UNCHANGED <<current, phase, using, buf, shown, ap_locker, stray>>
        /\ pc' = [pc EXCEPT ![created'] = "user"]
    BY <1>3 DEF UserExec
  <2>2. created' \in User
    BY <2>1, ConsoleAssumption DEF RingInv, User
  <2>3. pc' \in [Actor -> Label] /\ \A y \in Actor : pc'[y] = IF y = created' THEN "user" ELSE pc[y]
    BY <2>1, <1>1, Labels
  <2>4. RingInv'
    BY <1>2, <2>1, <2>3, RingCreate, Actors
  <2>5. OtherTypes'
    BY <2>1 DEF OtherTypes
  <2> QED
    BY <2>2, <2>3, <2>4, <2>5, Actors
<1>4. CASE UserExit(u)
  <2>1. /\ ring' = RemoveAt(ring, Place(u)) /\ pc' = [pc EXCEPT ![u] = "done"]
        /\ current' = IF After(u) = u THEN 0 ELSE After(u)
        /\ UNCHANGED <<created, phase, using, buf, shown, ap_locker, stray>> /\ pc[u] = "user"
    BY <1>4 DEF UserExit
  <2>2. /\ ring' \in Seq(User) /\ IsInjective(ring')
        /\ \A v : InRing(v)' <=> InRing(v) /\ v # u
    BY <1>2, <2>1, RingRemove
  <2>3. pc' \in [Actor -> Label] /\ \A y \in Actor : pc'[y] = IF y = u THEN "done" ELSE pc[y]
    BY <2>1, <1>1, Labels
  <2>4. After(u) \in {0} \cup User /\ (After(u) # 0 => InRing(After(u)))
    BY <1>2, Turn
  <2>5. current' \in {0} \cup User /\ (current' # 0 => InRing(current)')
    <3>1. current' \in {0} \cup User
      BY <2>1, <2>4
    <3>2. ASSUME current' # 0 PROVE InRing(current')
      BY <2>1, <2>4, <3>2
    <3>3. ASSUME current' # 0 PROVE current' # u
      BY <2>1, <3>3
    <3>4. \A v : (\E i \in DOMAIN ring' : ring'[i] = v) <=> InRing(v) /\ v # u
      BY <2>2 DEF InRing
    <3> QED
      BY <3>1, <3>2, <3>3, <3>4 DEF InRing
  <2>6. \A v \in User : InRing(v)' <=> pc'[v] \in Alive
    BY <2>2, <2>3, Actors, Labels DEF RingInv
  <2>7. \A v \in User : /\ created' < v => pc'[v] = "off"
                        /\ pc'[v] \in Alive \cup {"off", "done"}
    <3>1. created' = created
      BY <2>1
    <3>2. \A v \in User : created < v => v # u
      BY <2>1 DEF RingInv
    <3> QED
      BY <3>1, <3>2, <2>3, Actors DEF RingInv
  <2>8. RingInv'
    BY <2>1, <2>2, <2>3, <2>5, <2>6, <2>7 DEF RingInv
  <2>9. OtherTypes'
    BY <2>1 DEF OtherTypes
  <2> QED
    BY <2>3, <2>8, <2>9, Actors
<1>5. CASE SpinBusy(u)
  <2>1. /\ UNCHANGED <<ring, created, pc, phase, using, buf, shown, ap_locker, stray>>
        /\ current' = After(current)
    BY <1>5 DEF SpinBusy, Schedule
  <2>2. RingInv' /\ OtherTypes'
    BY <2>1, <1>1, RingKernel DEF OtherTypes
  <2> QED
    BY <2>1, <2>2
<1>6. CASE UserWrite(u) \/ UserLog(u) \/ SpinFree(u)
  <2>1. /\ UNCHANGED <<ring, created, current, phase, using, ap_locker, stray>>
        /\ \E l \in Alive : pc' = [pc EXCEPT ![u] = l]
    <3>1. pc = [pc EXCEPT ![u] = pc[u]]
      BY <1>1
    <3> QED
      BY <3>1, <1>1, <1>6 DEF UserWrite, UserLog, SpinFree, Alive, Spinning
  <2>2. PICK l \in Alive : pc' = [pc EXCEPT ![u] = l]
    BY <2>1
  <2>3. pc' \in [Actor -> Label] /\ \A y \in Actor : pc'[y] = IF y = u THEN l ELSE pc[y]
    BY <2>2, <1>1, Labels
  <2>4. current' \in {0} \cup User /\ (current' # 0 => InRing(current'))
    BY <2>1 DEF RingInv
  <2>5. \A v \in User : /\ pc'[v] \in Alive <=> pc[v] \in Alive
                        /\ pc[v] = "off" => pc'[v] = "off"
                        /\ pc'[v] \in Alive \cup {"off", "done"}
    BY <2>3, <1>1, Actors, Labels DEF RingInv
  <2>6. RingInv'
    BY <2>1, <2>3, <2>4, <2>5, RingSame
  <2>7. shown' \in [Actor -> Actor \cup {None}] /\ buf' \in Actor \cup {None}
    BY <1>1, <1>6 DEF UserWrite, UserLog, SpinFree, OtherTypes
  <2> QED
    BY <2>1, <2>3, <2>6, <2>7, Actors DEF OtherTypes
<1> QED
  BY <1>3, <1>4, <1>5, <1>6

UserStep(u) ==
    UserExec(u) \/ UserWrite(u) \/ UserLog(u) \/ UserExit(u) \/ SpinBusy(u) \/ SpinFree(u)

LEMMA BootExecTypes ==
    ASSUME RingInv, OtherTypes, BootExec
    PROVE  /\ RingInv' /\ OtherTypes' /\ current = 0 /\ pc[0] = "exec" /\ pc'[0] = "format"
           /\ \A u \in User : pc'[u] \in Spinning <=> pc[u] \in Spinning
           /\ \A a \in Ap : pc'[a] = pc[a]
<1>1. /\ created < MaxUser /\ created' = created + 1 /\ AddBehind(0, created')
      /\ UNCHANGED <<current, using, buf, shown, ap_locker, stray>> /\ phase' = 2
      /\ pc' = [pc EXCEPT ![0] = "format", ![created'] = "user"]
      /\ CanRun(0) /\ pc[0] = "exec"
  BY DEF BootExec
<1>2. created' \in User /\ pc \in [Actor -> Label] /\ pc[created'] = "off"
  BY <1>1, ConsoleAssumption DEF RingInv, User
<1>3. /\ pc' \in [Actor -> Label] /\ pc'[0] = "format"
      /\ \A y \in Actor : y # 0 => pc'[y] = IF y = created' THEN "user" ELSE pc[y]
  BY <1>1, <1>2, Actors, Labels DEF Label, Printing
<1>4. \A u \in User : pc'[u] = IF u = created' THEN "user" ELSE pc[u]
  BY <1>3, Actors
<1>5. RingInv'
  BY <1>1, <1>3, <1>4, RingCreate
<1>6. OtherTypes'
  BY <1>1 DEF OtherTypes
<1>7. current = 0
  BY <1>1, Actors DEF CanRun
<1>8. \A u \in User : pc'[u] \in Spinning <=> pc[u] \in Spinning
  BY <1>2, <1>4 DEF Spinning
<1>9. \A a \in Ap : pc'[a] = pc[a]
  BY <1>2, <1>3, Actors
<1> QED
  BY <1>1, <1>3, <1>5, <1>6, <1>7, <1>8, <1>9

LEMMA StartApsTypes ==
    ASSUME RingInv, OtherTypes, StartAps
    PROVE  /\ RingInv' /\ OtherTypes' /\ current = 0 /\ pc[0] = "start" /\ pc'[0] = "exec"
           /\ \A u \in User : pc'[u] = pc[u]
           /\ \A a \in Ap : pc'[a] = "lock"
<1>1. /\ pc' = [x \in Actor |-> IF x \in Ap THEN "lock" ELSE IF x = 0 THEN "exec" ELSE pc[x]]
      /\ UNCHANGED <<ring, created, current, phase, using, buf, shown, ap_locker, stray>>
      /\ CanRun(0) /\ pc[0] = "start"
  BY DEF StartAps
<1>2. /\ pc' \in [Actor -> Label] /\ pc'[0] = "exec"
      /\ \A u \in User : pc'[u] = pc[u]
      /\ \A a \in Ap : pc'[a] = "lock"
  BY <1>1, Actors DEF RingInv, Label
<1>3. RingInv'
  BY <1>1, <1>2, RingKernel
<1> QED
  BY <1>1, <1>2, <1>3, Actors DEF OtherTypes, CanRun

LEMMA LockerTypes ==
    ASSUME RingInv, OtherTypes, NEW a \in Ap, GetLocker(a) \/ ReleaseLocker(a)
    PROVE  /\ RingInv' /\ OtherTypes'
           /\ \A y \in Actor : y # a => pc'[y] = pc[y]
           /\ UNCHANGED <<current, using, shown>>
<1>1. /\ UNCHANGED <<ring, created, current, phase, using, buf, shown, stray>>
      /\ ap_locker' \in {0, 1}
      /\ pc' = [pc EXCEPT ![a] = "format"] \/ pc' = [pc EXCEPT ![a] = "done"]
  BY DEF GetLocker, ReleaseLocker
<1>2. /\ pc' \in [Actor -> Label]
      /\ \A y \in Actor : y # a => pc'[y] = pc[y]
  BY <1>1, Actors DEF RingInv, Label, Printing
<1>3. \A u \in User : pc'[u] = pc[u]
  BY <1>2, Actors
<1>4. RingInv'
  BY <1>1, <1>2, <1>3, RingKernel
<1> QED
  BY <1>1, <1>2, <1>4 DEF OtherTypes

LEMMA TickTypes ==
    ASSUME RingInv, OtherTypes, Tick
    PROVE  RingInv' /\ OtherTypes' /\ UNCHANGED <<pc, using, shown, ap_locker>>
<1>1. /\ UNCHANGED <<ring, created, pc, phase, using, buf, shown, ap_locker, stray>>
      /\ current' = After(current)
  BY DEF Tick, Schedule
<1>2. RingInv'
  BY <1>1, RingKernel DEF RingInv
<1> QED
  BY <1>1, <1>2 DEF OtherTypes

LEMMA NextKinds ==
    ASSUME Next
    PROVE  \/ Tick \/ StartAps \/ BootExec
           \/ \E x \in {0} \cup Ap : Printk(x)
           \/ \E a \in Ap : GetLocker(a) \/ ReleaseLocker(a)
           \/ \E u \in User : UserStep(u)
BY DEF Next, UserStep

LEMMA TypesStep == RingInv /\ OtherTypes /\ [Next]_vars => RingInv' /\ OtherTypes'
<1> SUFFICES ASSUME RingInv, OtherTypes, [Next]_vars PROVE RingInv' /\ OtherTypes'
  OBVIOUS
<1>1. CASE UNCHANGED vars
  BY <1>1 DEF vars, RingInv, OtherTypes, InRing
<1>2. CASE Next
  BY <1>2, NextKinds, TickTypes, StartApsTypes, BootExecTypes, PrintkTypes, LockerTypes,
     UserTypes DEF UserStep
<1> QED
  BY <1>1, <1>2

LEMMA TypesInit == Init => RingInv /\ OtherTypes
<1> SUFFICES ASSUME Init PROVE RingInv /\ OtherTypes
  OBVIOUS
<1>1. ring = <<>> /\ DOMAIN ring = {} /\ created = 0 /\ current = 0
  BY DEF Init
<1>2. pc \in [Actor -> Label] /\ \A x \in Actor : pc[x] = IF x = 0 THEN "format" ELSE "off"
  BY DEF Init, Label, Printing
<1>3. \A u \in User : pc[u] = "off"
  BY <1>2, Actors
<1>4. RingInv
  BY <1>1, <1>2, <1>3, ConsoleAssumption DEF RingInv, InRing, IsInjective, Alive, Spinning
<1>5. OtherTypes
  BY DEF Init, OtherTypes
<1> QED
  BY <1>4, <1>5

-----------------------------------------------------------------------------
(* The start-up stack.                                                     *)
LEMMA StackStep ==
    ASSUME RingInv, OtherTypes, StackInv, Next
    PROVE  StackInv'
<1>0. pc \in [Actor -> Label] /\ Ap \subseteq Actor
  BY Actors DEF RingInv
<1>1. ASSUME ap_locker' = ap_locker, \A a \in Ap : OnStack(a)' <=> OnStack(a) PROVE StackInv'
  BY <1>1 DEF StackInv
<1>2. CASE Tick
  BY <1>2, <1>1, TickTypes DEF OnStack
<1>3. CASE StartAps
  <2>1. \A a \in Ap : ~OnStack(a)'
    BY <1>3, StartApsTypes DEF OnStack, Printing
  <2> QED
    BY <2>1 DEF StackInv
<1>4. CASE BootExec
  <2>1. ap_locker' = ap_locker
    BY <1>4 DEF BootExec
  <2> QED
    BY <1>4, <2>1, <1>1, BootExecTypes DEF OnStack
<1>5. ASSUME NEW x \in {0} \cup Ap, Printk(x) PROVE StackInv'
  <2>1. ap_locker' = ap_locker
    BY <1>5 DEF Printk, Format, TestFree, TestBusy, Enter, Write, Clear
  <2>2. \A y \in Actor : y # x => pc'[y] = pc[y]
    BY <1>5, PrintkTypes
  <2>3. ASSUME x \in Ap PROVE OnStack(x)' /\ OnStack(x)
    BY <1>0, <1>5, <2>3 DEF Printk, Format, TestFree, TestBusy, Enter, Write, Clear, OnStack, Printing
  <2>4. \A a \in Ap : OnStack(a)' <=> OnStack(a)
    BY <1>0, <2>2, <2>3 DEF OnStack
  <2> QED
    BY <2>1, <2>4, <1>1
<1>6. ASSUME NEW a \in Ap, GetLocker(a) PROVE StackInv'
  <2>1. \A b \in Ap : ~OnStack(b)
    BY <1>6 DEF GetLocker, StackInv
  <2>2. \A b \in Ap : OnStack(b)' => b = a
    BY <1>0, <1>6, <2>1, LockerTypes DEF OnStack
  <2>3. ap_locker' = 0
    BY <1>6 DEF GetLocker
  <2> QED
    BY <2>2, <2>3 DEF StackInv
<1>7. ASSUME NEW a \in Ap, ReleaseLocker(a) PROVE StackInv'
  <2>1. OnStack(a) /\ pc' = [pc EXCEPT ![a] = "done"]
    BY <1>7 DEF ReleaseLocker, OnStack
  <2>2. \A b \in Ap : ~OnStack(b)'
    BY <1>0, <2>1 DEF OnStack, StackInv, Printing
  <2> QED
    BY <2>2 DEF StackInv
<1>8. ASSUME NEW u \in User, UserStep(u) PROVE StackInv'
  <2>1. ap_locker' = ap_locker
    BY <1>8 DEF UserStep, UserExec, UserWrite, UserLog, UserExit, SpinBusy, SpinFree
  <2>2. \A a \in Ap : pc'[a] = pc[a]
    BY <1>8, UserTypes DEF UserStep
  <2> QED
    BY <2>1, <2>2, <1>1 DEF OnStack
<1> QED
  BY NextKinds, <1>2, <1>3, <1>4, <1>5, <1>6, <1>7, <1>8

(* A set without two elements. *)
LEMMA AtMostOne ==
    ASSUME NEW S, \A x, y \in S : x = y
    PROVE  Cardinality(S) <= 1
<1>1. CASE S = {}
  BY <1>1, FS_EmptySet
<1>2. CASE S # {}
  <2>1. PICK x \in S : TRUE
    BY <1>2
  <2>2. S = {x}
    BY <2>1
  <2>3. Cardinality({x}) = 1
    BY FS_Singleton
  <2> QED
    BY <2>2, <2>3
<1> QED
  BY <1>1, <1>2

LEMMA StackMeans == StackInv => StackExclusive
<1> SUFFICES ASSUME StackInv PROVE StackExclusive
  OBVIOUS
<1> DEFINE S == {a \in Ap : pc[a] \in Printing \cup {"release"}}
<1>1. \A x, y \in S : x = y
  BY DEF StackInv, OnStack
<1> HIDE DEF S
<1>2. Cardinality(S) <= 1
  BY <1>1, AtMostOne
<1> QED
  BY <1>2 DEF S, StackExclusive, StackInv, OnStack

-----------------------------------------------------------------------------
(* One processor.                                                          *)
LEMMA WaitingInit ==
    ASSUME Init PROVE Waiting
<1>1. \A x \in Actor : pc[x] = (IF x = 0 THEN "format" ELSE "off") /\ shown[x] = None
  BY DEF Init
<1>2. using = 0 /\ pc[0] = "format" /\ \A u \in User : pc[u] = "off" /\ shown[u] = None
  BY <1>1, Actors DEF Init
<1> QED
  BY <1>2 DEF Waiting, InDriver, Spinning

(* While somebody waits the processor does not go to task 0.               *)
LEMMA WaiterTurn ==
    ASSUME RingInv, NEW u \in User, pc[u] \in Spinning
    PROVE  After(current) # 0
<1>1. InRing(u)
  BY DEF RingInv, Alive
<1>2. ring # <<>>
  BY <1>1 DEF InRing
<1>3. current = 0 \/ InRing(current)
  BY DEF RingInv
<1> QED
  BY <1>2, <1>3, NextTurn, Actors

LEMMA WaitingStep ==
    ASSUME Ap = {}, RingInv, OtherTypes, Waiting, Next
    PROVE  /\ Waiting'
           /\ (\E u \in User : pc[u] \in Spinning) => pc'[0] = pc[0] /\ using' = using
<1>0. pc \in [Actor -> Label] /\ shown \in [Actor -> Actor \cup {None}] /\ using \in {0, 1}
  BY DEF RingInv, OtherTypes
<1>1. CASE Tick
  <2>1. UNCHANGED <<pc, using, shown>> /\ current' = After(current)
    BY <1>1, TickTypes DEF Tick, Schedule
  <2>2. \A u \in User : pc'[u] \in Spinning => using' = 1 /\ current' # 0
    BY <2>1, WaiterTurn DEF Waiting
  <2> QED
    BY <2>1, <2>2 DEF Waiting, InDriver
<1>2. CASE StartAps
  <2>1. /\ current = 0 /\ pc[0] = "start" /\ pc'[0] = "exec" /\ UNCHANGED <<using, shown>>
        /\ \A u \in User : pc'[u] = pc[u]
    BY <1>2, StartApsTypes DEF StartAps
  <2>2. using # 1 /\ \A u \in User : pc[u] \notin Spinning
    BY <2>1 DEF Waiting, InDriver
  <2> QED
    BY <2>1, <2>2 DEF Waiting, InDriver
<1>3. CASE BootExec
  <2>1. /\ current = 0 /\ pc[0] = "exec" /\ pc'[0] = "format" /\ UNCHANGED <<using, shown>>
        /\ \A u \in User : pc'[u] \in Spinning <=> pc[u] \in Spinning
    BY <1>3, BootExecTypes DEF BootExec
  <2>2. using # 1 /\ \A u \in User : pc[u] \notin Spinning
    BY <2>1 DEF Waiting, InDriver
  <2> QED
    BY <2>1, <2>2 DEF Waiting, InDriver
<1>4. ASSUME NEW x \in {0} \cup Ap, Printk(x)
      PROVE  /\ Waiting'
             /\ (\E u \in User : pc[u] \in Spinning) => pc'[0] = pc[0] /\ using' = using
  <2>1. x = 0 /\ current = 0
    BY <1>4, Actors DEF Printk, Format, TestFree, TestBusy, Enter, Write, Clear, CanRun
  <2>2. \A u \in User : pc'[u] = pc[u]
    BY <1>4, <2>1, PrintkTypes, Actors
  <2>3. \A u \in User : pc[u] \notin Spinning
    BY <2>1 DEF Waiting
  <2>4. \A u \in User : shown'[u] = shown[u]
    BY <1>0, <1>4, <2>1, Actors DEF Printk, Format, TestFree, TestBusy, Enter, Write, Clear
  <2>5. using' = 1 <=> pc'[0] \in {"write", "clear"}
    <3>1. using = 1 <=> pc[0] \in {"write", "clear"}
      BY DEF Waiting, InDriver
    <3>2. CASE Format(0)
      BY <1>0, <3>1, <3>2, Actors DEF Format
    <3>3. CASE TestFree(0)
      BY <1>0, <3>1, <3>3, Actors DEF TestFree
    <3>4. CASE TestBusy(0)
      BY <1>0, <3>1, <3>4, Actors DEF TestBusy
    <3>5. CASE Enter(0)
      BY <1>0, <3>5, Actors DEF Enter
    <3>6. CASE Write(0)
      BY <1>0, <3>1, <3>6, Actors DEF Write
    <3>7. CASE Clear(0)
      <4>1. using' = 0 /\ pc'[0] \in {"start", "idle"}
        BY <1>0, <3>7, Actors DEF Clear
      <4> QED
        BY <4>1
    <3> QED
      BY <1>4, <2>1, <3>2, <3>3, <3>4, <3>5, <3>6, <3>7 DEF Printk
  <2> QED
    BY <2>2, <2>3, <2>4, <2>5 DEF Waiting, InDriver
<1>5. ASSUME NEW u \in User, UserStep(u)
      PROVE  /\ Waiting'
             /\ (\E v \in User : pc[v] \in Spinning) => pc'[0] = pc[0] /\ using' = using
  <2>1. pc'[0] = pc[0]
    BY <1>5, UserTypes DEF UserStep
  <2>2. CanRun(u) /\ using' = using
    BY <1>5 DEF UserStep, UserExec, UserWrite, UserLog, UserExit, SpinBusy, SpinFree
  <2>3. current = u /\ u # 0 /\ InRing(u) /\ u \in Actor
    BY <2>2, RunsInRing, Actors
  <2>4. using' = 1 <=> InDriver(0)'
    BY <2>1, <2>2 DEF Waiting, InDriver
  <2>5. CASE UserExec(u)
    <3>1. /\ created' = created + 1 /\ created < MaxUser /\ UNCHANGED <<current, shown>>
          /\ pc' = [pc EXCEPT ![created'] = "user"]
      BY <2>5 DEF UserExec
    <3>2. created' \in Actor
      BY <3>1, ConsoleAssumption, Actors DEF RingInv, User
    <3>3. \A v \in User : pc'[v] \in Spinning => pc[v] \in Spinning
      BY <1>0, <3>1, <3>2, Actors DEF Spinning
    <3> QED
      BY <2>1, <2>2, <2>4, <3>1, <3>3 DEF Waiting
  <2>6. CASE UserWrite(u) \/ UserLog(u)
    <3>1. /\ UNCHANGED current
          /\ \A v \in User : v # u => pc'[v] = pc[v] /\ shown'[v] = shown[v]
          /\ shown'[u] \in {shown[u], u}
          /\ pc'[u] \in Spinning => using = 1
      <4>1. pc[u] = "user" /\ UNCHANGED current
        BY <2>6 DEF UserWrite, UserLog
      <4>2. CASE using = 0
        <5>1. pc' = pc /\ shown' = [shown EXCEPT ![u] = u]
          BY <2>6, <4>2 DEF UserWrite, UserLog
        <5>2. "user" \notin Spinning
          BY Labels
        <5> QED
          BY <1>0, <2>3, <4>1, <5>1, <5>2, Actors
      <4>3. CASE using # 0
        <5>1. shown' = shown /\ using = 1 /\ \A v \in User : v # u => pc'[v] = pc[v]
          BY <1>0, <2>6, <4>3, Actors DEF UserWrite, UserLog
        <5> QED
          BY <4>1, <5>1
      <4> QED
        BY <4>2, <4>3
    <3>2. \A v \in User : pc'[v] \in Spinning => using' = 1 /\ current' # 0
      BY <2>2, <2>3, <3>1 DEF Waiting
    <3>3. \A v \in User : shown'[v] \in {None, v}
      BY <3>1 DEF Waiting
    <3> QED
      BY <2>1, <2>2, <2>4, <3>2, <3>3 DEF Waiting
  <2>7. CASE UserExit(u)
    <3>1. /\ current' = IF After(u) = u THEN 0 ELSE After(u)
          /\ pc' = [pc EXCEPT ![u] = "done"] /\ pc[u] = "user" /\ UNCHANGED shown
      BY <2>7 DEF UserExit
    <3>2. \A v \in User : pc'[v] \in Spinning => pc[v] \in Spinning
      BY <1>0, <3>1, Actors DEF Spinning
    <3>3. ASSUME NEW v \in User, pc[v] \in Spinning PROVE current' # 0
      <4>1. InRing(v) /\ v # u
        BY <3>1, <3>3 DEF RingInv, Alive, Spinning
      <4>2. ring # <<>>
        BY <4>1 DEF InRing
      <4>3. After(u) # u
        <5>1. ASSUME Len(ring) = 1 PROVE FALSE
          <6>1. DOMAIN ring = {1}
            BY <5>1 DEF RingInv
          <6> QED
            BY <6>1, <2>3, <4>1 DEF InRing
        <5> QED
          BY <5>1, <2>3, <4>2, NextTurn
      <4> QED
        BY <3>1, <4>2, <4>3, <2>3, NextTurn, Actors
    <3> QED
      BY <2>1, <2>2, <2>4, <3>1, <3>2, <3>3 DEF Waiting
  <2>8. CASE SpinBusy(u)
    <3>1. UNCHANGED <<pc, shown>> /\ current' = After(current)
      BY <2>8 DEF SpinBusy, Schedule
    <3> QED
      BY <2>1, <2>2, <2>4, <3>1, WaiterTurn DEF Waiting
  <2>9. CASE SpinFree(u)
    <3>1. pc[u] \in Spinning /\ using = 0
      BY <2>9 DEF SpinFree
    <3> QED
      BY <3>1 DEF Waiting
  <2> QED
    BY <1>5, <2>5, <2>6, <2>7, <2>8, <2>9 DEF UserStep
<1> QED
  BY NextKinds, <1>1, <1>2, <1>3, <1>4, <1>5

LEMMA DriverMeans == ASSUME Ap = {}, RingInv, OtherTypes, Waiting PROVE DeviceExclusive
<1>1. \A u \in User : ~InDriver(u)
  BY DEF RingInv, InDriver, Alive, Spinning
<1>2. \A x \in Actor : InDriver(x) => x = 0
  BY <1>1 DEF Actor
<1> DEFINE S == {x \in Actor : InDriver(x)}
<1>3. \A x, y \in S : x = y
  BY <1>2
<1> HIDE DEF S
<1>4. Cardinality(S) <= 1
  BY <1>3, AtMostOne
<1>5. using = 1 <=> \E x \in Actor : InDriver(x)
  BY <1>2, Actors DEF Waiting
<1> QED
  BY <1>4, <1>5 DEF S, DeviceExclusive

-----------------------------------------------------------------------------
(* The ring and every other variable keep their types: no task is in the   *)
(* ring twice (task.c:146-156,188-216).                                    *)
THEOREM ConsoleTypeCorrect == Spec => []TypeOK
<1>1. RingInv /\ OtherTypes => TypeOK
  BY TypesOf
<1> QED
  BY <1>1, TypesInit, TypesStep, PTL DEF Spec

(* Whatever number of processors starts up, in whatever order, one at a    *)
(* time uses the start-up stack (head.S:128-146).                          *)
THEOREM StackUsedByOne == Spec => []StackExclusive
<1>1. Init => StackInv
  <2> SUFFICES ASSUME Init PROVE StackInv
    OBVIOUS
  <2>1. \A a \in Ap : pc[a] = "off"
    BY Actors DEF Init
  <2> QED
    BY <2>1 DEF StackInv, OnStack, Printing
<1>2. RingInv /\ OtherTypes /\ StackInv /\ [Next]_vars => StackInv'
  <2> SUFFICES ASSUME RingInv, OtherTypes, StackInv, [Next]_vars PROVE StackInv'
    OBVIOUS
  <2>1. CASE Next
    BY <2>1, StackStep
  <2>2. CASE UNCHANGED vars
    BY <2>2 DEF vars, StackInv, OnStack
  <2> QED
    BY <2>1, <2>2
<1> QED
  BY <1>1, <1>2, TypesInit, TypesStep, StackMeans, PTL DEF Spec

LEMMA WaitingAlways ==
    ASSUME Ap = {}
    PROVE  Spec => [](RingInv /\ OtherTypes /\ Waiting)
<1>1. Init => Waiting
  BY WaitingInit
<1>2. RingInv /\ OtherTypes /\ Waiting /\ [Next]_vars => Waiting'
  <2> SUFFICES ASSUME RingInv, OtherTypes, Waiting, [Next]_vars PROVE Waiting'
    OBVIOUS
  <2>1. CASE Next
    BY <2>1, WaitingStep
  <2>2. CASE UNCHANGED vars
    BY <2>2 DEF vars, Waiting, InDriver
  <2> QED
    BY <2>1, <2>2
<1> QED
  BY <1>1, <1>2, TypesInit, TypesStep, PTL DEF Spec

(* On one processor the busy flag says exactly whether somebody is in the  *)
(* driver (dev.c:114-125).                                                 *)
THEOREM FlagIsExact ==
    ASSUME Ap = {}
    PROVE  Spec => []DeviceExclusive
<1>1. RingInv /\ OtherTypes /\ Waiting => DeviceExclusive
  BY DriverMeans
<1> QED
  BY <1>1, WaitingAlways, PTL

(* On one processor a user task shows nothing but its own text, although   *)
(* printk's buffer is static (printk.c:8-21).                              *)
THEOREM UserShowsOwn ==
    ASSUME Ap = {}
    PROVE  Spec => []UserTextOwn
<1>1. Waiting => UserTextOwn
  BY DEF Waiting, UserTextOwn
<1> QED
  BY <1>1, WaitingAlways, PTL

(* On one processor, while a user task waits for the device, its holder,   *)
(* task 0, does not move: the wait does not end by itself (task.c:52-76).  *)
THEOREM WaitersNeverHelp ==
    ASSUME Ap = {}
    PROVE  Spec => HolderNeverHelped
<1>1. RingInv /\ OtherTypes /\ Waiting /\ [Next]_vars =>
        [(\E u \in User : pc[u] \in Spinning) => pc'[0] = pc[0] /\ using' = using]_vars
  BY WaitingStep
<1> QED
  BY <1>1, WaitingAlways, PTL DEF Spec, HolderNeverHelped
=============================================================================
