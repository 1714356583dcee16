------------------------------ MODULE FatProofs ------------------------------
(***************************************************************************)
(* The access window of FatFs loses nothing (WriteThrough), and its count  *)
(* of free clusters follows the FAT (CountExact), for volumes, tables,     *)
(* paths and files of any size.                                            *)
(*                                                                         *)
(* Behind these theorems: what the library does to chains, tables, names,  *)
(* trees and files of any size, the lemmas FatShapeProofs rests on.        *)
(***************************************************************************)
EXTENDS FatShape, SequenceTheorems, FiniteSetTheorems, WellFoundedInduction, TLAPS

-----------------------------------------------------------------------------
(* Writes on their way.                                                    *)

Writes(out) == \E C : out \in Seq(C)

LEMMA NextWrite ==
    ASSUME NEW out, Writes(out), NEW w
    PROVE  /\ Writes(Append(out, w)) /\ Len(out) \in Nat /\ DOMAIN out = 1 .. Len(out)
           /\ Len(Append(out, w)) = Len(out) + 1
           /\ DOMAIN Append(out, w) = 1 .. Len(out) + 1
           /\ Append(out, w)[Len(out) + 1] = w
           /\ \A k \in 1 .. Len(out) : Append(out, w)[k] = out[k]
<1>1. PICK C : out \in Seq(C)
  BY DEF Writes
<1> DEFINE D == C \cup {w}
<1>2. out \in Seq(D)
  BY <1>1
<1>3. w \in D
  OBVIOUS
<1> HIDE DEF D
<1>4. Append(out, w) \in Seq(D)
  BY <1>2, <1>3
<1>5. /\ Len(out) \in Nat /\ DOMAIN out = 1 .. Len(out)
      /\ Len(Append(out, w)) = Len(out) + 1
      /\ DOMAIN Append(out, w) = 1 .. Len(out) + 1
      /\ Append(out, w)[Len(out) + 1] = w
      /\ \A k \in 1 .. Len(out) : Append(out, w)[k] = out[k]
  BY <1>2, <1>3
<1> QED
  BY <1>4, <1>5 DEF Writes

\* After the write of x to t, the sector t holds x and others what they did.
LEMMA Handed ==
    ASSUME NEW d, NEW out, Writes(out), NEW t, NEW x
    PROVE  /\ Arrives(d, Append(out, <<t, x>>), t, x)
           /\ \A s, y : s # t /\ Arrives(d, out, s, y) => Arrives(d, Append(out, <<t, x>>), s, y)
<1> DEFINE new == Append(out, <<t, x>>)
           n == Len(out)
<1>1. /\ n \in Nat /\ DOMAIN out = 1 .. n /\ Len(new) = n + 1 /\ DOMAIN new = 1 .. n + 1
      /\ new[n + 1] = <<t, x>> /\ \A k \in 1 .. n : new[k] = out[k]
  BY NextWrite
<1> HIDE DEF new, n
<1>2. Arrives(d, new, t, x)
  <2>1. n + 1 \in DOMAIN new /\ \A j \in n + 1 + 1 .. Len(new) : FALSE
    BY <1>1
  <2> QED
    BY <1>1, <2>1 DEF Arrives
<1>3. ASSUME NEW s, NEW y, s # t, Arrives(d, out, s, y) PROVE Arrives(d, new, s, y)
  <2>1. new[n + 1][1] # s
    BY <1>1, <1>3
  <2>2. CASE d[s] = y /\ \A k \in DOMAIN out : out[k][1] # s
    <3>1. \A k \in DOMAIN new : new[k][1] # s
      <4> SUFFICES ASSUME NEW k \in 1 .. n + 1 PROVE new[k][1] # s
        BY <1>1
      <4>1. k = n + 1 \/ k \in 1 .. n
        BY <1>1
      <4> QED
        BY <4>1, <1>1, <2>1, <2>2
    <3> QED
      BY <3>1, <2>2 DEF Arrives
  <2>3. CASE \E k \in DOMAIN out : out[k] = <<s, y>> /\ \A j \in k + 1 .. Len(out) : out[j][1] # s
    <3>1. PICK k \in DOMAIN out : out[k] = <<s, y>> /\ \A j \in k + 1 .. n : out[j][1] # s
      BY <2>3 DEF n
    <3>2. k \in 1 .. n /\ k \in DOMAIN new /\ new[k] = <<s, y>>
      BY <3>1, <1>1
    <3>3. \A j \in k + 1 .. Len(new) : new[j][1] # s
      <4> SUFFICES ASSUME NEW j \in k + 1 .. n + 1 PROVE new[j][1] # s
        BY <1>1
      <4>1. j = n + 1 \/ (j \in 1 .. n /\ j \in k + 1 .. n)
        BY <1>1, <3>2
      <4> QED
        BY <4>1, <1>1, <2>1, <3>1
    <3> QED
      BY <3>2, <3>3 DEF Arrives
  <2> QED
    BY <1>3, <2>2, <2>3 DEF Arrives
<1> QED
  BY <1>2, <1>3 DEF new

-----------------------------------------------------------------------------
(* The window.                                                             *)

Fields == {"vol", "sect", "wf", "free", "last", "fsi", "out"}

\* What the library takes a sector to hold arrives on the medium d, but for the window.
Through(d, S) ==
    /\ DOMAIN S = Fields
    /\ DOMAIN S.vol = Sector
    /\ S.wf \in BOOLEAN
    /\ Writes(S.out)
    /\ \A s \in Sector : (S.wf /\ s = S.sect) \/ Arrives(d, S.out, s, S.vol[s])

\* Counts, hints and flags are beside the point, and so is a clean window.
LEMMA BesideThrough ==
    ASSUME NEW d, NEW S, Through(d, S), NEW T, DOMAIN T = Fields,
           T.vol = S.vol, T.out = S.out, T.wf = S.wf, T.wf => T.sect = S.sect
    PROVE  Through(d, T)
BY DEF Through

\* A sector handed to the disk; a dirty window stays where it is.
LEMMA HandedThrough ==
    ASSUME NEW d, NEW S, Through(d, S), NEW T, DOMAIN T = Fields, NEW t, NEW x,
           T.vol = [S.vol EXCEPT ![t] = x], T.out = Append(S.out, <<t, x>>),
           T.wf = S.wf, T.wf => T.sect = S.sect
    PROVE  Through(d, T)
<1>1. Writes(T.out)
  BY NextWrite DEF Through
<1>2. ASSUME NEW s \in Sector PROVE (T.wf /\ s = T.sect) \/ Arrives(d, T.out, s, T.vol[s])
  <2>1. CASE S.wf /\ s = S.sect
    BY <2>1
  <2>2. CASE Arrives(d, S.out, s, S.vol[s]) /\ s # t
    <3>1. T.vol[s] = S.vol[s]
      BY <2>2 DEF Through
    <3> QED
      BY <2>2, <3>1, Handed DEF Through
  <2>3. CASE s = t
    <3>1. T.vol[s] = x
      BY <2>3 DEF Through
    <3> QED
      BY <2>3, <3>1, Handed DEF Through
  <2> QED
    BY <2>1, <2>2, <2>3 DEF Through
<1> QED
  BY <1>1, <1>2 DEF Through

LEMMA SyncThrough ==
    ASSUME NEW d, NEW S, Through(d, S)
    PROVE  /\ Through(d, sync_window(S))
           /\ sync_window(S).wf = FALSE /\ sync_window(S).vol = S.vol
<1> DEFINE w == <<S.sect, S.vol[S.sect]>>
           T == [S EXCEPT !.out = Append(@, w), !.wf = FALSE]
<1>1. CASE S.wf = FALSE
  BY <1>1 DEF sync_window
<1>2. CASE S.wf = TRUE
  <2>1. /\ DOMAIN T = Fields /\ T.vol = S.vol /\ T.wf = FALSE /\ T.sect = S.sect
        /\ T.out = Append(S.out, w)
    BY DEF Through, Fields
  <2>2. sync_window(S) = T
    BY <1>2 DEF sync_window
  <2> HIDE DEF T
  <2>3. Writes(T.out)
    BY <2>1, NextWrite DEF Through
  <2>4. ASSUME NEW s \in Sector PROVE Arrives(d, T.out, s, T.vol[s])
    <3>1. CASE s = S.sect
      BY <2>1, <3>1, Handed DEF Through
    <3>2. CASE s # S.sect
      BY <2>1, <3>2, Handed DEF Through
    <3> QED
      BY <3>1, <3>2
  <2>5. Through(d, T)
    BY <2>1, <2>3, <2>4 DEF Through
  <2> QED
    BY <2>1, <2>2, <2>5
<1> QED
  BY <1>1, <1>2 DEF Through

LEMMA MoveThrough ==
    ASSUME NEW d, NEW S, Through(d, S), NEW s
    PROVE  Through(d, move_window(S, s))
<1> DEFINE T == sync_window(S)
           M == [T EXCEPT !.sect = s]
<1>1. CASE s = S.sect
  BY <1>1 DEF move_window
<1>2. CASE s # S.sect
  <2>1. Through(d, T) /\ T.wf = FALSE
    BY SyncThrough
  <2> HIDE DEF T
  <2>2. DOMAIN M = Fields /\ M.vol = T.vol /\ M.out = T.out /\ M.wf = T.wf
    BY <2>1 DEF Through, Fields
  <2> HIDE DEF M
  <2>3. Through(d, M)
    BY <2>1, <2>2, BesideThrough
  <2> QED
    BY <1>2, <2>3 DEF move_window, M, T
<1> QED
  BY <1>1, <1>2

LEMMA DirtyThrough ==
    ASSUME NEW d, NEW S, Through(d, S), NEW x
    PROVE  Through(d, Dirty(S, x))
<1> DEFINE T == Dirty(S, x)
<1>1. /\ DOMAIN T = Fields /\ T.vol = [S.vol EXCEPT ![S.sect] = x] /\ T.wf = TRUE
      /\ T.sect = S.sect /\ T.out = S.out
  BY DEF Through, Fields, Dirty
<1> HIDE DEF T
<1>2. DOMAIN T.vol = Sector /\ \A s \in Sector : s # S.sect => T.vol[s] = S.vol[s]
  BY <1>1 DEF Through
<1>3. Through(d, T)
  BY <1>1, <1>2 DEF Through
<1> QED
  BY <1>3 DEF T

LEMMA GetThrough ==
    ASSUME NEW d, NEW S, Through(d, S), NEW c
    PROVE  Through(d, get_fat(S, c))
BY MoveThrough DEF get_fat

LEMMA PutThrough ==
    ASSUME NEW d, NEW S, Through(d, S), NEW c, NEW v
    PROVE  Through(d, put_fat(S, c, v))
BY GetThrough, DirtyThrough DEF put_fat

-----------------------------------------------------------------------------
(* The count of free clusters.                                             *)

\* The count is the number of free ones, or not known.
Counting(S) == Entries(S.vol) /\ S.free \in {Cardinality(Vacant(S.vol)), Unknown}

\* What every function of the library keeps of its state S over the medium d;
\* the count is gone once the power has failed.
Window(d, gone, S) == Through(d, S) /\ (gone \/ Counting(S))

LEMMA Apart ==
    ASSUME NEW c, NEW b
    PROVE  FatSec(c) # Data(b) /\ FatSec(c) # Info
BY DEF FatSec, Data, Info

LEMMA FewVacant ==
    ASSUME NEW vol
    PROVE  /\ IsFiniteSet(Vacant(vol)) /\ Cardinality(Vacant(vol)) \in 0 .. NClust
           /\ Unknown = NClust + 1 /\ NClust \in Nat
<1>1. NClust \in Nat
  BY FatAssumption
<1>2. IsFiniteSet(Cluster) /\ Cardinality(Cluster) = NClust
  <2>1. Cluster = 2 .. NClust + 1 /\ NClust + 1 \in Int /\ NClust + 1 - 2 + 1 = NClust
    BY <1>1 DEF Cluster, Top
  <2>2. IsFiniteSet(2 .. NClust + 1)
        /\ Cardinality(2 .. NClust + 1) = IF 2 > NClust + 1 THEN 0 ELSE NClust + 1 - 2 + 1
    BY <1>1, FS_Interval
  <2> QED
    BY <1>1, <2>1, <2>2, FatAssumption
<1>3. Vacant(vol) \subseteq Cluster
  BY DEF Vacant
<1>4. IsFiniteSet(Vacant(vol)) /\ Cardinality(Vacant(vol)) <= NClust
  BY <1>2, <1>3, FS_Subset
<1>5. Cardinality(Vacant(vol)) \in Nat
  BY <1>4, FS_CardinalityType
<1> QED
  BY <1>1, <1>4, <1>5 DEF Unknown

\* What leaves the FAT and the count alone keeps them.
LEMMA SameTable ==
    ASSUME NEW d, NEW gone, NEW S, Window(d, gone, S), NEW T, Through(d, T), T.free = S.free,
           \A c \in Cluster : T.vol[FatSec(c)] = S.vol[FatSec(c)]
    PROVE  Window(d, gone, T)
<1>1. \A c : FatOf(T.vol, c) = FatOf(S.vol, c)
  BY DEF FatOf
<1>2. Vacant(T.vol) = Vacant(S.vol)
  BY <1>1 DEF Vacant
<1>3. Entries(S.vol) => Entries(T.vol)
  BY DEF Entries
<1> QED
  BY <1>2, <1>3 DEF Window, Counting

LEMMA Beside ==
    ASSUME NEW d, NEW gone, NEW S, Window(d, gone, S), NEW T, DOMAIN T = Fields,
           T.vol = S.vol, T.out = S.out, T.wf = S.wf, T.wf => T.sect = S.sect, T.free = S.free
    PROVE  Window(d, gone, T)
<1>1. Through(d, T)
  BY BesideThrough DEF Window
<1> QED
  BY <1>1, SameTable

LEMMA HandedOver ==
    ASSUME NEW d, NEW gone, NEW S, Window(d, gone, S), NEW T, DOMAIN T = Fields, NEW t, NEW x,
           T.vol = [S.vol EXCEPT ![t] = x], T.out = Append(S.out, <<t, x>>),
           T.wf = S.wf, T.wf => T.sect = S.sect, T.free = S.free,
           \A c \in Cluster : t # FatSec(c)
    PROVE  Window(d, gone, T)
<1>1. Through(d, T)
  BY HandedThrough DEF Window
<1>2. \A c \in Cluster : T.vol[FatSec(c)] = S.vol[FatSec(c)]
  BY DEF Window, Through, Sector
<1> QED
  BY <1>1, <1>2, SameTable

LEMMA SyncWindow ==
    ASSUME NEW d, NEW gone, NEW S, Window(d, gone, S)
    PROVE  /\ Window(d, gone, sync_window(S)) /\ sync_window(S).wf = FALSE
           /\ sync_window(S).vol = S.vol /\ sync_window(S).free = S.free
<1>1. Through(d, sync_window(S)) /\ sync_window(S).wf = FALSE /\ sync_window(S).vol = S.vol
  BY SyncThrough DEF Window
<1>2. sync_window(S).free = S.free
  BY DEF sync_window, Window, Through, Fields
<1> QED
  BY <1>1, <1>2, SameTable

LEMMA MoveIs ==
    ASSUME NEW d, NEW S, Through(d, S), NEW s
    PROVE  /\ Through(d, move_window(S, s)) /\ move_window(S, s).sect = s
           /\ move_window(S, s).vol = S.vol /\ move_window(S, s).free = S.free
<1> DEFINE T == sync_window(S)
           M == [T EXCEPT !.sect = s]
<1>1. Through(d, T) /\ T.vol = S.vol
  BY SyncThrough
<1>2. T.free = S.free
  BY DEF sync_window, Through, Fields
<1>3. move_window(S, s) = IF s = S.sect THEN S ELSE M
  BY DEF move_window
<1> HIDE DEF T
<1>4. M.vol = T.vol /\ M.free = T.free /\ M.sect = s
  BY <1>1 DEF Through, Fields
<1> HIDE DEF M
<1> QED
  BY <1>1, <1>2, <1>3, <1>4, MoveThrough

LEMMA MoveWindow ==
    ASSUME NEW d, NEW gone, NEW S, Window(d, gone, S), NEW s
    PROVE  /\ Window(d, gone, move_window(S, s)) /\ move_window(S, s).sect = s
           /\ move_window(S, s).vol = S.vol /\ move_window(S, s).free = S.free
<1>1. /\ Through(d, move_window(S, s)) /\ move_window(S, s).sect = s
      /\ move_window(S, s).vol = S.vol /\ move_window(S, s).free = S.free
  BY MoveIs DEF Window
<1> QED
  BY <1>1, SameTable

LEMMA DirtyWindow ==
    ASSUME NEW d, NEW gone, NEW S, Window(d, gone, S), NEW x, \A c \in Cluster : S.sect # FatSec(c)
    PROVE  Window(d, gone, Dirty(S, x))
<1>1. Through(d, Dirty(S, x))
  BY DirtyThrough DEF Window
<1>2. Dirty(S, x).vol = [S.vol EXCEPT ![S.sect] = x] /\ Dirty(S, x).free = S.free
  BY DEF Dirty, Window, Through, Fields
<1>3. \A c \in Cluster : Dirty(S, x).vol[FatSec(c)] = S.vol[FatSec(c)]
  BY <1>2 DEF Window, Through, Sector
<1> QED
  BY <1>1, <1>2, <1>3, SameTable

LEMMA SyncFs ==
    ASSUME NEW d, NEW gone, NEW S, Window(d, gone, S)
    PROVE  Window(d, gone, sync_fs(S))
<1> DEFINE T == sync_window(S)
           i == [free |-> T.free, last |-> T.last]
           N == [T EXCEPT !.vol[Info] = i, !.out = Append(@, <<Info, i>>), !.sect = Info, !.fsi = FALSE]
<1>1. Window(d, gone, T) /\ T.wf = FALSE
  BY SyncWindow
<1>2. sync_fs(S) = IF ~T.fsi THEN T ELSE N
  BY DEF sync_fs
<1> HIDE DEF T, i
<1>3. /\ DOMAIN N = Fields /\ N.vol = [T.vol EXCEPT ![Info] = i]
      /\ N.out = Append(T.out, <<Info, i>>) /\ N.wf = T.wf /\ N.free = T.free
  BY <1>1 DEF Window, Through, Fields
<1> HIDE DEF N
<1>4. Window(d, gone, N)
  BY <1>1, <1>3, Apart, HandedOver
<1> QED
  BY <1>1, <1>2, <1>4

-----------------------------------------------------------------------------
(* The allocation table.                                                   *)

LEMMA GetFat ==
    ASSUME NEW d, NEW gone, NEW S, Window(d, gone, S), NEW c
    PROVE  /\ Window(d, gone, get_fat(S, c))
           /\ get_fat(S, c).vol = S.vol /\ get_fat(S, c).free = S.free
BY MoveWindow DEF get_fat

LEMMA PutFatIs ==
    ASSUME NEW d, NEW S, Through(d, S), Entries(S.vol), NEW c, NEW v
    PROVE  /\ put_fat(S, c, v).free = S.free
           /\ Entries(put_fat(S, c, v).vol)
           /\ \A b \in Cluster :
                FatOf(put_fat(S, c, v).vol, b) = IF b = c THEN v ELSE FatOf(S.vol, b)
<1> DEFINE T == get_fat(S, c)
           N == Dirty(T, [T.vol[T.sect] EXCEPT ![c] = v])
<1>1. CASE c \notin Cluster
  <2>1. put_fat(S, c, v) = S
    BY <1>1 DEF put_fat
  <2> QED
    BY <1>1, <2>1
<1>2. CASE c \in Cluster
  <2>1. put_fat(S, c, v) = N
    BY <1>2 DEF put_fat
  <2>2. T = move_window(S, FatSec(c))
    BY <1>2 DEF get_fat
  <2> HIDE DEF T
  <2>3. Through(d, T) /\ T.vol = S.vol /\ T.free = S.free /\ T.sect = FatSec(c)
    BY <2>2, MoveIs
  <2>4. N.vol = [S.vol EXCEPT ![FatSec(c)] = [S.vol[FatSec(c)] EXCEPT ![c] = v]] /\ N.free = S.free
    BY <2>3 DEF Dirty, Through, Fields
  <2> HIDE DEF N
  <2>5. FatSec(c) \in DOMAIN S.vol
    BY <1>2 DEF Through, Sector
  <2>6. ASSUME NEW b \in Cluster
        PROVE  /\ b \in DOMAIN N.vol[FatSec(b)]
               /\ N.vol[FatSec(b)][b] = IF b = c THEN v ELSE S.vol[FatSec(b)][b]
    <3>1. CASE FatSec(b) = FatSec(c)
      <4>1. N.vol[FatSec(b)] = [S.vol[FatSec(c)] EXCEPT ![c] = v]
        BY <2>4, <2>5, <3>1
      <4>2. b \in DOMAIN S.vol[FatSec(c)] /\ c \in DOMAIN S.vol[FatSec(c)]
        BY <1>2, <3>1 DEF Entries
      <4> QED
        BY <3>1, <4>1, <4>2
    <3>2. CASE FatSec(b) # FatSec(c)
      <4>1. N.vol[FatSec(b)] = S.vol[FatSec(b)] /\ b # c
        BY <2>4, <3>2 DEF Through, Sector
      <4> QED
        BY <4>1 DEF Entries
    <3> QED
      BY <3>1, <3>2
  <2> QED
    BY <1>2, <2>1, <2>3, <2>4, <2>6 DEF Entries, FatOf
<1> QED
  BY <1>1, <1>2

\* An entry in use is given another value.
LEMMA PutFat ==
    ASSUME NEW d, NEW gone, NEW S, Window(d, gone, S), NEW c, NEW v, v # 0, FatOf(S.vol, c) # 0
    PROVE  Window(d, gone, put_fat(S, c, v))
<1> DEFINE T == put_fat(S, c, v)
<1>1. Through(d, T)
  BY PutThrough DEF Window
<1>2. CASE Counting(S)
  <2>1. /\ T.free = S.free /\ Entries(T.vol)
        /\ \A b \in Cluster : FatOf(T.vol, b) = IF b = c THEN v ELSE FatOf(S.vol, b)
    BY <1>2, PutFatIs DEF Counting, Window
  <2> HIDE DEF T
  <2>2. Vacant(T.vol) = Vacant(S.vol)
    BY <2>1 DEF Vacant
  <2> QED
    BY <1>1, <1>2, <2>1, <2>2 DEF Window, Counting, T
<1> QED
  BY <1>1, <1>2 DEF Window

\* An entry in use is freed and counted.
LEMMA FreedKeeps ==
    ASSUME NEW d, NEW gone, NEW S, Window(d, gone, S), NEW c \in Cluster, FatOf(S.vol, c) # 0
    PROVE  Window(d, gone, Freed(S, c))
<1> DEFINE T == put_fat(S, c, 0)
           N == [T EXCEPT !.free = @ + 1, !.fsi = TRUE]
<1>1. Through(d, T)
  BY PutThrough DEF Window
<1>2. Freed(S, c) = IF T.free < NClust THEN N ELSE T
  BY DEF Freed, Counted
<1>3. Counting(S) => /\ T.free = S.free /\ Entries(T.vol)
                     /\ \A b \in Cluster : FatOf(T.vol, b) = IF b = c THEN 0 ELSE FatOf(S.vol, b)
  BY PutFatIs DEF Counting, Window
<1> HIDE DEF T
<1>4. /\ DOMAIN N = Fields /\ N.vol = T.vol /\ N.out = T.out /\ N.wf = T.wf /\ N.sect = T.sect
      /\ N.free = T.free + 1
  BY <1>1 DEF Through, Fields
<1> HIDE DEF N
<1>5. Through(d, N)
  BY <1>1, <1>4, BesideThrough
<1>6. CASE Counting(S)
  <2>1. Vacant(T.vol) = Vacant(S.vol) \cup {c} /\ c \notin Vacant(S.vol)
    BY <1>3, <1>6 DEF Vacant
  <2>2. Cardinality(Vacant(T.vol)) = Cardinality(Vacant(S.vol)) + 1
    BY <2>1, FewVacant, FS_AddElement
  <2>3. /\ Cardinality(Vacant(S.vol)) \in 0 .. NClust /\ Cardinality(Vacant(T.vol)) \in 0 .. NClust
        /\ Unknown = NClust + 1 /\ NClust \in Nat
    BY FewVacant
  <2>4. T.free \in {Cardinality(Vacant(S.vol)), Unknown} /\ Entries(T.vol)
    BY <1>3, <1>6 DEF Counting
  <2>5. CASE T.free < NClust
    <3>1. N.free = Cardinality(Vacant(N.vol)) /\ Entries(N.vol)
      BY <1>4, <2>2, <2>3, <2>4, <2>5
    <3> QED
      BY <1>2, <1>5, <2>5, <3>1 DEF Window, Counting
  <2>6. CASE ~(T.free < NClust)
    <3>1. T.free = Unknown
      BY <2>2, <2>3, <2>4, <2>6
    <3> QED
      BY <1>1, <1>2, <2>4, <2>6, <3>1 DEF Window, Counting
  <2> QED
    BY <2>5, <2>6
<1> QED
  BY <1>1, <1>2, <1>5, <1>6 DEF Window

\* Every set of numbers has a least one.
LEMMA LeastNumber ==
    ASSUME NEW S \in SUBSET Nat, S # {}
    PROVE  \E n \in S : \A x \in S : n <= x
<1> DEFINE R == OpToRel(<, Nat)
<1>1. IsWellFoundedOn(R, Nat)
  BY NatLessThanWellFounded
<1>2. \A x, y \in Nat : y < x => <<y, x>> \in R
  BY DEF OpToRel
<1> HIDE DEF R
<1>3. PICK n \in S : \A x \in S : ~ (<<x, n>> \in R)
  BY <1>1, WFMin
<1>4. ASSUME NEW x \in S PROVE n <= x
  <2>1. x \in Nat /\ n \in Nat /\ ~(x < n)
    BY <1>2, <1>3
  <2> QED BY <2>1
<1> QED BY <1>4

\* What holds before the first turn and after every turn holds after the last.
LEMMA Turns ==
    ASSUME NEW n \in Nat, NEW Q, 0 \in Q, \A k \in 1 .. n : k - 1 \in Q => k \in Q
    PROVE  \A k \in 0 .. n : k \in Q
<1> SUFFICES ASSUME {k \in 0 .. n : k \notin Q} # {} PROVE FALSE
  OBVIOUS
<1>1. PICK k \in {j \in 0 .. n : j \notin Q} : \A x \in {j \in 0 .. n : j \notin Q} : k <= x
  <2>1. {j \in 0 .. n : j \notin Q} \in SUBSET Nat
    OBVIOUS
  <2> QED
    BY <2>1, LeastNumber
<1>2. k \in 1 .. n /\ k - 1 \in 0 .. n /\ ~(k <= k - 1)
  OBVIOUS
<1>3. k - 1 \in Q
  BY <1>1, <1>2
<1> QED
  BY <1>1, <1>2, <1>3

\* The results of m turns become those of one more.
LEMMA OneMore ==
    ASSUME NEW m \in Nat, NEW g, NEW x,
           NEW h, h = [k \in 0 .. m + 1 |-> IF k <= m THEN g[k] ELSE x]
    PROVE  /\ \A k \in 0 .. m : h[k] = g[k]
           /\ h[m + 1] = x
           /\ \A k \in 1 .. m : h[k - 1] = g[k - 1]
           /\ h[m + 1 - 1] = g[m]
<1>1. \A k \in 0 .. m : k \in 0 .. m + 1 /\ k <= m
  OBVIOUS
<1>2. m + 1 \in 0 .. m + 1 /\ ~(m + 1 <= m) /\ m + 1 - 1 = m /\ m \in 0 .. m
  OBVIOUS
<1>3. \A k \in 1 .. m : k - 1 \in 0 .. m
  OBVIOUS
<1>4. \A k \in 0 .. m : h[k] = g[k]
  BY <1>1
<1>5. h[m + 1] = x
  BY <1>2
<1> QED
  BY <1>2, <1>3, <1>4, <1>5

LEMMA Sizes == NClust \in Nat /\ Top \in Nat /\ SPS \in Nat /\ Top * SPS \in Nat /\ Size \in Nat
BY FatAssumption, CallsAssumption DEF Top

\* The turns of the loops of the library, by what they are given.
Turn(loop, T, k) ==
    CASE loop.name = "Walked" -> IF k <= loop.n THEN get_fat(T, loop.cs[k]) ELSE T
      [] loop.name = "remove_chain" ->
            IF FatOf(T.s.vol, T.c) \in {0, 1} THEN T
            ELSE [s |-> Freed(T.s, T.c), c |-> FatOf(T.s.vol, T.c)]
      [] loop.name = "Scanned" ->
            IF k > At(loop.i) THEN T
            ELSE IF k > Len(loop.cs) THEN (IF k = 1 THEN T ELSE get_fat(T, loop.cs[k - 1]))
            ELSE move_window(IF k = 1 THEN T ELSE get_fat(T, loop.cs[k - 1]), Data(loop.cs[k]))
      [] loop.name = "dir_alloc" ->
            IF T.full \/ T.pos # 0 THEN T ELSE Examined(dir_next(T, k), k, loop.n)
      [] loop.name = "follow_path" -> Follow(T, k, loop.p)
      [] OTHER ->
            IF T.full \/ T.err \/ k >= loop.ofs THEN T
            ELSE LET C == IF loop.write THEN create_chain(T.s, T.clust)
                          ELSE [s |-> get_fat(T.s, T.clust), n |-> FatOf(T.s.vol, T.clust)]
                 IN  IF C.n \in Cluster THEN [T EXCEPT !.s = C.s, !.fptr = @ + 1, !.clust = C.n]
                     ELSE [T EXCEPT !.s = C.s, !.full = C.n = 0, !.err = C.n # 0]

\* The results g of n turns from s on.
Run(loop, s, n, g) == g = [k \in 0 .. n |-> IF k = 0 THEN s ELSE Turn(loop, g[k - 1], k)]

LEMMA RunExists ==
    ASSUME NEW loop, NEW s, NEW n \in Nat
    PROVE  \E g : Run(loop, s, n, g)
<1> DEFINE Q == {m \in Nat : \E g : Run(loop, s, m, g)}
<1>1. 0 \in Q
  <2>1. Run(loop, s, 0, [k \in 0 .. 0 |-> s])
    BY DEF Run
  <2> QED
    BY <2>1
<1>2. ASSUME NEW k \in 1 .. n, k - 1 \in Q PROVE k \in Q
  <2> DEFINE m == k - 1
  <2>1. m \in Nat /\ k = m + 1
    OBVIOUS
  <2>2. PICK g : Run(loop, s, m, g)
    BY <1>2
  <2> HIDE DEF m
  <2> DEFINE x == Turn(loop, g[m], m + 1)
             h == [j \in 0 .. m + 1 |-> IF j <= m THEN g[j] ELSE x]
  <2> HIDE DEF x
  <2>3. /\ \A j \in 0 .. m : h[j] = g[j]
        /\ h[m + 1] = x
        /\ \A j \in 1 .. m : h[j - 1] = g[j - 1]
        /\ h[m + 1 - 1] = g[m]
    BY <2>1, OneMore
  <2>4. h = [j \in 0 .. m + 1 |-> h[j]]
    OBVIOUS
  <2> HIDE DEF h
  <2>5. \A j \in 0 .. m : g[j] = IF j = 0 THEN s ELSE Turn(loop, g[j - 1], j)
    BY <2>1, <2>2 DEF Run
  <2>6. ASSUME NEW j \in 0 .. m + 1 PROVE h[j] = IF j = 0 THEN s ELSE Turn(loop, h[j - 1], j)
    <3>1. CASE j = m + 1
      <4>1. j # 0 /\ h[j - 1] = g[m]
        BY <2>1, <2>3, <3>1
      <4> QED
        BY <4>1, <2>3, <3>1 DEF x
    <3>2. CASE j = 0
      BY <2>1, <2>3, <2>5, <3>2
    <3>3. CASE j \in 1 .. m
      <4>1. j \in 0 .. m /\ j # 0
        BY <2>1, <3>3
      <4> QED
        BY <4>1, <2>3, <2>5, <3>3
    <3> QED
      BY <2>1, <3>1, <3>2, <3>3
  <2>7. Run(loop, s, m + 1, h)
    BY <2>4, <2>6 DEF Run
  <2> QED
    BY <2>1, <2>7
<1>3. n \in Q
  <2> HIDE DEF Q
  <2> QED
    BY <1>1, <1>2, Turns
<1> QED
  BY <1>3

LEMMA WalkedKeeps ==
    ASSUME NEW d, NEW gone, NEW S, Window(d, gone, S), NEW cs, NEW n
    PROVE  Window(d, gone, Walked(S, cs, n))
           /\ Walked(S, cs, n).vol = S.vol /\ Walked(S, cs, n).free = S.free
<1> DEFINE loop == [name |-> "Walked", cs |-> cs, n |-> n]
           turns == Top
           s0 == S
           F(T, k) ==
               IF k <= n THEN get_fat(T, cs[k]) ELSE T
           G(g) == g = [k \in 0 .. turns |-> IF k = 0 THEN s0 ELSE F(g[k - 1], k)]
           Good(T) == Window(d, gone, T) /\ T.vol = S.vol /\ T.free = S.free
           Q(g) == {k \in Nat : Good(g[k])}
<1>1. turns \in Nat
  BY Sizes
<1>2. \A T, k : Turn(loop, T, k) = F(T, k)
  BY DEF Turn
<1>3. Good(s0)
  OBVIOUS
<1>4. ASSUME NEW T, NEW k, Good(T) PROVE Good(F(T, k))
  BY <1>4, GetFat
<1>5. Walked(S, cs, n) = (CHOOSE g : G(g))[turns]
  BY Zenon DEF Walked, Loop
<1> HIDE DEF F, s0, loop, turns, Good
<1>6. \E g : G(g)
  <2>1. PICK g : Run(loop, s0, turns, g)
    BY <1>1, RunExists
  <2>2. G(g)
    BY <2>1, <1>2 DEF Run
  <2> QED
    BY <2>2
<1>7. PICK g : G(g) /\ Walked(S, cs, n) = g[turns]
  BY <1>5, <1>6
<1>8. 0 \in Q(g)
  BY <1>1, <1>3, <1>7
<1>9. ASSUME NEW k \in 1 .. turns, k - 1 \in Q(g) PROVE k \in Q(g)
  <2>1. g[k] = F(g[k - 1], k) /\ k \in Nat
    BY <1>1, <1>7
  <2> QED
    BY <2>1, <1>4, <1>9
<1>10. turns \in Q(g)
  <2> HIDE DEF Q
  <2> QED
    BY <1>1, <1>8, <1>9, Turns
<1> QED
  BY <1>7, <1>10 DEF Good

\* The cluster before the chain is one that was in use.
LEMMA RemoveChain ==
    ASSUME NEW d, NEW gone, NEW S, Window(d, gone, S), NEW c, NEW p,
           p = 0 \/ c \notin Cluster \/ FatOf(S.vol, p) # 0
    PROVE  Window(d, gone, remove_chain(S, c, p))
<1> DEFINE loop == [name |-> "remove_chain"]
           turns == NClust
           s0 == [s |-> IF p # 0 /\ c \in Cluster THEN put_fat(S, p, Eoc) ELSE S, c |-> c]
           F(T, k) ==
               IF FatOf(T.s.vol, T.c) \in {0, 1} THEN T
               ELSE [s |-> Freed(T.s, T.c), c |-> FatOf(T.s.vol, T.c)]
           G(g) == g = [k \in 0 .. turns |-> IF k = 0 THEN s0 ELSE F(g[k - 1], k)]
           Good(T) == Window(d, gone, T.s)
           Q(g) == {k \in Nat : Good(g[k])}
<1>1. turns \in Nat
  BY Sizes
<1>2. \A T, k : Turn(loop, T, k) = F(T, k)
  BY DEF Turn
<1>3. Good(s0)
  <2>1. Eoc # 0
    BY Sizes DEF Eoc
  <2> QED
    BY <2>1, PutFat
<1>4. ASSUME NEW T, NEW k, Good(T) PROVE Good(F(T, k))
  <2>1. CASE FatOf(T.s.vol, T.c) \in {0, 1}
    BY <1>4, <2>1
  <2>2. CASE FatOf(T.s.vol, T.c) \notin {0, 1}
    <3>1. T.c \in Cluster /\ FatOf(T.s.vol, T.c) # 0
      BY <2>2 DEF FatOf
    <3>2. Window(d, gone, Freed(T.s, T.c))
      BY <1>4, <3>1, FreedKeeps
    <3> QED
      BY <2>2, <3>2
  <2> QED
    BY <2>1, <2>2
<1>5. remove_chain(S, c, p) = (CHOOSE g : G(g))[turns].s
  BY Zenon DEF remove_chain, Loop
<1> HIDE DEF F, s0, loop, turns, Good
<1>6. \E g : G(g)
  <2>1. PICK g : Run(loop, s0, turns, g)
    BY <1>1, RunExists
  <2>2. G(g)
    BY <2>1, <1>2 DEF Run
  <2> QED
    BY <2>2
<1>7. PICK g : G(g) /\ remove_chain(S, c, p) = g[turns].s
  BY <1>5, <1>6
<1>8. 0 \in Q(g)
  BY <1>1, <1>3, <1>7
<1>9. ASSUME NEW k \in 1 .. turns, k - 1 \in Q(g) PROVE k \in Q(g)
  <2>1. g[k] = F(g[k - 1], k) /\ k \in Nat
    BY <1>1, <1>7
  <2> QED
    BY <2>1, <1>4, <1>9
<1>10. turns \in Q(g)
  <2> HIDE DEF Q
  <2> QED
    BY <1>1, <1>8, <1>9, Turns
<1> QED
  BY <1>7, <1>10 DEF Good

\* A free entry is taken, linked to one in use and counted.
LEMMA StretchedKeeps ==
    ASSUME NEW d, NEW gone, NEW S, Window(d, gone, S), NEW c, c = 0 \/ FatOf(S.vol, c) # 0
    PROVE  Window(d, gone, Stretched(S, c).s)
<1> DEFINE near == IF c = Top THEN 2 ELSE c + 1
           order == IF c = 0
                    THEN Probes(IF S.last \in 1 .. Top THEN S.last ELSE 1)
                    ELSE <<near>> \o Probes(IF S.last \in Cluster THEN S.last ELSE c)
           isFree(x) == FatOf(S.vol, x) = 0
           k == Min({j \in DOMAIN order : isFree(order[j])} \cup {Len(order)})
           x == order[k]
           T == Walked(S, order, k)
           U == put_fat(T, x, Eoc)
           V == IF c = 0 THEN U ELSE put_fat(U, c, x)
           N == [V EXCEPT !.last = x, !.fsi = TRUE, !.free = IF @ <= NClust THEN @ - 1 ELSE @]
<1>1. Stretched(S, c) = IF S.free = 0 THEN [s |-> S, n |-> 0]
                        ELSE IF isFree(x) THEN [s |-> N, n |-> x] ELSE [s |-> T, n |-> 0]
  BY Zenon DEF Stretched
<1> HIDE DEF near, order, k, x
<1>2. Window(d, gone, T) /\ T.vol = S.vol
  BY WalkedKeeps
<1>3. T.free = S.free
  BY WalkedKeeps
<1> HIDE DEF T
<1>4. SUFFICES ASSUME FatOf(S.vol, x) = 0, S.free # 0
               PROVE  Window(d, gone, N)
  BY <1>1, <1>2
<1>5. x \in Cluster /\ x # 0 /\ Eoc # 0
  BY <1>4, Sizes DEF FatOf, Cluster, Eoc
<1>6. Through(d, U)
  BY <1>2, PutThrough DEF Window
<1>7. Through(d, V)
  BY <1>6, PutThrough
<1>8. /\ DOMAIN N = Fields /\ N.vol = V.vol /\ N.out = V.out /\ N.wf = V.wf /\ N.sect = V.sect
      /\ N.free = IF V.free <= NClust THEN V.free - 1 ELSE V.free
  BY <1>7 DEF Through, Fields
<1> HIDE DEF N
<1>9. Through(d, N)
  BY <1>7, <1>8, BesideThrough
<1>10. CASE gone
  BY <1>9, <1>10 DEF Window
<1>11. CASE Counting(T)
  <2>1. /\ U.free = T.free /\ Entries(U.vol)
        /\ \A b \in Cluster : FatOf(U.vol, b) = IF b = x THEN Eoc ELSE FatOf(S.vol, b)
    BY <1>2, <1>11, PutFatIs DEF Counting, Window
  <2> HIDE DEF U
  <2>2. /\ V.free = T.free /\ Entries(V.vol)
        /\ \A b \in Cluster : FatOf(V.vol, b) = 0 <=> FatOf(U.vol, b) = 0
    <3>1. CASE c = 0
      BY <2>1, <3>1
    <3>2. CASE c # 0
      <4>1. /\ V.free = U.free /\ Entries(V.vol)
            /\ \A b \in Cluster : FatOf(V.vol, b) = IF b = c THEN x ELSE FatOf(U.vol, b)
        BY <1>6, <2>1, <3>2, PutFatIs
      <4>2. c \in Cluster => FatOf(U.vol, c) # 0
        BY <1>5, <2>1, <3>2
      <4> QED
        BY <1>5, <2>1, <4>1, <4>2
    <3> QED
      BY <3>1, <3>2
  <2> HIDE DEF V
  <2>3. Vacant(V.vol) = Vacant(S.vol) \ {x} /\ x \in Vacant(S.vol)
    BY <1>4, <1>5, <2>1, <2>2 DEF Vacant
  <2>4. Cardinality(Vacant(V.vol)) = Cardinality(Vacant(S.vol)) - 1
    BY <2>3, FewVacant, FS_RemoveElement
  <2>5. /\ Cardinality(Vacant(S.vol)) \in 0 .. NClust /\ Cardinality(Vacant(V.vol)) \in 0 .. NClust
        /\ Unknown = NClust + 1 /\ NClust \in Nat
    BY FewVacant
  <2>6. V.free = Cardinality(Vacant(S.vol)) \/ V.free = Unknown
    BY <1>2, <1>11, <2>2 DEF Counting
  <2>7. N.free = Cardinality(Vacant(N.vol)) \/ N.free = Unknown
    BY <1>8, <2>4, <2>5, <2>6
  <2> QED
    BY <1>8, <1>9, <2>2, <2>7 DEF Window, Counting
<1> QED
  BY <1>2, <1>10, <1>11 DEF Window

LEMMA CreateChain ==
    ASSUME NEW d, NEW gone, NEW S, Window(d, gone, S), NEW c
    PROVE  Window(d, gone, create_chain(S, c).s)
<1> DEFINE T == get_fat(S, c)
<1>1. Window(d, gone, T) /\ T.vol = S.vol
  BY GetFat
<1>2. CASE c = 0
  <2>1. create_chain(S, c).s = Stretched(S, c).s
    BY <1>2 DEF create_chain
  <2> QED
    BY <1>2, <2>1, StretchedKeeps
<1>3. CASE c # 0 /\ FatOf(S.vol, c) \notin {0, 1} \cup Cluster
  <2>1. create_chain(S, c).s = Stretched(T, c).s
    BY <1>3 DEF create_chain
  <2> HIDE DEF T
  <2>2. FatOf(T.vol, c) # 0
    BY <1>1, <1>3
  <2> QED
    BY <1>1, <2>1, <2>2, StretchedKeeps
<1>4. CASE c # 0 /\ FatOf(S.vol, c) \in {0, 1} \cup Cluster
  <2>1. create_chain(S, c).s = T
    BY <1>4 DEF create_chain
  <2> QED
    BY <1>1, <2>1
<1> QED
  BY <1>2, <1>3, <1>4

-----------------------------------------------------------------------------
(* Directories.                                                            *)

LEMMA DirClear ==
    ASSUME NEW d, NEW gone, NEW S, Window(d, gone, S), NEW c
    PROVE  Window(d, gone, dir_clear(S, c)) /\ dir_clear(S, c).sect = Data(c)
<1> DEFINE T == sync_window(S)
           t == Data(c)
           N == [T EXCEPT !.vol[t] = EmptyTable, !.sect = t, !.out = Append(@, <<t, EmptyTable>>)]
<1>1. Window(d, gone, T) /\ T.wf = FALSE
  BY SyncWindow
<1>2. dir_clear(S, c) = N
  BY DEF dir_clear
<1>3. \A b \in Cluster : t # FatSec(b)
  BY Apart
<1> HIDE DEF T, t
<1>4. /\ DOMAIN N = Fields /\ N.vol = [T.vol EXCEPT ![t] = EmptyTable]
      /\ N.out = Append(T.out, <<t, EmptyTable>>) /\ N.wf = T.wf /\ N.free = T.free /\ N.sect = t
  BY <1>1 DEF Window, Through, Fields
<1> HIDE DEF N
<1>5. Window(d, gone, N)
  BY <1>1, <1>3, <1>4, HandedOver
<1> QED
  BY <1>2, <1>4, <1>5 DEF t

LEMMA DirSdi ==
    ASSUME NEW d, NEW gone, NEW S, Window(d, gone, S), NEW chain, NEW i
    PROVE  Window(d, gone, dir_sdi(S, chain, i))
BY WalkedKeeps DEF dir_sdi

LEMMA PutSlotKeeps ==
    ASSUME NEW d, NEW gone, NEW S, Window(d, gone, S), NEW chain, NEW i, NEW x
    PROVE  Window(d, gone, PutSlot(S, chain, i, x))
<1> DEFINE T == move_window(S, Data(chain[At(i)]))
<1>1. \E y : PutSlot(S, chain, i, x) = Dirty(T, y)
  BY DEF PutSlot
<1>2. Window(d, gone, T) /\ T.sect = Data(chain[At(i)])
  BY MoveWindow
<1> HIDE DEF T
<1> QED
  BY <1>1, <1>2, Apart, DirtyWindow

LEMMA ScannedKeeps ==
    ASSUME NEW d, NEW gone, NEW S, Window(d, gone, S), NEW cs, NEW i
    PROVE  Window(d, gone, Scanned(S, cs, i)) /\ Scanned(S, cs, i).vol = S.vol
<1> DEFINE loop == [name |-> "Scanned", cs |-> cs, i |-> i]
           turns == Top
           s0 == S
           F(T, k) ==
               IF k > At(i) THEN T
               ELSE IF k > Len(cs) THEN (IF k = 1 THEN T ELSE get_fat(T, cs[k - 1]))
               ELSE move_window(IF k = 1 THEN T ELSE get_fat(T, cs[k - 1]), Data(cs[k]))
           G(g) == g = [k \in 0 .. turns |-> IF k = 0 THEN s0 ELSE F(g[k - 1], k)]
           Good(T) == Window(d, gone, T) /\ T.vol = S.vol
           Q(g) == {k \in Nat : Good(g[k])}
<1>1. turns \in Nat
  BY Sizes
<1>2. \A T, k : Turn(loop, T, k) = F(T, k)
  BY DEF Turn
<1>3. Good(s0)
  OBVIOUS
<1>4. ASSUME NEW T, NEW k, Good(T) PROVE Good(F(T, k))
  BY <1>4, GetFat, MoveWindow
<1>5. Scanned(S, cs, i) = (CHOOSE g : G(g))[turns]
  BY Zenon DEF Scanned, Loop
<1> HIDE DEF F, s0, loop, turns, Good
<1>6. \E g : G(g)
  <2>1. PICK g : Run(loop, s0, turns, g)
    BY <1>1, RunExists
  <2>2. G(g)
    BY <2>1, <1>2 DEF Run
  <2> QED
    BY <2>2
<1>7. PICK g : G(g) /\ Scanned(S, cs, i) = g[turns]
  BY <1>5, <1>6
<1>8. 0 \in Q(g)
  BY <1>1, <1>3, <1>7
<1>9. ASSUME NEW k \in 1 .. turns, k - 1 \in Q(g) PROVE k \in Q(g)
  <2>1. g[k] = F(g[k - 1], k) /\ k \in Nat
    BY <1>1, <1>7
  <2> QED
    BY <2>1, <1>4, <1>9
<1>10. turns \in Q(g)
  <2> HIDE DEF Q
  <2> QED
    BY <1>1, <1>8, <1>9, Turns
<1> QED
  BY <1>7, <1>10 DEF Good

LEMMA DirFind ==
    ASSUME NEW d, NEW gone, NEW S, Window(d, gone, S), NEW dc, NEW n
    PROVE  Window(d, gone, dir_find(S, dc, n).s)
<1>1. \E chain, i : dir_find(S, dc, n).s = Scanned(S, chain, i)
  BY DEF dir_find
<1> QED
  BY <1>1, ScannedKeeps

\* dir_alloc walks through the slots with this.
Places == {"s", "chain", "run", "pos", "grown", "full"}

LEMMA DirNext ==
    ASSUME NEW d, NEW gone, NEW A, DOMAIN A = Places, Window(d, gone, A.s), NEW i
    PROVE  DOMAIN dir_next(A, i) = Places /\ Window(d, gone, dir_next(A, i).s)
<1> DEFINE c == A.chain[At(i) - 1]
           C == create_chain(get_fat(A.s, c), c)
           M == [A EXCEPT !.s = get_fat(@, c)]
           N == [A EXCEPT !.s = C.s, !.full = TRUE]
           O == [A EXCEPT !.s = dir_clear(C.s, C.n), !.chain = Append(@, C.n), !.grown = TRUE]
<1>1. dir_next(A, i) \in {A, M, N, O}
  BY DEF dir_next, Stretch
<1>2. Window(d, gone, get_fat(A.s, c))
  BY GetFat
<1>3. Window(d, gone, C.s) /\ Window(d, gone, dir_clear(C.s, C.n))
  BY <1>2, CreateChain, DirClear
<1> HIDE DEF c, C
<1>4. DOMAIN M = Places /\ M.s = get_fat(A.s, c)
  BY DEF Places
<1>5. DOMAIN N = Places /\ N.s = C.s
  BY DEF Places
<1>6. DOMAIN O = Places /\ O.s = dir_clear(C.s, C.n)
  BY DEF Places
<1> HIDE DEF M, N, O
<1> QED
  BY <1>1, <1>2, <1>3, <1>4, <1>5, <1>6

LEMMA ExaminedKeeps ==
    ASSUME NEW d, NEW gone, NEW A, DOMAIN A = Places, Window(d, gone, A.s), NEW i, NEW n
    PROVE  DOMAIN Examined(A, i, n) = Places /\ Window(d, gone, Examined(A, i, n).s)
<1> DEFINE S == move_window(A.s, Data(A.chain[At(i)]))
           run == IF S.vol[S.sect].tab[In(i)] \in Free THEN A.run + 1 ELSE 0
           N == [A EXCEPT !.s = S, !.run = run, !.pos = IF run = n THEN i ELSE 0]
<1>1. Examined(A, i, n) = IF A.full THEN A ELSE N
  BY DEF Examined
<1>2. Window(d, gone, S)
  BY MoveWindow
<1> HIDE DEF S, run
<1>3. DOMAIN N = Places /\ N.s = S
  BY DEF Places
<1> HIDE DEF N
<1> QED
  BY <1>1, <1>2, <1>3

LEMMA DirAlloc ==
    ASSUME NEW d, NEW gone, NEW S, Window(d, gone, S), NEW chain, NEW n
    PROVE  Window(d, gone, dir_alloc(S, chain, n).s)
<1> DEFINE loop == [name |-> "dir_alloc", n |-> n]
           turns == Top * SPS
           s0 == [s |-> S, chain |-> chain, run |-> 0, pos |-> 0, grown |-> FALSE, full |-> FALSE]
           F(T, k) ==
               IF T.full \/ T.pos # 0 THEN T ELSE Examined(dir_next(T, k), k, n)
           G(g) == g = [k \in 0 .. turns |-> IF k = 0 THEN s0 ELSE F(g[k - 1], k)]
           Good(T) == DOMAIN T = Places /\ Window(d, gone, T.s)
           Q(g) == {k \in Nat : Good(g[k])}
<1>1. turns \in Nat
  BY Sizes
<1>2. \A T, k : Turn(loop, T, k) = F(T, k)
  BY DEF Turn
<1>3. Good(s0)
  BY DEF Places
<1>4. ASSUME NEW T, NEW k, Good(T) PROVE Good(F(T, k))
  BY <1>4, DirNext, ExaminedKeeps
<1>5. dir_alloc(S, chain, n) = (CHOOSE g : G(g))[turns]
  BY Zenon DEF dir_alloc, Loop
<1> HIDE DEF F, s0, loop, turns, Good
<1>6. \E g : G(g)
  <2>1. PICK g : Run(loop, s0, turns, g)
    BY <1>1, RunExists
  <2>2. G(g)
    BY <2>1, <1>2 DEF Run
  <2> QED
    BY <2>2
<1>7. PICK g : G(g) /\ dir_alloc(S, chain, n) = g[turns]
  BY <1>5, <1>6
<1>8. 0 \in Q(g)
  BY <1>1, <1>3, <1>7
<1>9. ASSUME NEW k \in 1 .. turns, k - 1 \in Q(g) PROVE k \in Q(g)
  <2>1. g[k] = F(g[k - 1], k) /\ k \in Nat
    BY <1>1, <1>7
  <2> QED
    BY <2>1, <1>4, <1>9
<1>10. turns \in Q(g)
  <2> HIDE DEF Q
  <2> QED
    BY <1>1, <1>8, <1>9, Turns
<1> QED
  BY <1>7, <1>10 DEF Good

LEMMA DirRegister ==
    ASSUME NEW d, NEW gone, NEW S, Window(d, gone, S), NEW dc, NEW n
    PROVE  Window(d, gone, dir_register(S, dc, n).s)
<1> DEFINE long == n \in DOMAIN Alias
           chain == Chain(S.vol, IF dc = 0 THEN Root ELSE dc)
           i == End(Slots(S.vol, chain))
           A == IF long THEN dir_alloc(Scanned(S, chain, i), chain, 2) ELSE dir_alloc(S, chain, 1)
           sfn == IF long THEN NumName(Slots(S.vol, chain), n) ELSE <<n, 0>>
           first == A.pos - 1
           L == PutSlot(dir_sdi(A.s, A.chain, first), A.chain, first,
                        [k |-> "lfn", name |-> n, sfn |-> sfn])
           next == IF In(A.pos) = 1 THEN get_fat(L, A.chain[At(first)]) ELSE L
           P == PutSlot(IF long THEN next ELSE A.s, A.chain, A.pos, Blank(sfn))
<1>1. dir_register(S, dc, n).s = IF A.pos = 0 THEN A.s ELSE P
  BY DEF dir_register
<1>2. Window(d, gone, A.s)
  <2>1. Window(d, gone, Scanned(S, chain, i))
    BY ScannedKeeps
  <2> HIDE DEF chain, i
  <2>2. Window(d, gone, dir_alloc(Scanned(S, chain, i), chain, 2).s)
    BY <2>1, DirAlloc
  <2>3. Window(d, gone, dir_alloc(S, chain, 1).s)
    BY DirAlloc
  <2> QED
    BY <2>2, <2>3
<1> HIDE DEF A, sfn, first
<1>3. Window(d, gone, dir_sdi(A.s, A.chain, first))
  BY <1>2, DirSdi
<1>4. Window(d, gone, L)
  BY <1>3, PutSlotKeeps
<1> HIDE DEF L
<1>5. Window(d, gone, next)
  BY <1>4, GetFat
<1> HIDE DEF next
<1>6. Window(d, gone, P)
  BY <1>2, <1>5, PutSlotKeeps
<1> QED
  BY <1>1, <1>2, <1>6

LEMMA DirRemove ==
    ASSUME NEW d, NEW gone, NEW S, Window(d, gone, S), NEW D
    PROVE  Window(d, gone, dir_remove(S, D))
<1> DEFINE Mark(T, i) == PutSlot(T, D.chain, i, [k |-> "del"])
           first == Mark(dir_sdi(S, D.chain, D.blk), D.blk)
           next == IF In(D.pos) = 1 THEN get_fat(first, D.chain[At(D.blk)]) ELSE first
<1>1. dir_remove(S, D) = IF D.blk = D.pos THEN Mark(S, D.pos) ELSE Mark(next, D.pos)
  BY DEF dir_remove
<1>2. \A T, i : Window(d, gone, T) => Window(d, gone, Mark(T, i))
  BY PutSlotKeeps
<1>3. Window(d, gone, dir_sdi(S, D.chain, D.blk))
  BY DirSdi
<1> HIDE DEF Mark
<1>4. Window(d, gone, first)
  BY <1>2, <1>3
<1> HIDE DEF first
<1>5. Window(d, gone, next)
  BY <1>4, GetFat
<1> HIDE DEF next
<1> QED
  BY <1>1, <1>2, <1>5

LEMMA FollowKeeps ==
    ASSUME NEW d, NEW gone, NEW F, "s" \in DOMAIN F, Window(d, gone, F.s), NEW k, NEW p
    PROVE  "s" \in DOMAIN Follow(F, k, p) /\ Window(d, gone, Follow(F, k, p).s)
<1> DEFINE dc == IF k = 1 THEN 0 ELSE Entry(F).clust
           D == dir_find(F.s, dc, p[k])
           M == [F EXCEPT !.res = "NO_PATH"]
           N == Found(D, k = Len(p))
<1>1. Follow(F, k, p) \in {F, M, N}
  BY DEF Follow
<1>2. Window(d, gone, D.s)
  BY DirFind
<1> HIDE DEF D
<1>3. "s" \in DOMAIN N /\ N.s = D.s
  BY DEF Found
<1>4. "s" \in DOMAIN M /\ M.s = F.s
  OBVIOUS
<1> HIDE DEF M, N
<1> QED
  BY <1>1, <1>2, <1>3, <1>4

LEMMA FollowPath ==
    ASSUME NEW d, NEW gone, NEW S, Window(d, gone, S), NEW p, Len(p) \in Nat
    PROVE  Window(d, gone, follow_path(S, p).s)
<1> DEFINE loop == [name |-> "follow_path", p |-> p]
           turns == Len(p)
           s0 == [s |-> S, res |-> "OK"]
           F(T, k) ==
               Follow(T, k, p)
           G(g) == g = [k \in 0 .. turns |-> IF k = 0 THEN s0 ELSE F(g[k - 1], k)]
           Good(T) == "s" \in DOMAIN T /\ Window(d, gone, T.s)
           Q(g) == {k \in Nat : Good(g[k])}
<1>1. turns \in Nat
  OBVIOUS
<1>2. \A T, k : Turn(loop, T, k) = F(T, k)
  BY DEF Turn
<1>3. Good(s0)
  OBVIOUS
<1>4. ASSUME NEW T, NEW k, Good(T) PROVE Good(F(T, k))
  BY <1>4, FollowKeeps
<1>5. follow_path(S, p) = (CHOOSE g : G(g))[turns]
  BY Zenon DEF follow_path, Loop
<1> HIDE DEF F, s0, loop, turns, Good
<1>6. \E g : G(g)
  <2>1. PICK g : Run(loop, s0, turns, g)
    BY <1>1, RunExists
  <2>2. G(g)
    BY <2>1, <1>2 DEF Run
  <2> QED
    BY <2>2
<1>7. PICK g : G(g) /\ follow_path(S, p) = g[turns]
  BY <1>5, <1>6
<1>8. 0 \in Q(g)
  BY <1>1, <1>3, <1>7
<1>9. ASSUME NEW k \in 1 .. turns, k - 1 \in Q(g) PROVE k \in Q(g)
  <2>1. g[k] = F(g[k - 1], k) /\ k \in Nat
    BY <1>1, <1>7
  <2> QED
    BY <2>1, <1>4, <1>9
<1>10. turns \in Q(g)
  <2> HIDE DEF Q
  <2> QED
    BY <1>1, <1>8, <1>9, Turns
<1> QED
  BY <1>7, <1>10 DEF Good

-----------------------------------------------------------------------------
(* What the calls are made of.                                             *)

LEMMA EmptiedKeeps ==
    ASSUME NEW d, NEW gone, NEW D, Window(d, gone, D.s)
    PROVE  Window(d, gone, Emptied(D))
<1> DEFINE e == Entry(D)
           A == PutSlot(D.s, D.chain, D.pos, Blank(e.sfn))
           M == move_window(remove_chain(A, e.clust, 0), A.sect)
           N == [M EXCEPT !.last = e.clust - 1]
<1>1. Emptied(D) = IF e.clust = 0 THEN A ELSE N
  BY DEF Emptied
<1>2. Window(d, gone, A)
  BY PutSlotKeeps
<1> HIDE DEF A, e
<1>3. Window(d, gone, M)
  BY <1>2, RemoveChain, MoveWindow
<1> HIDE DEF M
<1>4. /\ DOMAIN N = Fields /\ N.vol = M.vol /\ N.out = M.out /\ N.wf = M.wf /\ N.sect = M.sect
      /\ N.free = M.free
  BY <1>3 DEF Window, Through, Fields
<1> HIDE DEF N
<1>5. Window(d, gone, N)
  BY <1>3, <1>4, Beside
<1> QED
  BY <1>1, <1>2, <1>5

LEMMA OpenedKeeps ==
    ASSUME NEW d, NEW gone, NEW S, Window(d, gone, S), NEW D, NEW p, NEW m
    PROVE  Window(d, gone, Opened(S, D, p, m).s)
<1>1. \E cs, n : Opened(S, D, p, m).s \in {S, Walked(S, cs, n)}
  BY DEF Opened
<1> QED
  BY <1>1, WalkedKeeps

LEMMA SeekKeeps ==
    ASSUME NEW d, NEW gone, NEW S, Window(d, gone, S), NEW write, NEW fptr, NEW c, NEW ofs
    PROVE  Window(d, gone, Seek(S, write, fptr, c, ofs).s)
<1> DEFINE loop == [name |-> "Seek", write |-> write, ofs |-> ofs]
           turns == Size
           s0 == [s |-> S, fptr |-> fptr + 1, clust |-> c, full |-> FALSE, err |-> FALSE]
           F(T, k) ==
               IF T.full \/ T.err \/ k >= ofs THEN T
               ELSE LET C == IF write THEN create_chain(T.s, T.clust)
                             ELSE [s |-> get_fat(T.s, T.clust), n |-> FatOf(T.s.vol, T.clust)]
                    IN  IF C.n \in Cluster THEN [T EXCEPT !.s = C.s, !.fptr = @ + 1, !.clust = C.n]
                        ELSE [T EXCEPT !.s = C.s, !.full = C.n = 0, !.err = C.n # 0]
           G(g) == g = [k \in 0 .. turns |-> IF k = 0 THEN s0 ELSE F(g[k - 1], k)]
           Good(T) == DOMAIN T = {"s", "fptr", "clust", "full", "err"} /\ Window(d, gone, T.s)
           Q(g) == {k \in Nat : Good(g[k])}
<1>1. turns \in Nat
  BY Sizes
<1>2. \A T, k : Turn(loop, T, k) = F(T, k)
  BY DEF Turn
<1>3. Good(s0)
  OBVIOUS
<1>4. ASSUME NEW T, NEW k, Good(T) PROVE Good(F(T, k))
  <2> DEFINE C == IF write THEN create_chain(T.s, T.clust)
                  ELSE [s |-> get_fat(T.s, T.clust), n |-> FatOf(T.s.vol, T.clust)]
             M == [T EXCEPT !.s = C.s, !.full = C.n = 0, !.err = C.n # 0]
             N == [T EXCEPT !.s = C.s, !.fptr = @ + 1, !.clust = C.n]
  <2>1. F(T, k) \in {T, M, N}
    OBVIOUS
  <2>2. Window(d, gone, C.s)
    BY <1>4, CreateChain, GetFat
  <2> HIDE DEF C, F
  <2>3. DOMAIN M = {"s", "fptr", "clust", "full", "err"} /\ M.s = C.s
    BY <1>4
  <2>4. DOMAIN N = {"s", "fptr", "clust", "full", "err"} /\ N.s = C.s
    BY <1>4
  <2> HIDE DEF M, N
  <2> QED
    BY <1>4, <2>1, <2>2, <2>3, <2>4
<1>5. Seek(S, write, fptr, c, ofs) = (CHOOSE g : G(g))[turns]
  BY Zenon DEF Seek, Loop
<1> HIDE DEF F, s0, loop, turns, Good
<1>6. \E g : G(g)
  <2>1. PICK g : Run(loop, s0, turns, g)
    BY <1>1, RunExists
  <2>2. G(g)
    BY <2>1, <1>2 DEF Run
  <2> QED
    BY <2>2
<1>7. PICK g : G(g) /\ Seek(S, write, fptr, c, ofs) = g[turns]
  BY <1>5, <1>6
<1>8. 0 \in Q(g)
  BY <1>1, <1>3, <1>7
<1>9. ASSUME NEW k \in 1 .. turns, k - 1 \in Q(g) PROVE k \in Q(g)
  <2>1. g[k] = F(g[k - 1], k) /\ k \in Nat
    BY <1>1, <1>7
  <2> QED
    BY <2>1, <1>4, <1>9
<1>10. turns \in Q(g)
  <2> HIDE DEF Q
  <2> QED
    BY <1>1, <1>8, <1>9, Turns
<1> QED
  BY <1>7, <1>10 DEF Good

LEMMA SyncedKeeps ==
    ASSUME NEW d, NEW gone, NEW S, Window(d, gone, S), NEW o
    PROVE  Window(d, gone, Synced(S, o))
<1> DEFINE T == move_window(S, Data(o.dir_sect))
<1>1. \E x : Synced(S, o) \in {S, sync_fs(Dirty(T, x))}
  BY DEF Synced
<1>2. Window(d, gone, T) /\ T.sect = Data(o.dir_sect)
  BY MoveWindow
<1> HIDE DEF T
<1>3. \A x : Window(d, gone, Dirty(T, x))
  BY <1>2, Apart, DirtyWindow
<1> QED
  BY <1>1, <1>3, SyncFs

LEMMA SearchedKeeps ==
    ASSUME NEW d, NEW gone, NEW S, Window(d, gone, S), NEW c
    PROVE  Window(d, gone, Searched(S, c))
<1>1. \E cs, i : Searched(S, c) = Scanned(S, cs, i)
  BY DEF Searched
<1> QED
  BY <1>1, ScannedKeeps

LEMMA UnlinkedKeeps ==
    ASSUME NEW d, NEW gone, NEW S, Window(d, gone, S), NEW F, NEW c
    PROVE  Window(d, gone, Unlinked(S, F, c))
BY DirRemove, RemoveChain, SyncFs DEF Unlinked

-----------------------------------------------------------------------------
(* The calls.                                                              *)

\* The invariant; the medium has the sectors of the volume.
WindowInv == DOMAIN disk = Sector /\ Window(disk, crashed, lib)

LEMMA Onward ==
    ASSUME NEW d, NEW S, DOMAIN d = Sector, Window(d, crashed, S),
           disk' = d, lib' = S, crashed' = crashed
    PROVE  WindowInv'
BY DEF WindowInv, Window, Through, Writes, Arrives, Fields, Counting, Entries, Vacant, FatOf,
       Sector, FatSec, Data, Info, Cluster, Top, Unknown

LEMMA DoneKeeps ==
    ASSUME WindowInv, NEW S, Window(disk, crashed, S), NEW touched, NEW s, NEW risky,
           Done(S, touched, s, risky)
    PROVE  WindowInv'
<1>1. disk' = disk /\ lib' = S /\ crashed' = crashed
  BY DEF Done
<1> QED
  BY <1>1, Onward DEF WindowInv

LEMMA OpenKeeps ==
    ASSUME WindowInv, NEW f, NEW p \in Paths, NEW m, f_open(f, p, m)
    PROVE  WindowInv'
<1> DEFINE F == follow_path(lib, p)
           D == IF F.res = "OK" THEN F ELSE dir_register(F.s, F.dc, Last(p))
           mode == IF F.res = "OK" THEN m ELSE m \cup {"FA_CREATE_ALWAYS"}
           new == "FA_CREATE_ALWAYS" \in mode
           E == IF new THEN Emptied(D) ELSE D.s
           O == Opened(E, D, p, mode)
<1>1. \E S \in {F.s, D.s, O.s} : \E touched, s, risky : Done(S, touched, s, risky)
  BY DEF f_open
<1>2. Window(disk, crashed, F.s)
  BY FollowPath, CallsAssumption DEF WindowInv
<1> HIDE DEF F
<1>3. Window(disk, crashed, D.s)
  BY <1>2, DirRegister
<1> HIDE DEF D, mode
<1>4. Window(disk, crashed, E)
  BY <1>3, EmptiedKeeps
<1> HIDE DEF E
<1>5. Window(disk, crashed, O.s)
  BY <1>4, OpenedKeeps
<1> HIDE DEF O
<1> QED
  BY <1>1, <1>2, <1>3, <1>5, DoneKeeps

LEMMA ReadKeeps ==
    ASSUME WindowInv, NEW f, f_read(f)
    PROVE  WindowInv'
<1>1. \E c : \E S \in {lib, get_fat(lib, c)} : Done(S, {}, safe, FALSE)
  BY DEF f_read
<1> QED
  BY <1>1, GetFat, DoneKeeps DEF WindowInv

LEMMA WriteKeeps ==
    ASSUME WindowInv, NEW f, f_write(f)
    PROVE  WindowInv'
<1> DEFINE o == fil[f]
           d == [dat |-> Last(o.path)]
           C == IF o.fptr > 0 THEN create_chain(lib, o.clust)
                ELSE IF o.sclust = 0 THEN create_chain(lib, 0)
                ELSE [s |-> lib, n |-> o.sclust]
           t == Data(C.n)
           N == [C.s EXCEPT !.vol[t] = d, !.out = Append(@, <<t, d>>)]
<1>1. \E S \in {C.s, N} : \E touched, s, risky : Done(S, touched, s, risky)
  BY DEF f_write
<1>2. Window(disk, crashed, C.s)
  BY CreateChain DEF WindowInv
<1>3. \A c \in Cluster : t # FatSec(c)
  BY Apart
<1> HIDE DEF C, d, t
<1>4. /\ DOMAIN N = Fields /\ N.vol = [C.s.vol EXCEPT ![t] = d] /\ N.out = Append(C.s.out, <<t, d>>)
      /\ N.wf = C.s.wf /\ N.sect = C.s.sect /\ N.free = C.s.free
  BY <1>2 DEF Window, Through, Fields
<1> HIDE DEF N
<1>5. Window(disk, crashed, N)
  BY <1>2, <1>3, <1>4, HandedOver
<1> QED
  BY <1>1, <1>2, <1>5, DoneKeeps

LEMMA LseekKeeps ==
    ASSUME WindowInv, NEW f, NEW n, f_lseek(f, n)
    PROVE  WindowInv'
<1> DEFINE o == fil[f]
           to == IF n > o.objsize /\ ~o.write THEN o.objsize ELSE n
           on == o.fptr > 0 /\ to >= o.fptr
           C == IF o.sclust = 0 /\ ~on /\ to > 0 THEN create_chain(lib, 0)
                ELSE [s |-> lib, n |-> o.sclust]
           K == IF to = 0 THEN [s |-> lib, fptr |-> 0, clust |-> o.clust, err |-> FALSE]
                ELSE IF on THEN Seek(lib, o.write, o.fptr - 1, o.clust, to - (o.fptr - 1))
                ELSE IF C.n = 0 THEN [s |-> C.s, fptr |-> 0, clust |-> 0, err |-> FALSE]
                ELSE Seek(C.s, o.write, 0, C.n, to)
<1>1. \E touched, s, risky : Done(K.s, touched, s, risky)
  BY DEF f_lseek
<1>2. Window(disk, crashed, lib)
  BY DEF WindowInv
<1>3. Window(disk, crashed, C.s)
  BY <1>2, CreateChain
<1> HIDE DEF to, on, C
<1>4. Window(disk, crashed, K.s)
  BY <1>2, <1>3, SeekKeeps
<1> HIDE DEF K
<1> QED
  BY <1>1, <1>4, DoneKeeps

LEMMA TruncateKeeps ==
    ASSUME WindowInv, NEW f, f_truncate(f)
    PROVE  WindowInv'
<1> DEFINE o == fil[f]
           n == FatOf(lib.vol, o.clust)
           G == get_fat(lib, o.clust)
<1>1. \E S \in {remove_chain(lib, o.sclust, 0), remove_chain(G, n, o.clust)} :
        \E touched, s, risky : Done(S, touched, s, risky)
  BY DEF f_truncate
<1>2. Window(disk, crashed, remove_chain(lib, o.sclust, 0))
  BY RemoveChain DEF WindowInv
<1>3. Window(disk, crashed, G) /\ G.vol = lib.vol
  BY GetFat DEF WindowInv
<1>4. n \in Cluster => n # 0
  BY Sizes DEF Cluster
<1>5. o.clust = 0 \/ n \notin Cluster \/ FatOf(G.vol, o.clust) # 0
  BY <1>3, <1>4
<1> HIDE DEF G, n
<1>6. Window(disk, crashed, remove_chain(G, n, o.clust))
  BY <1>3, <1>5, RemoveChain
<1> QED
  BY <1>1, <1>2, <1>6, DoneKeeps

LEMMA SyncKeeps ==
    ASSUME WindowInv, NEW f, NEW after, Sync(f, after)
    PROVE  WindowInv'
<1>1. \E o, touched, s, risky : Done(Synced(lib, o), touched, s, risky)
  BY DEF Sync
<1> QED
  BY <1>1, SyncedKeeps, DoneKeeps DEF WindowInv

LEMMA UnlinkKeeps ==
    ASSUME WindowInv, NEW p \in Paths, f_unlink(p)
    PROVE  WindowInv'
<1> DEFINE F == follow_path(lib, p)
           e == Entry(F)
           V == IF e.dir THEN Searched(F.s, e.clust) ELSE F.s
<1>1. \E S \in {F.s, V, Unlinked(V, F, e.clust)} : \E touched, s, risky : Done(S, touched, s, risky)
  BY DEF f_unlink
<1>2. Window(disk, crashed, F.s)
  BY FollowPath, CallsAssumption DEF WindowInv
<1> HIDE DEF F, e
<1>3. Window(disk, crashed, V)
  BY <1>2, SearchedKeeps
<1> HIDE DEF V
<1>4. Window(disk, crashed, Unlinked(V, F, e.clust))
  BY <1>3, UnlinkedKeeps
<1> QED
  BY <1>1, <1>2, <1>3, <1>4, DoneKeeps

LEMMA MkdirKeeps ==
    ASSUME WindowInv, NEW p \in Dirs, f_mkdir(p)
    PROVE  WindowInv'
<1> DEFINE F == follow_path(lib, p)
           C == create_chain(F.s, 0)
           N == Dirty(dir_clear(C.s, C.n), Dots(C.n, F.dc))
           D == dir_register(N, F.dc, Last(p))
           E == [Entry(D) EXCEPT !.dir = TRUE, !.clust = C.n]
           P == PutSlot(D.s, D.chain, D.pos, E)
<1>1. \E S \in {F.s, C.s, Withdrawn(D.s, C.n), sync_fs(P)} : \E touched, s, risky : Done(S, touched, s, risky)
  BY DEF f_mkdir
<1>2. Window(disk, crashed, F.s)
  BY FollowPath, CallsAssumption DEF WindowInv
<1> HIDE DEF F
<1>3. Window(disk, crashed, C.s)
  BY <1>2, CreateChain
<1> HIDE DEF C
<1>4. Window(disk, crashed, N)
  BY <1>3, DirClear, Apart, DirtyWindow
<1> HIDE DEF N
<1>5. Window(disk, crashed, D.s)
  BY <1>4, DirRegister
<1> HIDE DEF D, E
<1>6. Window(disk, crashed, Withdrawn(D.s, C.n))
  BY <1>5, RemoveChain DEF Withdrawn
<1>7. Window(disk, crashed, sync_fs(P))
  BY <1>5, PutSlotKeeps, SyncFs
<1> HIDE DEF P
<1> QED
  BY <1>1, <1>2, <1>3, <1>6, <1>7, DoneKeeps

LEMMA RenameKeeps ==
    ASSUME WindowInv, NEW old \in Paths, NEW new \in Paths, f_rename(old, new)
    PROVE  WindowInv'
<1> DEFINE Moves(F, G, e, D, N, P) ==
               /\ Done(sync_fs(dir_remove(P, F)), Under(old), Without(safe, Under(old)), TRUE)
               /\ want' = Renamed(want, old, new)
           Puts(F, G, e, D) ==
               IF D.pos = 0 THEN Done(D.s, {}, safe, D.grown) /\ UNCHANGED want
               ELSE \E N \in {PutSlot(D.s, D.chain, D.pos, [e EXCEPT !.sfn = Entry(D).sfn])} :
                    \E P \in {IF e.dir /\ F.dc # G.dc
                              THEN PutSlot(N, <<e.clust>>, 2, [k |-> "dots", clust |-> G.dc]) ELSE N} :
                        Moves(F, G, e, D, N, P)
           Ends(F, G) ==
               IF F.res # "OK" THEN Done(F.s, {}, safe, FALSE) /\ UNCHANGED want
               ELSE IF ~(G.res = "NO_FILE" \/ (G.res = "OK" /\ G.dc = F.dc /\ G.pos = F.pos))
               THEN Done(G.s, {}, safe, FALSE) /\ UNCHANGED want
               ELSE \E e \in {Entry(F)}, D \in {dir_register(G.s, G.dc, Last(new))} : Puts(F, G, e, D)
<1>1. \E F \in {follow_path(lib, old)} : \E G \in {follow_path(F.s, new)} : Ends(F, G)
  BY Zenon DEF f_rename
<1> HIDE DEF Ends
<1>2. PICK F, G : F = follow_path(lib, old) /\ G = follow_path(F.s, new) /\ Ends(F, G)
  BY <1>1
<1>3. Window(disk, crashed, F.s)
  BY <1>2, FollowPath, CallsAssumption DEF WindowInv
<1>4. Window(disk, crashed, G.s)
  BY <1>2, <1>3, FollowPath, CallsAssumption
<1> HIDE DEF Puts
<1>5. CASE Done(F.s, {}, safe, FALSE) \/ Done(G.s, {}, safe, FALSE)
  BY <1>3, <1>4, <1>5, DoneKeeps
<1>6. ASSUME NEW e, NEW D, D = dir_register(G.s, G.dc, Last(new)), Puts(F, G, e, D)
      PROVE  WindowInv'
  <2>1. Window(disk, crashed, D.s)
    BY <1>4, <1>6, DirRegister
  <2>2. CASE Done(D.s, {}, safe, D.grown)
    BY <2>1, <2>2, DoneKeeps
  <2> HIDE DEF Moves
  <2>3. CASE \E N \in {PutSlot(D.s, D.chain, D.pos, [e EXCEPT !.sfn = Entry(D).sfn])} :
             \E P \in {IF e.dir /\ F.dc # G.dc
                       THEN PutSlot(N, <<e.clust>>, 2, [k |-> "dots", clust |-> G.dc]) ELSE N} :
                 Moves(F, G, e, D, N, P)
    <3> DEFINE N == PutSlot(D.s, D.chain, D.pos, [e EXCEPT !.sfn = Entry(D).sfn])
               P == IF e.dir /\ F.dc # G.dc
                    THEN PutSlot(N, <<e.clust>>, 2, [k |-> "dots", clust |-> G.dc]) ELSE N
    <3>1. Moves(F, G, e, D, N, P)
      BY <2>3
    <3>2. Window(disk, crashed, N)
      BY <2>1, PutSlotKeeps
    <3> HIDE DEF N
    <3>3. Window(disk, crashed, P)
      BY <3>2, PutSlotKeeps
    <3> HIDE DEF P
    <3>4. Window(disk, crashed, sync_fs(dir_remove(P, F)))
      BY <3>3, DirRemove, SyncFs
    <3> QED
      BY <3>1, <3>4, DoneKeeps DEF Moves
  <2> QED
    BY <1>6, <2>2, <2>3 DEF Puts
<1> QED
  BY <1>2, <1>5, <1>6 DEF Ends

LEMMA GetfreeKeeps ==
    ASSUME WindowInv, f_getfree
    PROVE  WindowInv'
<1> DEFINE S == Walked(lib, [j \in 1 .. NClust |-> j + 1], NClust)
           N == [S EXCEPT !.free = Cardinality(Vacant(S.vol)), !.fsi = TRUE]
<1>1. Done(N, {}, safe, FALSE)
  BY DEF f_getfree
<1>2. Window(disk, crashed, S)
  BY WalkedKeeps DEF WindowInv
<1> HIDE DEF S
<1>3. /\ DOMAIN N = Fields /\ N.vol = S.vol /\ N.out = S.out /\ N.wf = S.wf /\ N.sect = S.sect
      /\ N.free = Cardinality(Vacant(S.vol))
  BY <1>2 DEF Window, Through, Fields
<1> HIDE DEF N
<1>4. Through(disk, N)
  BY <1>2, <1>3, BesideThrough DEF Window
<1>5. Window(disk, crashed, N)
  BY <1>2, <1>3, <1>4 DEF Window, Counting
<1> QED
  BY <1>1, <1>5, DoneKeeps

LEMMA StatKeeps ==
    ASSUME WindowInv, NEW p \in Paths, f_stat(p)
    PROVE  WindowInv'
BY FollowPath, DoneKeeps, CallsAssumption DEF f_stat, WindowInv

-----------------------------------------------------------------------------
(* The disk and the power.                                                 *)

LEMMA Landed ==
    ASSUME NEW d, NEW out, Writes(out), out # <<>>, NEW s \in DOMAIN d, NEW x, Arrives(d, out, s, x),
           NEW w, w = Head(out)
    PROVE  Writes(Tail(out)) /\ Arrives([d EXCEPT ![w[1]] = w[2]], Tail(out), s, x)
<1> DEFINE n == Len(out)
           rest == Tail(out)
           e == [d EXCEPT ![w[1]] = w[2]]
<1>1. PICK C : out \in Seq(C)
  BY DEF Writes
<1>2. /\ n \in Nat \ {0} /\ DOMAIN out = 1 .. n /\ w = out[1]
      /\ rest \in Seq(C) /\ Len(rest) = n - 1 /\ DOMAIN rest = 1 .. n - 1
      /\ \A k \in 1 .. n - 1 : rest[k] = out[k + 1]
  BY <1>1
<1>3. e[s] = IF w[1] = s THEN w[2] ELSE d[s]
  OBVIOUS
<1> HIDE DEF n, rest, e
<1>4. CASE d[s] = x /\ \A k \in DOMAIN out : out[k][1] # s
  <2>1. w[1] # s
    BY <1>2, <1>4
  <2>2. \A k \in DOMAIN rest : rest[k][1] # s
    <3> SUFFICES ASSUME NEW k \in 1 .. n - 1 PROVE rest[k][1] # s
      BY <1>2
    <3>1. k + 1 \in 1 .. n
      BY <1>2
    <3> QED
      BY <3>1, <1>2, <1>4
  <2>3. Arrives(e, rest, s, x)
    BY <1>3, <1>4, <2>1, <2>2 DEF Arrives
  <2> QED
    BY <1>2, <2>3 DEF Writes, e, rest
<1>5. CASE \E k \in DOMAIN out : out[k] = <<s, x>> /\ \A j \in k + 1 .. Len(out) : out[j][1] # s
  <2>1. PICK k \in 1 .. n : out[k] = <<s, x>> /\ \A j \in k + 1 .. n : out[j][1] # s
    BY <1>2, <1>5 DEF n
  <2>2. CASE k = 1
    <3>1. e[s] = x
      BY <1>2, <1>3, <2>1, <2>2
    <3>2. \A j \in DOMAIN rest : rest[j][1] # s
      <4> SUFFICES ASSUME NEW j \in 1 .. n - 1 PROVE rest[j][1] # s
        BY <1>2
      <4>1. j + 1 \in k + 1 .. n
        BY <1>2, <2>2
      <4> QED
        BY <4>1, <1>2, <2>1
    <3> QED
      BY <1>2, <3>1, <3>2 DEF Arrives, Writes, e, rest
  <2>3. CASE k # 1
    <3>1. k - 1 \in 1 .. n - 1 /\ k - 1 + 1 = k
      BY <1>2, <2>3
    <3>2. rest[k - 1] = <<s, x>>
      BY <3>1, <1>2, <2>1
    <3>3. \A j \in k - 1 + 1 .. Len(rest) : rest[j][1] # s
      <4> SUFFICES ASSUME NEW j \in k .. n - 1 PROVE rest[j][1] # s
        BY <3>1, <1>2
      <4>1. j \in 1 .. n - 1 /\ j + 1 \in k + 1 .. n
        BY <1>2
      <4> QED
        BY <4>1, <1>2, <2>1
    <3>4. Arrives(e, rest, s, x)
      BY <1>2, <3>1, <3>2, <3>3 DEF Arrives
    <3> QED
      BY <1>2, <3>4 DEF Writes, e, rest
  <2> QED
    BY <2>2, <2>3
<1> QED
  BY <1>4, <1>5 DEF Arrives

LEMMA MountedIs ==
    ASSUME NEW vol, DOMAIN vol = Sector
    PROVE  Through(vol, Mounted(vol))
<1>1. Writes(<<>>)
  <2>1. <<>> \in Seq({})
    OBVIOUS
  <2> QED
    BY <2>1 DEF Writes
<1>2. \A s \in Sector : Arrives(vol, <<>>, s, vol[s])
  BY DEF Arrives
<1> QED
  BY <1>1, <1>2 DEF Mounted, Through, Fields

LEMMA DiskWriteKeeps ==
    ASSUME WindowInv, DiskWrite
    PROVE  WindowInv'
<1> DEFINE w == Head(lib.out)
           e == [disk EXCEPT ![w[1]] = w[2]]
           T == [lib EXCEPT !.out = Tail(@)]
<1>1. lib.out # <<>> /\ disk' = e /\ lib' = T /\ crashed' = crashed
  BY DEF DiskWrite
<1>2. /\ DOMAIN T = Fields /\ T.vol = lib.vol /\ T.out = Tail(lib.out) /\ T.wf = lib.wf
      /\ T.sect = lib.sect /\ T.free = lib.free
  BY DEF WindowInv, Window, Through, Fields
<1> HIDE DEF T
<1>3. Writes(T.out)
  <2>1. PICK C : lib.out \in Seq(C)
    BY DEF WindowInv, Window, Through, Writes
  <2>2. Tail(lib.out) \in Seq(C)
    BY <1>1, <2>1
  <2> QED
    BY <1>2, <2>2 DEF Writes
<1>4. ASSUME NEW s \in Sector PROVE (T.wf /\ s = T.sect) \/ Arrives(e, T.out, s, T.vol[s])
  <2> HIDE DEF w
  <2>1. CASE lib.wf /\ s = lib.sect
    BY <1>2, <2>1
  <2>2. CASE Arrives(disk, lib.out, s, lib.vol[s])
    <3>1. s \in DOMAIN disk /\ Writes(lib.out) /\ w = Head(lib.out)
      BY DEF WindowInv, Window, Through, w
    <3>2. Arrives(e, Tail(lib.out), s, lib.vol[s])
      BY <1>1, <2>2, <3>1, Landed
    <3> QED
      BY <1>2, <3>2
  <2> QED
    BY <2>1, <2>2 DEF WindowInv, Window, Through
<1>5. DOMAIN e = Sector
  BY DEF WindowInv
<1> HIDE DEF e
<1>6. Window(e, crashed, T)
  BY <1>2, <1>3, <1>4 DEF WindowInv, Window, Through, Counting
<1> QED
  BY <1>1, <1>5, <1>6, Onward

LEMMA CrashKeeps ==
    ASSUME WindowInv, Crash
    PROVE  WindowInv'
<1>1. disk' = disk /\ lib' = Mounted(disk) /\ crashed' = TRUE
  BY DEF Crash
<1>2. DOMAIN disk = Sector
  BY DEF WindowInv
<1>3. Through(disk, Mounted(disk))
  BY <1>2, MountedIs
<1> QED
  BY <1>1, <1>2, <1>3
     DEF WindowInv, Window, Through, Writes, Arrives, Fields,
         Sector, FatSec, Data, Info, Cluster, Top

LEMMA InitWindow == Init => WindowInv
<1> SUFFICES ASSUME Init PROVE WindowInv
  OBVIOUS
<1>1. disk \in Images /\ lib = Mounted(disk)
  BY DEF Init
<1>2. /\ DOMAIN disk = Sector /\ Entries(disk)
      /\ disk[Info].free \in {Cardinality(Vacant(disk)), Unknown}
  BY <1>1, CallsAssumption DEF Entries
<1>3. Through(disk, lib)
  BY <1>1, <1>2, MountedIs
<1>4. Counting(lib)
  BY <1>1, <1>2 DEF Mounted, Counting
<1> QED
  BY <1>2, <1>3, <1>4 DEF WindowInv, Window

LEMMA NextKeeps == WindowInv /\ [Next]_vars => WindowInv'
<1> SUFFICES ASSUME WindowInv, [Next]_vars PROVE WindowInv'
  OBVIOUS
<1>1. ASSUME NEW f \in Fil, NEW p \in Paths, NEW m \in Modes, f_open(f, p, m) PROVE WindowInv'
  BY <1>1, OpenKeeps
<1>2. ASSUME NEW f \in Fil, f_read(f) \/ f_write(f) \/ f_truncate(f) PROVE WindowInv'
  BY <1>2, ReadKeeps, WriteKeeps, TruncateKeeps
<1>3. ASSUME NEW f \in Fil, f_sync(f) \/ f_close(f) PROVE WindowInv'
  BY <1>3, SyncKeeps DEF f_sync, f_close
<1>4. ASSUME NEW f \in Fil, NEW n \in 0 .. Size, f_lseek(f, n) PROVE WindowInv'
  BY <1>4, LseekKeeps
<1>5. ASSUME NEW p \in Paths, f_stat(p) \/ f_unlink(p) PROVE WindowInv'
  BY <1>5, StatKeeps, UnlinkKeeps
<1>6. ASSUME NEW p \in Paths, NEW q \in Paths, f_rename(p, q) PROVE WindowInv'
  BY <1>6, RenameKeeps
<1>7. ASSUME NEW p \in Dirs, f_mkdir(p) PROVE WindowInv'
  BY <1>7, MkdirKeeps
<1>8. CASE f_getfree
  BY <1>8, GetfreeKeeps
<1>9. CASE DiskWrite
  BY <1>9, DiskWriteKeeps
<1>10. CASE Crash
  BY <1>10, CrashKeeps
<1>11. CASE UNCHANGED vars
  <2>1. disk' = disk /\ lib' = lib /\ crashed' = crashed
    BY <1>11 DEF vars
  <2> QED
    BY <2>1, Onward DEF WindowInv
<1> QED
  BY <1>1, <1>2, <1>3, <1>4, <1>5, <1>6, <1>7, <1>8, <1>9, <1>10, <1>11, Zenon DEF Next

-----------------------------------------------------------------------------
(* The theorems.                                                           *)

\* What the library takes a sector to hold the medium will hold, but for the
\* dirty window: sync_window, move_window and everything above them lose no
\* change and bring back no old sector, whatever clusters they are led to.
THEOREM WindowKeepsAll == Spec => []WriteThrough
<1>1. WindowInv => WriteThrough
  BY DEF WindowInv, Window, Through, WriteThrough
<1> QED
  BY InitWindow, NextKeeps, <1>1, PTL DEF Spec

\* The count of free clusters follows the FAT: remove_chain, create_chain and
\* f_getfree count each entry they change once, and nobody else changes one
\* between free and in use.
THEOREM CountFollowsTable == Spec => []CountExact
<1>1. WindowInv => CountExact
  BY DEF WindowInv, Window, Counting, CountExact
<1> QED
  BY InitWindow, NextKeeps, <1>1, PTL DEF Spec

-----------------------------------------------------------------------------
(* Chains.                                                                 *)

\* No chain is longer than the volume.
LEMMA ShortEnough ==
    ASSUME NEW s \in Seq(Cluster), \A j, k \in 1 .. Len(s) : s[j] = s[k] => j = k
    PROVE  Len(s) <= NClust
<1>1. IsFiniteSet(Cluster) /\ Cardinality(Cluster) = NClust /\ NClust \in Nat
  <2>1. NClust \in Nat
    BY FatAssumption
  <2>2. Cluster = 2 .. NClust + 1 /\ NClust + 1 \in Int /\ NClust + 1 - 2 + 1 = NClust
    BY <2>1 DEF Cluster, Top
  <2>3. IsFiniteSet(2 .. NClust + 1)
        /\ Cardinality(2 .. NClust + 1) = IF 2 > NClust + 1 THEN 0 ELSE NClust + 1 - 2 + 1
    BY <2>1, FS_Interval
  <2> QED
    BY <2>1, <2>2, <2>3, FatAssumption
<1>2. Len(s) \in Nat /\ \A j \in 1 .. Len(s) : s[j] \in Cluster
  OBVIOUS
<1>3. IsFiniteSet(1 .. Len(s)) /\ Cardinality(1 .. Len(s)) = Len(s)
  <2>1. IsFiniteSet(1 .. Len(s))
        /\ Cardinality(1 .. Len(s)) = IF 1 > Len(s) THEN 0 ELSE Len(s) - 1 + 1
    BY <1>2, FS_Interval
  <2> QED
    BY <1>2, <2>1
<1>4. SUFFICES ASSUME Cardinality(Cluster) < Cardinality(1 .. Len(s)) PROVE FALSE
  BY <1>1, <1>2, <1>3
<1> DEFINE f == [j \in 1 .. Len(s) |-> s[j]]
<1>5. f \in [1 .. Len(s) -> Cluster]
  BY <1>2
<1>6. \E x, y \in 1 .. Len(s) : x # y /\ f[x] = f[y]
  <2> DEFINE D == 1 .. Len(s)
             C == Cluster
  <2> HIDE DEF f
  <2>1. IsFiniteSet(D) /\ IsFiniteSet(C) /\ Cardinality(C) < Cardinality(D) /\ f \in [D -> C]
    BY <1>1, <1>3, <1>4, <1>5
  <2> HIDE DEF D, C
  <2>2. \E x, y \in D : x # y /\ f[x] = f[y]
    BY <2>1, FS_PigeonHole, Zenon
  <2> QED
    BY <2>2 DEF D
<1> QED
  BY <1>6

\* Chain follows the FAT to the end of a chain: it finds the clusters Linked speaks of.
LEMMA ChainIs ==
    ASSUME NEW vol, NEW s, Linked(vol, s)
    PROVE  Chain(vol, s[1]) = s
<1> DEFINE c == s[1]
           N(g) == g = [n \in 0 .. NClust |->
                          IF n = 0 THEN c
                          ELSE IF g[n - 1] \in Cluster THEN FatOf(vol, g[n - 1]) ELSE 0]
           next == CHOOSE g : N(g)
           long == Cardinality({n \in 1 .. NClust : next[n - 1] \in Cluster})
<1>1. Chain(vol, s[1]) = [n \in 1 .. long |-> next[n - 1]]
  BY Zenon DEF Chain
<1>2. /\ Len(s) \in Nat /\ Len(s) >= 1 /\ NClust \in Nat /\ Len(s) <= NClust
      /\ \A j \in 1 .. Len(s) : s[j] \in Cluster
  BY ShortEnough, FatAssumption DEF Linked
<1> DEFINE h == [n \in 0 .. NClust |-> IF n < Len(s) THEN s[n + 1] ELSE IF n = Len(s) THEN Eoc ELSE 0]
<1>3. Eoc \notin Cluster /\ 0 \notin Cluster
  BY <1>2 DEF Eoc, Cluster, Top
<1>4. N(h)
  <2>1. ASSUME NEW n \in 0 .. NClust
        PROVE  h[n] = IF n = 0 THEN c ELSE IF h[n - 1] \in Cluster THEN FatOf(vol, h[n - 1]) ELSE 0
    <3>1. CASE n = 0
      BY <1>2, <3>1
    <3>2. CASE n # 0 /\ n < Len(s)
      <4>1. n - 1 \in 0 .. NClust /\ h[n - 1] = s[n] /\ n \in 1 .. Len(s) - 1
        BY <1>2, <3>2
      <4>2. FatOf(vol, s[n]) = s[n + 1]
        BY <4>1 DEF Linked
      <4> QED
        BY <1>2, <3>2, <4>1, <4>2
    <3>3. CASE n = Len(s)
      <4>1. n - 1 \in 0 .. NClust /\ h[n - 1] = s[n]
        BY <1>2, <3>3
      <4>2. FatOf(vol, s[n]) = Eoc
        BY <3>3 DEF Linked
      <4> QED
        BY <1>2, <3>3, <4>1, <4>2
    <3>4. CASE n = Len(s) + 1
      <4>1. n - 1 \in 0 .. NClust /\ h[n - 1] = Eoc
        BY <1>2, <3>4
      <4> QED
        BY <1>2, <1>3, <3>4, <4>1
    <3>5. CASE n > Len(s) + 1
      <4>1. n - 1 \in 0 .. NClust /\ h[n - 1] = 0
        BY <1>2, <3>5
      <4> QED
        BY <1>2, <1>3, <3>5, <4>1
    <3> QED
      BY <1>2, <3>1, <3>2, <3>3, <3>4, <3>5
  <2> QED
    BY <2>1
<1>5. N(next)
  BY <1>4
<1> DEFINE Q == {n \in Nat : next[n] = h[n]}
<1>6. next = h
  <2> HIDE DEF h, next, c
  <2>1. 0 \in Q
    BY <1>2, <1>4, <1>5
  <2>2. ASSUME NEW n \in 1 .. NClust, n - 1 \in Q PROVE n \in Q
    <3>1. n \in 0 .. NClust /\ n # 0
      BY <1>2
    <3>2. h[n] = IF h[n - 1] \in Cluster THEN FatOf(vol, h[n - 1]) ELSE 0
      BY <1>4, <3>1
    <3>3. next[n] = IF next[n - 1] \in Cluster THEN FatOf(vol, next[n - 1]) ELSE 0
      BY <1>5, <3>1
    <3> QED
      BY <1>2, <2>2, <3>2, <3>3
  <2>3. \A n \in 0 .. NClust : n \in Q
    <3> HIDE DEF Q
    <3> QED
      BY <1>2, <2>1, <2>2, Turns
  <2>4. \A n \in 0 .. NClust : next[n] = h[n]
    BY <2>3
  <2>5. next = [n \in 0 .. NClust |-> next[n]] /\ h = [n \in 0 .. NClust |-> h[n]]
    BY <1>4, <1>5
  <2> QED
    BY <2>4, <2>5
<1> HIDE DEF next
<1>7. {n \in 1 .. NClust : next[n - 1] \in Cluster} = 1 .. Len(s)
  <2>1. ASSUME NEW n \in 1 .. NClust PROVE next[n - 1] \in Cluster <=> n <= Len(s)
    <3>1. n - 1 \in 0 .. NClust /\ n - 1 + 1 = n
      BY <1>2
    <3>2. CASE n <= Len(s)
      <4>1. next[n - 1] = s[n]
        BY <1>2, <1>6, <3>1, <3>2
      <4> QED
        BY <1>2, <3>2, <4>1
    <3>3. CASE ~(n <= Len(s))
      <4>1. next[n - 1] \in {Eoc, 0}
        BY <1>2, <1>6, <3>1, <3>3
      <4> QED
        BY <1>3, <3>3, <4>1
    <3> QED
      BY <3>2, <3>3
  <2> QED
    BY <1>2, <2>1
<1>8. long = Len(s)
  <2>1. Cardinality(1 .. Len(s)) = IF 1 > Len(s) THEN 0 ELSE Len(s) - 1 + 1
    BY <1>2, FS_Interval
  <2>2. long = Cardinality(1 .. Len(s))
    BY <1>7, Zenon
  <2> HIDE DEF long
  <2> QED
    BY <1>2, <2>1, <2>2
<1> HIDE DEF long
<1>9. \A n \in 1 .. Len(s) : next[n - 1] = s[n]
  BY <1>2, <1>6
<1>10. s = [n \in 1 .. Len(s) |-> s[n]]
  BY DEF Linked
<1> QED
  BY <1>1, <1>8, <1>9, <1>10

\* The sectors of data are the same.
Aside(v, w) == \A c \in Cluster : w[Data(c)] = v[Data(c)]

\* put_fat writes to the FAT only.
LEMMA PutFatAside ==
    ASSUME NEW d, NEW S, Through(d, S), NEW c, NEW v
    PROVE  Aside(S.vol, put_fat(S, c, v).vol)
<1> DEFINE T == get_fat(S, c)
           N == Dirty(T, [T.vol[T.sect] EXCEPT ![c] = v])
<1>1. CASE c \notin Cluster
  <2>1. put_fat(S, c, v) = S
    BY <1>1 DEF put_fat
  <2> QED
    BY <2>1 DEF Aside
<1>2. CASE c \in Cluster
  <2>1. put_fat(S, c, v) = N
    BY <1>2 DEF put_fat
  <2>2. T = move_window(S, FatSec(c))
    BY <1>2 DEF get_fat
  <2> HIDE DEF T
  <2>3. Through(d, T) /\ T.vol = S.vol /\ T.sect = FatSec(c)
    BY <2>2, MoveIs
  <2>4. N.vol = [S.vol EXCEPT ![FatSec(c)] = [T.vol[T.sect] EXCEPT ![c] = v]]
    BY <2>3 DEF Dirty, Through, Fields
  <2> HIDE DEF N
  <2>5. ASSUME NEW b \in Cluster PROVE N.vol[Data(b)] = S.vol[Data(b)]
    <3>1. Data(b) \in DOMAIN S.vol
      BY DEF Through, Sector
    <3> QED
      BY <2>4, <3>1, Apart
  <2> QED
    BY <2>1, <2>5 DEF Aside
<1> QED
  BY <1>1, <1>2

\* Freed empties one entry of the FAT and touches no other.
LEMMA FreedIs ==
    ASSUME NEW d, NEW S, Through(d, S), Entries(S.vol), NEW c
    PROVE  /\ Through(d, Freed(S, c)) /\ Entries(Freed(S, c).vol) /\ Aside(S.vol, Freed(S, c).vol)
           /\ \A b \in Cluster : FatOf(Freed(S, c).vol, b) = IF b = c THEN 0 ELSE FatOf(S.vol, b)
<1> DEFINE T == put_fat(S, c, 0)
           N == [T EXCEPT !.free = @ + 1, !.fsi = TRUE]
<1>1. Through(d, T)
  BY PutThrough
<1>2. Freed(S, c) = IF T.free < NClust THEN N ELSE T
  BY DEF Freed, Counted
<1>3. /\ Entries(T.vol) /\ Aside(S.vol, T.vol)
      /\ \A b \in Cluster : FatOf(T.vol, b) = IF b = c THEN 0 ELSE FatOf(S.vol, b)
  BY PutFatIs, PutFatAside
<1> HIDE DEF T
<1>4. /\ DOMAIN N = Fields /\ N.vol = T.vol /\ N.out = T.out /\ N.wf = T.wf /\ N.sect = T.sect
  BY <1>1 DEF Through, Fields
<1> HIDE DEF N
<1>5. Through(d, N)
  BY <1>1, <1>4, BesideThrough
<1> QED
  BY <1>1, <1>2, <1>3, <1>4, <1>5

\* remove_chain frees the chain that begins at c and nothing else.
LEMMA RemoveChainIs ==
    ASSUME NEW d, NEW S, Through(d, S), Entries(S.vol), NEW c, NEW p,
           NEW V, V = IF p # 0 /\ c \in Cluster THEN put_fat(S, p, Eoc) ELSE S,
           NEW s, Linked(V.vol, s), s[1] = c
    PROVE  /\ Entries(remove_chain(S, c, p).vol) /\ Aside(S.vol, remove_chain(S, c, p).vol)
           /\ \A b \in Cluster : FatOf(remove_chain(S, c, p).vol, b) =
                                     IF On(s, b) THEN 0 ELSE FatOf(V.vol, b)
<1> DEFINE loop == [name |-> "remove_chain"]
           turns == NClust
           s0 == [s |-> V, c |-> c]
           F(T, k) ==
               IF FatOf(T.s.vol, T.c) \in {0, 1} THEN T
               ELSE [s |-> Freed(T.s, T.c), c |-> FatOf(T.s.vol, T.c)]
           G(g) == g = [k \in 0 .. turns |-> IF k = 0 THEN s0 ELSE F(g[k - 1], k)]
           Good(T, k) ==
               /\ Through(d, T.s) /\ Entries(T.s.vol) /\ Aside(S.vol, T.s.vol)
               /\ T.c = IF k < Len(s) THEN s[k + 1] ELSE Eoc
               /\ \A b \in Cluster : FatOf(T.s.vol, b) =
                      IF \E j \in 1 .. Len(s) : j <= k /\ s[j] = b THEN 0 ELSE FatOf(V.vol, b)
           Q(g) == {k \in Nat : Good(g[k], k)}
<1>1. turns \in Nat /\ Len(s) \in Nat /\ Len(s) >= 1 /\ Len(s) <= turns
      /\ \A j \in 1 .. Len(s) : s[j] \in Cluster
  BY ShortEnough, Sizes DEF Linked
<1>2. \A T, k : Turn(loop, T, k) = F(T, k)
  BY DEF Turn
<1>3. Good(s0, 0)
  <2>1. Through(d, V) /\ Entries(V.vol) /\ Aside(S.vol, V.vol)
    BY PutThrough, PutFatIs, PutFatAside DEF Aside
  <2> QED
    BY <1>1, <2>1
<1>4. ASSUME NEW T, NEW k \in 1 .. turns, Good(T, k - 1) PROVE Good(F(T, k), k)
  <2>1. CASE k <= Len(s)
    <3>1. T.c = s[k] /\ s[k] \in Cluster
      BY <1>1, <1>4, <2>1
    <3>2. ~\E j \in 1 .. Len(s) : j <= k - 1 /\ s[j] = s[k]
      BY <1>1, <2>1 DEF Linked
    <3>3. FatOf(T.s.vol, T.c) = FatOf(V.vol, s[k])
      BY <1>4, <3>1, <3>2
    <3>4. FatOf(V.vol, s[k]) = IF k < Len(s) THEN s[k + 1] ELSE Eoc
      BY <1>1, <2>1 DEF Linked
    <3>5. FatOf(T.s.vol, T.c) \notin {0, 1}
      BY <1>1, <2>1, <3>3, <3>4, Sizes DEF Cluster, Eoc
    <3>6. F(T, k).s = Freed(T.s, T.c) /\ F(T, k).c = FatOf(T.s.vol, T.c)
      BY <3>5
    <3> DEFINE N == Freed(T.s, T.c)
    <3>7. /\ Through(d, N) /\ Entries(N.vol) /\ Aside(T.s.vol, N.vol)
          /\ \A b \in Cluster : FatOf(N.vol, b) = IF b = T.c THEN 0 ELSE FatOf(T.s.vol, b)
      BY <1>4, FreedIs
    <3> HIDE DEF N
    <3>8. Aside(S.vol, N.vol)
      BY <1>4, <3>7 DEF Aside
    <3>9. ASSUME NEW b \in Cluster
          PROVE  FatOf(N.vol, b) =
                     IF \E j \in 1 .. Len(s) : j <= k /\ s[j] = b THEN 0 ELSE FatOf(V.vol, b)
      <4>1. CASE b = s[k]
        BY <1>1, <2>1, <3>1, <3>7, <4>1
      <4>2. CASE b # s[k]
        <5>1. (\E j \in 1 .. Len(s) : j <= k /\ s[j] = b) <=> \E j \in 1 .. Len(s) : j <= k - 1 /\ s[j] = b
          BY <1>1, <4>2
        <5>2. FatOf(N.vol, b) = FatOf(T.s.vol, b)
          BY <3>1, <3>7, <4>2
        <5> QED
          BY <1>4, <5>1, <5>2
      <4> QED
        BY <4>1, <4>2
    <3> QED
      BY <3>3, <3>4, <3>6, <3>7, <3>8, <3>9 DEF N
  <2>2. CASE ~(k <= Len(s))
    <3>1. T.c = Eoc /\ Eoc \notin Cluster
      BY <1>1, <1>4, <2>2, Sizes DEF Eoc, Cluster
    <3>2. FatOf(T.s.vol, T.c) = 1
      BY <3>1 DEF FatOf
    <3>3. F(T, k) = T
      BY <3>2
    <3>4. \A j \in 1 .. Len(s) : j <= k <=> j <= k - 1
      BY <1>1, <2>2
    <3>5. ~(k < Len(s))
      BY <1>1, <2>2
    <3> HIDE DEF F
    <3> QED
      BY <1>4, <3>1, <3>3, <3>4, <3>5
  <2> QED
    BY <2>1, <2>2
<1>5. remove_chain(S, c, p) = (CHOOSE g : G(g))[turns].s
  BY Zenon DEF remove_chain, Loop
<1> HIDE DEF F, s0, loop, turns, Good
<1>6. \E g : G(g)
  <2>1. PICK g : Run(loop, s0, turns, g)
    BY <1>1, RunExists
  <2>2. G(g)
    BY <2>1, <1>2 DEF Run
  <2> QED
    BY <2>2
<1>7. PICK g : G(g) /\ remove_chain(S, c, p) = g[turns].s
  BY <1>5, <1>6
<1>8. 0 \in Q(g)
  BY <1>1, <1>3, <1>7
<1>9. ASSUME NEW k \in 1 .. turns, k - 1 \in Q(g) PROVE k \in Q(g)
  <2>1. g[k] = F(g[k - 1], k) /\ k \in Nat
    BY <1>1, <1>7
  <2> QED
    BY <2>1, <1>4, <1>9
<1>10. turns \in Q(g)
  <2> HIDE DEF Q
  <2>1. turns \in Nat
    BY <1>1
  <2> QED
    BY <2>1, <1>8, <1>9, Turns
<1>11. Good(g[turns], turns)
  BY <1>10
<1>12. \A j \in 1 .. Len(s) : j <= turns
  BY <1>1
<1> QED
  BY <1>7, <1>11, <1>12 DEF Good, On

\* A cluster is on one chain only.
LEMMA OffChain ==
    ASSUME NEW vol, NEW ch, Chains(vol, ch), NEW g \in DOMAIN ch, NEW h \in DOMAIN ch, g # h
    PROVE  \A j \in 1 .. Len(ch[g]) : ch[g][j] \in Cluster /\ ~On(ch[h], ch[g][j])
<1> TAKE j \in 1 .. Len(ch[g])
<1>1. ch[g][j] \in Cluster
  BY DEF Chains, Linked
<1>2. On(ch[g], ch[g][j])
  BY DEF On
<1> QED
  BY <1>1, <1>2 DEF Chains

\* A chain freed from its head is no more.
LEMMA DropChain ==
    ASSUME NEW d, NEW S, Through(d, S), NEW ch, Chains(S.vol, ch), NEW h \in DOMAIN ch
    PROVE  /\ Chains(remove_chain(S, h, 0).vol, Without(ch, {h}))
           /\ Aside(S.vol, remove_chain(S, h, 0).vol)
<1> DEFINE R == remove_chain(S, h, 0)
           new == Without(ch, {h})
<1>1. /\ Entries(R.vol) /\ Aside(S.vol, R.vol)
      /\ \A b \in Cluster : FatOf(R.vol, b) = IF On(ch[h], b) THEN 0 ELSE FatOf(S.vol, b)
  BY RemoveChainIs DEF Chains
<1> HIDE DEF R
<1>2. DOMAIN new = DOMAIN ch \ {h} /\ \A g \in DOMAIN new : new[g] = ch[g]
  BY DEF Without
<1> HIDE DEF new
<1>3. ASSUME NEW g \in DOMAIN new PROVE Linked(R.vol, new[g])
  <2>1. Linked(S.vol, ch[g]) /\ new[g] = ch[g] /\ g # h /\ g \in DOMAIN ch
    BY <1>2 DEF Chains
  <2>2. \A j \in 1 .. Len(ch[g]) : ch[g][j] \in Cluster /\ ~On(ch[h], ch[g][j])
    BY <2>1, OffChain
  <2>3. \A j \in 1 .. Len(ch[g]) : FatOf(R.vol, ch[g][j]) = FatOf(S.vol, ch[g][j])
    BY <1>1, <2>2
  <2>4. Len(ch[g]) \in 1 .. Len(ch[g]) /\ \A j \in 1 .. Len(ch[g]) - 1 : j \in 1 .. Len(ch[g])
    BY <2>1 DEF Linked
  <2> QED
    BY <2>1, <2>3, <2>4 DEF Linked
<1>4. ASSUME NEW b \in Cluster, FatOf(R.vol, b) # 0 PROVE \E g \in DOMAIN new : On(new[g], b)
  <2>1. ~On(ch[h], b) /\ FatOf(S.vol, b) # 0
    BY <1>1, <1>4
  <2>2. PICK g \in DOMAIN ch : On(ch[g], b)
    BY <2>1 DEF Chains
  <2> QED
    BY <1>2, <2>1, <2>2
<1> QED
  BY <1>1, <1>2, <1>3, <1>4 DEF Chains, R, new

\* A chain cut after its m-th cluster ends there.
LEMMA CutChain ==
    ASSUME NEW d, NEW S, Through(d, S), NEW ch, Chains(S.vol, ch), NEW h \in DOMAIN ch,
           NEW m \in 1 .. Len(ch[h]) - 1
    PROVE  /\ Chains(remove_chain(S, ch[h][m + 1], ch[h][m]).vol, [ch EXCEPT ![h] = SubSeq(@, 1, m)])
           /\ Aside(S.vol, remove_chain(S, ch[h][m + 1], ch[h][m]).vol)
<1> DEFINE s == ch[h]
           p == s[m]
           c == s[m + 1]
           R == remove_chain(S, c, p)
           V == put_fat(S, p, Eoc)
           t == [j \in 1 .. Len(s) - m |-> s[m + j]]
           u == SubSeq(s, 1, m)
           new == [ch EXCEPT ![h] = u]
<1>1. Linked(S.vol, s) /\ s[1] = h
  BY DEF Chains
<1> HIDE DEF s
<1>2. /\ Len(s) \in Nat /\ m \in 1 .. Len(s) - 1 /\ s \in Seq(Cluster)
      /\ \A j \in 1 .. Len(s) : s[j] \in Cluster
  BY <1>1 DEF Linked, s
<1>3. p \in Cluster /\ p # 0 /\ c \in Cluster
  BY <1>2, Sizes DEF Cluster
<1>4. /\ Entries(V.vol) /\ Aside(S.vol, V.vol)
      /\ \A b \in Cluster : FatOf(V.vol, b) = IF b = p THEN Eoc ELSE FatOf(S.vol, b)
  BY PutFatIs, PutFatAside DEF Chains
<1>5. V = IF p # 0 /\ c \in Cluster THEN put_fat(S, p, Eoc) ELSE S
  BY <1>3
<1>6. t \in Seq(Cluster) /\ Len(t) = Len(s) - m /\ \A j \in 1 .. Len(s) - m : t[j] = s[m + j]
  BY <1>2
<1>7. u \in Seq(Cluster) /\ Len(u) = m /\ \A j \in 1 .. m : u[j] = s[j]
  BY <1>2
<1> HIDE DEF t, u, V, R, p, c
<1>8. Linked(V.vol, t)
  <2>1. \A j \in 1 .. Len(t) : t[j] = s[m + j] /\ m + j \in 1 .. Len(s) /\ m + j # m
    BY <1>2, <1>6
  <2>2. \A j, k \in 1 .. Len(t) : t[j] = t[k] => j = k
    BY <1>1, <1>2, <2>1 DEF Linked
  <2>3. \A j \in 1 .. Len(t) : t[j] # p /\ t[j] \in Cluster
    BY <1>1, <1>2, <2>1 DEF Linked, p
  <2>4. \A j \in 1 .. Len(t) : FatOf(V.vol, t[j]) = FatOf(S.vol, s[m + j])
    BY <1>4, <2>1, <2>3
  <2>5. ASSUME NEW j \in 1 .. Len(t) - 1 PROVE FatOf(V.vol, t[j]) = t[j + 1]
    <3>1. m + j \in 1 .. Len(s) - 1 /\ j \in 1 .. Len(t) /\ j + 1 \in 1 .. Len(t)
          /\ m + (j + 1) = m + j + 1
      BY <1>2, <1>6
    <3>2. FatOf(S.vol, s[m + j]) = s[m + j + 1]
      BY <1>1, <3>1 DEF Linked
    <3> QED
      BY <2>1, <2>4, <3>1, <3>2
  <2>6. FatOf(V.vol, t[Len(t)]) = Eoc
    <3>1. Len(t) \in 1 .. Len(t) /\ m + Len(t) = Len(s)
      BY <1>2, <1>6
    <3> QED
      BY <1>1, <2>4, <3>1 DEF Linked
  <2>7. t # <<>>
    BY <1>2, <1>6
  <2> QED
    BY <1>6, <2>2, <2>5, <2>6, <2>7 DEF Linked
<1>9. t[1] = c
  BY <1>2, <1>6 DEF c
<1>10. /\ Entries(R.vol) /\ Aside(S.vol, R.vol)
       /\ \A b \in Cluster : FatOf(R.vol, b) = IF On(t, b) THEN 0 ELSE FatOf(V.vol, b)
  BY <1>5, <1>8, <1>9, RemoveChainIs DEF R, Chains
<1>11. \A b : On(s, b) <=> On(u, b) \/ On(t, b)
  <2>1. ASSUME NEW b, On(s, b) PROVE On(u, b) \/ On(t, b)
    <3>1. PICK j \in 1 .. Len(s) : s[j] = b
      BY <2>1 DEF On
    <3>2. CASE j <= m
      <4>1. j \in 1 .. m /\ u[j] = b
        BY <1>2, <1>7, <3>1, <3>2
      <4> QED
        BY <1>7, <4>1 DEF On
    <3>3. CASE ~(j <= m)
      <4>1. j - m \in 1 .. Len(t) /\ m + (j - m) = j
        BY <1>2, <1>6, <3>3
      <4>2. t[j - m] = b
        BY <1>6, <3>1, <4>1
      <4> QED
        BY <4>1, <4>2 DEF On
    <3> QED
      BY <3>2, <3>3
  <2>2. ASSUME NEW b, On(u, b) PROVE On(s, b)
    <3>1. PICK j \in 1 .. m : u[j] = b
      BY <1>7, <2>2 DEF On
    <3>2. j \in 1 .. Len(s) /\ s[j] = b
      BY <1>2, <1>7, <3>1
    <3> QED
      BY <3>2 DEF On
  <2>3. ASSUME NEW b, On(t, b) PROVE On(s, b)
    <3>1. PICK j \in 1 .. Len(s) - m : t[j] = b
      BY <1>6, <2>3 DEF On
    <3>2. m + j \in 1 .. Len(s) /\ s[m + j] = b
      BY <1>2, <1>6, <3>1
    <3> QED
      BY <3>2 DEF On
  <2> QED
    BY <2>1, <2>2, <2>3
<1>12. \A b : ~(On(u, b) /\ On(t, b))
  BY <1>1, <1>2, <1>6, <1>7 DEF On, Linked
<1>13. Linked(R.vol, u) /\ u[1] = h
  <2>1. \A j \in 1 .. m : u[j] = s[j] /\ u[j] \in Cluster /\ ~On(t, u[j])
    BY <1>2, <1>7, <1>12 DEF On
  <2>2. \A j \in 1 .. m : FatOf(R.vol, u[j]) = IF j = m THEN Eoc ELSE FatOf(S.vol, s[j])
    BY <1>1, <1>2, <1>4, <1>10, <2>1 DEF Linked, p
  <2>3. \A j \in 1 .. m - 1 : FatOf(S.vol, s[j]) = s[j + 1] /\ u[j + 1] = s[j + 1] /\ j # m /\ j \in 1 .. m
    BY <1>1, <1>2, <1>7 DEF Linked
  <2>4. \A j \in 1 .. m - 1 : FatOf(R.vol, u[j]) = u[j + 1]
    BY <2>2, <2>3
  <2>5. u # <<>> /\ 1 \in 1 .. m /\ m \in 1 .. m
    BY <1>2, <1>7
  <2>6. \A j, k \in 1 .. m : u[j] = u[k] => j = k
    BY <1>1, <1>2, <2>1 DEF Linked
  <2> QED
    BY <1>1, <1>7, <2>1, <2>2, <2>4, <2>5, <2>6 DEF Linked
<1>14. /\ DOMAIN new = DOMAIN ch /\ new[h] = u /\ \A g \in DOMAIN ch : g # h => new[g] = ch[g]
  OBVIOUS
<1>15. new = [ch EXCEPT ![h] = SubSeq(@, 1, m)]
  BY DEF u, s
<1> HIDE DEF new
<1>16. ASSUME NEW g \in DOMAIN ch, g # h PROVE Linked(R.vol, ch[g])
  <2>1. Linked(S.vol, ch[g])
    BY DEF Chains
  <2>2. \A j \in 1 .. Len(ch[g]) : ch[g][j] \in Cluster /\ ~On(s, ch[g][j])
    BY <1>16, OffChain DEF s
  <2>p. On(s, p)
    BY <1>2 DEF On, p
  <2>3. \A j \in 1 .. Len(ch[g]) : ch[g][j] # p /\ ~On(t, ch[g][j])
    BY <1>11, <2>2, <2>p
  <2>4. \A j \in 1 .. Len(ch[g]) : FatOf(R.vol, ch[g][j]) = FatOf(S.vol, ch[g][j])
    BY <1>4, <1>10, <2>2, <2>3
  <2>5. Len(ch[g]) \in 1 .. Len(ch[g]) /\ \A j \in 1 .. Len(ch[g]) - 1 : j \in 1 .. Len(ch[g])
    BY <2>1 DEF Linked
  <2> QED
    BY <2>1, <2>4, <2>5 DEF Linked
<1>17. ASSUME NEW b \in Cluster, FatOf(R.vol, b) # 0 PROVE \E g \in DOMAIN ch : On(new[g], b)
  <2>1. ~On(t, b) /\ FatOf(V.vol, b) # 0
    BY <1>10, <1>17
  <2>2. CASE b = p
    <3>1. On(s, b)
      BY <1>2, <2>2 DEF On, p
    <3> QED
      BY <1>11, <1>14, <2>1, <3>1
  <2>3. CASE b # p
    <3>1. PICK g \in DOMAIN ch : On(ch[g], b)
      BY <1>4, <2>1, <2>3 DEF Chains
    <3> QED
      BY <1>11, <1>14, <2>1, <3>1 DEF s
  <2> QED
    BY <2>2, <2>3
<1>18. \A g, k \in DOMAIN ch : \A b \in Cluster : On(new[g], b) /\ On(new[k], b) => g = k
  <2>1. \A g \in DOMAIN ch : \A b : On(new[g], b) => On(ch[g], b)
    BY <1>11, <1>14 DEF s
  <2> QED
    BY <2>1 DEF Chains
<1>19. Chains(R.vol, new)
  <2>1. \A g \in DOMAIN new : Linked(R.vol, new[g]) /\ new[g][1] = g
    BY <1>13, <1>14, <1>16 DEF Chains
  <2> QED
    BY <1>10, <1>14, <1>17, <1>18, <2>1 DEF Chains
<1> QED
  BY <1>10, <1>15, <1>19 DEF R, c, p, s

\* create_chain takes a free cluster, marks it as the last one and hangs it behind c, or finds none
\* and changes nothing.
LEMMA StretchedIs ==
    ASSUME NEW d, NEW gone, NEW S, Window(d, gone, S), Entries(S.vol),
           NEW c, c = 0 \/ (c \in Cluster /\ FatOf(S.vol, c) # 0),
           NEW R, R = Stretched(S, c)
    PROVE  \/ R.n = 0 /\ R.s.vol = S.vol
           \/ /\ R.n \in Cluster /\ FatOf(S.vol, R.n) = 0
              /\ Entries(R.s.vol) /\ Aside(S.vol, R.s.vol)
              /\ \A b \in Cluster : FatOf(R.s.vol, b) =
                    IF b = R.n THEN Eoc ELSE IF b = c THEN R.n ELSE FatOf(S.vol, b)
<1> DEFINE near == IF c = Top THEN 2 ELSE c + 1
           order == IF c = 0
                    THEN Probes(IF S.last \in 1 .. Top THEN S.last ELSE 1)
                    ELSE <<near>> \o Probes(IF S.last \in Cluster THEN S.last ELSE c)
           isFree(x) == FatOf(S.vol, x) = 0
           k == Min({j \in DOMAIN order : isFree(order[j])} \cup {Len(order)})
           x == order[k]
           T == Walked(S, order, k)
           U == put_fat(T, x, Eoc)
           V == IF c = 0 THEN U ELSE put_fat(U, c, x)
           N == [V EXCEPT !.last = x, !.fsi = TRUE, !.free = IF @ <= NClust THEN @ - 1 ELSE @]
<1>1. R = IF S.free = 0 THEN [s |-> S, n |-> 0]
          ELSE IF isFree(x) THEN [s |-> N, n |-> x] ELSE [s |-> T, n |-> 0]
  BY Zenon DEF Stretched
<1> HIDE DEF near, order, k, x
<1>2. Through(d, T) /\ T.vol = S.vol
  BY WalkedKeeps DEF Window
<1> HIDE DEF T
<1>3. CASE S.free = 0 \/ ~isFree(x)
  BY <1>1, <1>2, <1>3
<1>4. CASE S.free # 0 /\ isFree(x)
  <2>1. x \in Cluster
    BY <1>4 DEF FatOf
  <2>2. Through(d, U) /\ Entries(U.vol) /\ Aside(S.vol, U.vol)
        /\ \A b \in Cluster : FatOf(U.vol, b) = IF b = x THEN Eoc ELSE FatOf(S.vol, b)
    BY <1>2, PutThrough, PutFatIs, PutFatAside
  <2> HIDE DEF U
  <2>3. /\ Through(d, V) /\ Entries(V.vol) /\ Aside(S.vol, V.vol)
        /\ \A b \in Cluster : FatOf(V.vol, b) =
              IF b = x THEN Eoc ELSE IF b = c THEN x ELSE FatOf(S.vol, b)
    <3>1. CASE c = 0
      <4>1. \A b \in Cluster : b # c
        BY <3>1, Sizes DEF Cluster
      <4> QED
        BY <2>2, <3>1, <4>1
    <3>2. CASE c # 0
      <4> DEFINE W == put_fat(U, c, x)
      <4>1. /\ Through(d, W) /\ Entries(W.vol) /\ Aside(U.vol, W.vol)
            /\ \A b \in Cluster : FatOf(W.vol, b) = IF b = c THEN x ELSE FatOf(U.vol, b)
        BY <2>2, PutThrough, PutFatIs, PutFatAside
      <4>2. V = W
        BY <3>2
      <4> HIDE DEF W, V
      <4>3. c # x
        BY <1>4, <3>2
      <4>4. Aside(S.vol, W.vol)
        BY <2>2, <4>1 DEF Aside
      <4> QED
        BY <2>2, <4>1, <4>2, <4>3, <4>4
    <3> QED
      BY <3>1, <3>2
  <2> HIDE DEF V
  <2>4. N.vol = V.vol
    BY <2>3 DEF Through, Fields
  <2> HIDE DEF N
  <2>5. R.n = x /\ R.s.vol = V.vol
    BY <1>1, <1>4, <2>4
  <2> QED
    BY <1>4, <2>1, <2>3, <2>5
<1> QED
  BY <1>3, <1>4

\* A chain depends on the entries of its own clusters only.
LEMMA SameLinks ==
    ASSUME NEW v, NEW s, Linked(v, s), NEW w,
           \A j \in 1 .. Len(s) : FatOf(w, s[j]) = FatOf(v, s[j])
    PROVE  Linked(w, s)
<1>1. Len(s) \in 1 .. Len(s) /\ \A j \in 1 .. Len(s) - 1 : j \in 1 .. Len(s)
  BY DEF Linked
<1> QED
  BY <1>1 DEF Linked

\* A free cluster is on no chain.
LEMMA FreshCluster ==
    ASSUME NEW vol, NEW ch, Chains(vol, ch), NEW n \in Cluster, FatOf(vol, n) = 0
    PROVE  n \notin DOMAIN ch /\ \A h \in DOMAIN ch : ~On(ch[h], n)
<1>1. ASSUME NEW h \in DOMAIN ch, On(ch[h], n) PROVE FALSE
  <2>1. PICK j \in 1 .. Len(ch[h]) : ch[h][j] = n
    BY <1>1 DEF On
  <2>2. Linked(vol, ch[h])
    BY DEF Chains
  <2>3. CASE j = Len(ch[h])
    BY <2>1, <2>2, <2>3, Sizes DEF Linked, Eoc
  <2>4. CASE j # Len(ch[h])
    <3>1. j \in 1 .. Len(ch[h]) - 1 /\ j + 1 \in 1 .. Len(ch[h])
      BY <2>2, <2>4 DEF Linked
    <3>2. FatOf(vol, n) = ch[h][j + 1] /\ ch[h][j + 1] \in Cluster
      BY <2>1, <2>2, <3>1 DEF Linked
    <3> QED
      BY <3>2, Sizes DEF Cluster
  <2> QED
    BY <2>3, <2>4
<1>2. ASSUME n \in DOMAIN ch PROVE On(ch[n], n)
  BY <1>2 DEF Chains, Linked, On
<1> QED
  BY <1>1, <1>2

\* A cluster taken for a new chain.
LEMMA NewChain ==
    ASSUME NEW d, NEW gone, NEW S, Window(d, gone, S), NEW ch, Chains(S.vol, ch),
           NEW R, R = create_chain(S, 0)
    PROVE  \/ R.n = 0 /\ R.s.vol = S.vol
           \/ /\ R.n \in Cluster /\ R.n \notin DOMAIN ch /\ \A h \in DOMAIN ch : ~On(ch[h], R.n)
              /\ Chains(R.s.vol, With(ch, R.n, <<R.n>>)) /\ Aside(S.vol, R.s.vol)
<1>1. R = Stretched(S, 0)
  BY DEF create_chain
<1>2. SUFFICES ASSUME ~(R.n = 0 /\ R.s.vol = S.vol)
               PROVE  /\ R.n \in Cluster /\ R.n \notin DOMAIN ch /\ \A h \in DOMAIN ch : ~On(ch[h], R.n)
                      /\ Chains(R.s.vol, With(ch, R.n, <<R.n>>)) /\ Aside(S.vol, R.s.vol)
  OBVIOUS
<1> DEFINE n == R.n
           w == R.s.vol
           new == With(ch, n, <<n>>)
<1>3. /\ n \in Cluster /\ FatOf(S.vol, n) = 0 /\ Entries(w) /\ Aside(S.vol, w)
      /\ \A b \in Cluster : FatOf(w, b) = IF b = n THEN Eoc ELSE FatOf(S.vol, b)
  <2>1. \A b \in Cluster : b # 0
    BY Sizes DEF Cluster
  <2>2. Entries(S.vol)
    BY DEF Chains
  <2>3. /\ n \in Cluster /\ FatOf(S.vol, n) = 0 /\ Entries(w) /\ Aside(S.vol, w)
        /\ \A b \in Cluster : FatOf(w, b) =
              IF b = n THEN Eoc ELSE IF b = 0 THEN n ELSE FatOf(S.vol, b)
    BY <1>1, <1>2, <2>2, StretchedIs
  <2> QED
    BY <2>1, <2>3
<1> HIDE DEF n, w
<1>4. n \notin DOMAIN ch /\ \A h \in DOMAIN ch : ~On(ch[h], n)
  BY <1>3, FreshCluster
<1>5. DOMAIN new = DOMAIN ch \cup {n} /\ new[n] = <<n>> /\ \A h \in DOMAIN ch : new[h] = ch[h]
  BY <1>4 DEF With
<1> HIDE DEF new
<1>6. \A b : On(<<n>>, b) <=> b = n
  BY DEF On
<1>7. ASSUME NEW h \in DOMAIN new PROVE Linked(w, new[h]) /\ new[h][1] = h
  <2>1. CASE h = n
    <3>1. /\ <<n>> \in Seq(Cluster) /\ <<n>> # <<>> /\ Len(<<n>>) = 1 /\ <<n>>[1] = n
          /\ \A j \in 1 .. 1 - 1 : FALSE
      BY <1>3
    <3> DEFINE s == <<n>>
    <3>2. FatOf(w, s[Len(s)]) = Eoc
      BY <1>3, <3>1
    <3>3. Linked(w, s)
      BY <3>1, <3>2 DEF Linked
    <3> QED
      BY <1>5, <2>1, <3>1, <3>3
  <2>2. CASE h \in DOMAIN ch
    <3>1. Linked(S.vol, ch[h]) /\ ch[h][1] = h
      BY <2>2 DEF Chains
    <3>2. \A j \in 1 .. Len(ch[h]) : ch[h][j] \in Cluster /\ ch[h][j] # n
      BY <1>4, <2>2, <3>1 DEF Linked, On
    <3>3. \A j \in 1 .. Len(ch[h]) : FatOf(w, ch[h][j]) = FatOf(S.vol, ch[h][j])
      BY <1>3, <3>2
    <3> QED
      BY <1>5, <2>2, <3>1, <3>3, SameLinks
  <2> QED
    BY <1>5, <2>1, <2>2
<1>8. ASSUME NEW g \in DOMAIN new, NEW h \in DOMAIN new, NEW b \in Cluster, On(new[g], b), On(new[h], b)
      PROVE  g = h
  BY <1>4, <1>5, <1>6, <1>8 DEF Chains
<1>9. ASSUME NEW b \in Cluster, FatOf(w, b) # 0 PROVE \E h \in DOMAIN new : On(new[h], b)
  BY <1>3, <1>5, <1>6, <1>9 DEF Chains
<1>10. Chains(w, new)
  BY <1>3, <1>7, <1>8, <1>9 DEF Chains
<1> QED
  BY <1>3, <1>4, <1>10 DEF n, w, new

\* A chain is followed where it goes on.
LEMMA NextOnChain ==
    ASSUME NEW d, NEW gone, NEW S, Window(d, gone, S), NEW ch, Chains(S.vol, ch),
           NEW h \in DOMAIN ch, NEW j \in 1 .. Len(ch[h]) - 1,
           NEW R, R = create_chain(S, ch[h][j])
    PROVE  R.n = ch[h][j + 1] /\ R.n \in Cluster /\ R.s.vol = S.vol
<1> DEFINE c == ch[h][j]
           T == get_fat(S, c)
<1>1. T.vol = S.vol
  BY GetFat
<1>2. Linked(S.vol, ch[h])
  BY DEF Chains
<1>3. /\ FatOf(S.vol, c) = ch[h][j + 1] /\ ch[h][j + 1] \in Cluster /\ c \in Cluster
  BY <1>2 DEF Linked
<1>4. c # 0 /\ FatOf(S.vol, c) \notin {0, 1}
  BY <1>3, Sizes DEF Cluster
<1>5. R = [s |-> T, n |-> FatOf(S.vol, c)]
  BY <1>3, <1>4 DEF create_chain
<1> HIDE DEF T, c
<1> QED
  BY <1>1, <1>3, <1>5

\* A cluster taken for the end of a chain.
LEMMA LongerChain ==
    ASSUME NEW d, NEW gone, NEW S, Window(d, gone, S), NEW ch, Chains(S.vol, ch),
           NEW h \in DOMAIN ch, NEW R, R = create_chain(S, ch[h][Len(ch[h])])
    PROVE  \/ R.n = 0 /\ R.s.vol = S.vol
           \/ /\ R.n \in Cluster /\ \A g \in DOMAIN ch : ~On(ch[g], R.n)
              /\ Chains(R.s.vol, [ch EXCEPT ![h] = Append(@, R.n)]) /\ Aside(S.vol, R.s.vol)
<1> DEFINE s == ch[h]
           m == Len(s)
           c == s[m]
           T == get_fat(S, c)
<1>1. Window(d, gone, T) /\ T.vol = S.vol
  BY GetFat
<1> HIDE DEF s
<1>2. Linked(S.vol, s) /\ s[1] = h
  BY DEF Chains, s
<1>3. /\ s \in Seq(Cluster) /\ m \in Nat /\ m >= 1 /\ c \in Cluster /\ FatOf(S.vol, c) = Eoc
      /\ \A j \in 1 .. m : s[j] \in Cluster
  BY <1>2 DEF Linked
<1>4. c # 0 /\ FatOf(S.vol, c) \notin {0, 1} /\ FatOf(S.vol, c) \notin Cluster
  BY <1>3, Sizes DEF Cluster, Eoc
<1> HIDE DEF m, c
<1>5. R = Stretched(T, c)
  BY <1>4 DEF create_chain, c, m, s
<1> HIDE DEF T
<1>6. SUFFICES ASSUME ~(R.n = 0 /\ R.s.vol = S.vol)
               PROVE  /\ R.n \in Cluster /\ \A g \in DOMAIN ch : ~On(ch[g], R.n)
                      /\ Chains(R.s.vol, [ch EXCEPT ![h] = Append(@, R.n)]) /\ Aside(S.vol, R.s.vol)
  OBVIOUS
<1> DEFINE n == R.n
           w == R.s.vol
           t == Append(s, n)
           new == [ch EXCEPT ![h] = t]
<1>7. /\ n \in Cluster /\ FatOf(S.vol, n) = 0 /\ Entries(w) /\ Aside(S.vol, w)
      /\ \A b \in Cluster : FatOf(w, b) =
            IF b = n THEN Eoc ELSE IF b = c THEN n ELSE FatOf(S.vol, b)
  <2>1. Entries(T.vol)
    BY <1>1 DEF Chains
  <2> QED
    BY <1>1, <1>3, <1>4, <1>5, <1>6, <2>1, StretchedIs
<1> HIDE DEF n, w
<1>8. \A g \in DOMAIN ch : ~On(ch[g], n)
  BY <1>7, FreshCluster
<1>9. DOMAIN new = DOMAIN ch /\ new[h] = t /\ \A g \in DOMAIN ch : g # h => new[g] = ch[g]
  OBVIOUS
<1>10. /\ t \in Seq(Cluster) /\ Len(t) = m + 1 /\ t[m + 1] = n /\ \A j \in 1 .. m : t[j] = s[j]
  BY <1>3, <1>7 DEF m
<1> HIDE DEF new, t
<1>11. \A b : On(t, b) <=> On(s, b) \/ b = n
  <2>1. ASSUME NEW b, On(t, b) PROVE On(s, b) \/ b = n
    <3>1. PICK j \in 1 .. m + 1 : t[j] = b
      BY <1>10, <2>1 DEF On
    <3>2. j \in 1 .. m \/ j = m + 1
      BY <1>3, <3>1
    <3> QED
      BY <1>10, <3>1, <3>2 DEF On, m
  <2>2. ASSUME NEW b, On(s, b) PROVE On(t, b)
    <3>1. PICK j \in 1 .. m : s[j] = b
      BY <2>2 DEF On, m
    <3>2. j \in 1 .. m + 1
      BY <1>3
    <3> QED
      BY <1>10, <3>1, <3>2 DEF On
  <2>3. On(t, n)
    <3>1. m + 1 \in 1 .. m + 1
      BY <1>3
    <3> QED
      BY <1>10, <3>1 DEF On
  <2> QED
    BY <2>1, <2>2, <2>3
<1>12. Linked(w, t) /\ t[1] = h
  <2>1. \A j \in 1 .. m : s[j] # n
    BY <1>8 DEF On, s, m
  <2>2. \A j, k \in 1 .. m + 1 : t[j] = t[k] => j = k
    <3> SUFFICES ASSUME NEW j \in 1 .. m + 1, NEW k \in 1 .. m + 1, t[j] = t[k] PROVE j = k
      OBVIOUS
    <3>1. (j \in 1 .. m \/ j = m + 1) /\ (k \in 1 .. m \/ k = m + 1)
      BY <1>3
    <3> QED
      BY <1>2, <1>10, <2>1, <3>1 DEF Linked, m
  <2>3. ASSUME NEW j \in 1 .. m PROVE FatOf(w, t[j]) = t[j + 1]
    <3>1. CASE j = m
      <4>1. t[j] = c /\ c # n
        BY <1>3, <1>10, <2>1, <3>1 DEF c
      <4> QED
        BY <1>3, <1>7, <1>10, <3>1, <4>1
    <3>2. CASE j # m
      <4>1. j \in 1 .. m - 1 /\ j + 1 \in 1 .. m /\ m \in 1 .. m
        BY <1>3, <3>2
      <4>2. s[j] # c
        BY <1>2, <3>2, <4>1 DEF Linked, c, m
      <4>3. FatOf(w, s[j]) = FatOf(S.vol, s[j])
        BY <1>3, <1>7, <2>1, <4>2
      <4>4. FatOf(S.vol, s[j]) = s[j + 1]
        BY <1>2, <4>1 DEF Linked, m
      <4> QED
        BY <1>10, <4>1, <4>3, <4>4
    <3> QED
      BY <3>1, <3>2
  <2>4. FatOf(w, t[m + 1]) = Eoc
    BY <1>7, <1>10
  <2>5. t # <<>> /\ Len(t) - 1 = m /\ 1 \in 1 .. m
    BY <1>3, <1>10
  <2>6. t[1] = h
    BY <1>2, <1>10, <2>5
  <2>7. Linked(w, t)
    BY <1>10, <2>2, <2>3, <2>4, <2>5 DEF Linked
  <2> QED
    BY <2>6, <2>7
<1>13. ASSUME NEW g \in DOMAIN ch, g # h PROVE Linked(w, ch[g])
  <2>1. Linked(S.vol, ch[g])
    BY DEF Chains
  <2>2. On(s, c)
    BY <1>3 DEF On, c, m
  <2>3. \A j \in 1 .. Len(ch[g]) : ch[g][j] \in Cluster /\ ~On(s, ch[g][j])
    BY <1>13, OffChain DEF s
  <2>4. \A j \in 1 .. Len(ch[g]) : ch[g][j] # c /\ ch[g][j] # n
    BY <1>8, <2>2, <2>3 DEF On
  <2>5. \A j \in 1 .. Len(ch[g]) : FatOf(w, ch[g][j]) = FatOf(S.vol, ch[g][j])
    BY <1>7, <2>3, <2>4
  <2> QED
    BY <2>1, <2>5, SameLinks
<1>14. \A g, k \in DOMAIN ch : \A b \in Cluster : On(new[g], b) /\ On(new[k], b) => g = k
  <2>1. \A g \in DOMAIN ch : \A b : On(new[g], b) => On(ch[g], b) \/ (b = n /\ g = h)
    BY <1>9, <1>11 DEF s
  <2> QED
    BY <1>8, <2>1 DEF Chains
<1>15. ASSUME NEW b \in Cluster, FatOf(w, b) # 0 PROVE \E g \in DOMAIN ch : On(new[g], b)
  <2>1. \A g \in DOMAIN ch : On(ch[g], b) => On(new[g], b)
    BY <1>9, <1>11 DEF s
  <2>2. CASE b = n
    BY <1>9, <1>11, <2>2
  <2>3. CASE b # n
    <3>1. FatOf(S.vol, b) # 0
      BY <1>3, <1>4, <1>7, <1>15, <2>3
    <3> QED
      BY <2>1, <3>1 DEF Chains
  <2> QED
    BY <2>2, <2>3
<1>16. Chains(w, new)
  <2>1. \A g \in DOMAIN ch : Linked(w, new[g]) /\ new[g][1] = g
    BY <1>9, <1>12, <1>13 DEF Chains
  <2> QED
    BY <1>7, <1>9, <1>14, <1>15, <2>1 DEF Chains
<1>17. new = [ch EXCEPT ![h] = Append(@, n)]
  BY DEF new, t, s
<1> QED
  BY <1>7, <1>8, <1>16, <1>17 DEF n, w

-----------------------------------------------------------------------------
(* The slots of directories.                                               *)

\* What multiplication does to an order.
LEMMA Product ==
    ASSUME NEW a \in Nat, NEW b \in Nat, NEW s \in Nat, a <= b
    PROVE  a * s \in Nat /\ a * s <= b * s
<1>1. PICK k \in Nat : b = a + k
  <2>1. b - a \in Nat /\ b = a + (b - a)
    OBVIOUS
  <2> QED
    BY <2>1
<1>2. b * s = a * s + k * s /\ k * s \in Nat /\ a * s \in Nat
  BY <1>1
<1> QED
  BY <1>2

\* A position in a table is a cluster of its chain and a slot of that.
LEMMA PositionIs ==
    ASSUME NEW i \in Nat \ {0}
    PROVE  /\ At(i) \in Nat \ {0} /\ In(i) \in 1 .. SPS /\ (At(i) - 1) * SPS \in Nat
           /\ i = (At(i) - 1) * SPS + In(i)
<1>1. SPS \in Nat /\ SPS > 0 /\ i - 1 \in Nat
  BY FatAssumption
<1> DEFINE q == (i - 1) \div SPS
           r == (i - 1) % SPS
<1>2. q \in Nat /\ r \in 0 .. SPS - 1 /\ i - 1 = SPS * q + r
  BY <1>1
<1>3. At(i) = q + 1 /\ In(i) = r + 1
  BY DEF At, In
<1> HIDE DEF q, r
<1>4. q * SPS \in Nat /\ SPS * q = q * SPS
  BY <1>1, <1>2
<1> QED
  BY <1>1, <1>2, <1>3, <1>4

\* The first n clusters of a table hold its first n * SPS slots.
LEMMA PositionUpto ==
    ASSUME NEW i \in Nat \ {0}, NEW n \in Nat
    PROVE  n * SPS \in Nat /\ (i <= n * SPS <=> At(i) <= n)
<1> DEFINE q == At(i) - 1
           r == In(i)
<1>0. SPS \in Nat
  BY FatAssumption
<1>1. /\ At(i) \in Nat \ {0} /\ r \in 1 .. SPS /\ i = q * SPS + r /\ q * SPS \in Nat
      /\ SPS \in Nat /\ q \in Nat /\ q + 1 = At(i)
  <2>1. /\ At(i) \in Nat \ {0} /\ r \in 1 .. SPS /\ i = q * SPS + r /\ q * SPS \in Nat
    BY PositionIs
  <2> QED
    BY <1>0, <2>1
<1> HIDE DEF q, r
<1>2. (q + 1) * SPS = q * SPS + SPS /\ n * SPS \in Nat
  BY <1>1
<1>3. CASE At(i) <= n
  <2>1. (q + 1) * SPS <= n * SPS
    BY <1>1, <1>3, Product
  <2> QED
    BY <1>1, <1>2, <1>3, <2>1
<1>4. CASE ~(At(i) <= n)
  <2>1. n <= q
    BY <1>1, <1>4
  <2>2. n * SPS <= q * SPS
    BY <1>1, <2>1, Product
  <2> QED
    BY <1>1, <1>2, <1>4, <2>2
<1> QED
  BY <1>3, <1>4

\* Different positions are different slots.
LEMMA PositionsApart ==
    ASSUME NEW i \in Nat \ {0}, NEW j \in Nat \ {0}, At(i) = At(j), In(i) = In(j)
    PROVE  i = j
BY PositionIs

\* The next position is the next slot or the first one of the next cluster.
LEMMA NextPosition ==
    ASSUME NEW i \in Nat \ {0}
    PROVE  IF In(i + 1) = 1 THEN At(i + 1) = At(i) + 1 ELSE At(i + 1) = At(i)
<1> DEFINE q == At(i) - 1
           r == In(i)
           p == At(i + 1) - 1
           t == In(i + 1)
<1>0. SPS \in Nat
  BY FatAssumption
<1>1. /\ At(i) \in Nat \ {0} /\ r \in 1 .. SPS /\ i = q * SPS + r /\ q * SPS \in Nat
      /\ SPS \in Nat /\ q \in Nat /\ q + 1 = At(i)
  <2>1. /\ At(i) \in Nat \ {0} /\ r \in 1 .. SPS /\ i = q * SPS + r /\ q * SPS \in Nat
    BY PositionIs
  <2> QED
    BY <1>0, <2>1
<1>2. i + 1 \in Nat \ {0}
  OBVIOUS
<1>3. /\ t \in 1 .. SPS /\ i + 1 = p * SPS + t /\ p * SPS \in Nat
      /\ p \in Nat /\ p + 1 = At(i + 1)
  BY <1>2, PositionIs
<1> HIDE DEF q, r, p, t
<1>4. p = q \/ p = q + 1
  <2>1. (q + 1) * SPS = q * SPS + SPS /\ (q + 1) * SPS \in Nat
    BY <1>1
  <2>2. CASE p < q
    <3>1. p + 1 <= q /\ (p + 1) * SPS = p * SPS + SPS
      BY <1>1, <1>3, <2>2
    <3>2. (p + 1) * SPS <= q * SPS
      BY <1>1, <1>3, <3>1, Product
    <3> QED
      BY <1>1, <1>3, <3>1, <3>2
  <2>3. CASE p > q + 1
    <3>1. q + 1 + 1 <= p /\ (q + 1 + 1) * SPS = q * SPS + SPS + SPS /\ q + 1 + 1 \in Nat
      BY <1>1, <1>3, <2>3
    <3>2. (q + 1 + 1) * SPS <= p * SPS
      BY <1>1, <1>3, <3>1, Product
    <3> QED
      BY <1>1, <1>3, <3>1, <3>2
  <2> QED
    BY <1>1, <1>3, <2>2, <2>3
<1>5. CASE p = q
  BY <1>1, <1>3, <1>5 DEF t, r
<1>6. CASE p = q + 1
  <2>1. p * SPS = q * SPS + SPS
    BY <1>1, <1>6
  <2>2. t = 1
    BY <1>1, <1>3, <2>1
  <2> QED
    BY <1>1, <1>3, <1>6, <2>2 DEF t
<1> QED
  BY <1>4, <1>5, <1>6

\* The first slots of a chain are the first slots of its first cluster.
LEMMA FirstPositions ==
    ASSUME NEW i \in 1 .. SPS
    PROVE  i \in Nat \ {0} /\ At(i) = 1 /\ In(i) = i
<1>1. i \in Nat \ {0} /\ 1 * SPS = SPS /\ SPS \in Nat
  BY FatAssumption
<1>2. At(i) <= 1
  BY <1>1, PositionUpto
<1>4. At(i) \in Nat \ {0}
  BY <1>1, PositionIs
<1>3. At(i) = 1
  BY <1>2, <1>4
<1> QED
  BY <1>1, <1>3, PositionIs

\* The slots of a table lie on the chain.
LEMMA SlotsAre ==
    ASSUME NEW vol, NEW s \in Seq(Cluster)
    PROVE  /\ Len(Slots(vol, s)) = Len(s) * SPS /\ Len(s) * SPS \in Nat
           /\ DOMAIN Slots(vol, s) = 1 .. Len(s) * SPS
           /\ \A i \in 1 .. Len(s) * SPS :
                 /\ i \in Nat \ {0} /\ At(i) \in 1 .. Len(s) /\ In(i) \in 1 .. SPS /\ s[At(i)] \in Cluster
                 /\ Slots(vol, s)[i] = vol[Data(s[At(i)])].tab[In(i)]
<1> DEFINE n == Len(s) * SPS
           T == [i \in 1 .. n |-> vol[Data(s[At(i)])].tab[In(i)]]
<1>1. Len(s) \in Nat /\ n \in Nat
  BY PositionUpto
<1>2. Slots(vol, s) = T
  BY DEF Slots
<1> HIDE DEF n
<1>3. Len(T) = n /\ DOMAIN T = 1 .. n /\ \A i \in 1 .. n : T[i] = vol[Data(s[At(i)])].tab[In(i)]
  BY <1>1
<1> HIDE DEF T
<1>4. ASSUME NEW i \in 1 .. n
      PROVE  i \in Nat \ {0} /\ At(i) \in 1 .. Len(s) /\ In(i) \in 1 .. SPS /\ s[At(i)] \in Cluster
  <2>1. i \in Nat \ {0} /\ i <= n
    BY <1>1, <1>4
  <2>2. At(i) \in Nat \ {0} /\ In(i) \in 1 .. SPS /\ At(i) <= Len(s)
    BY <1>1, <2>1, PositionIs, PositionUpto DEF n
  <2>3. At(i) \in 1 .. Len(s)
    BY <1>1, <2>2
  <2> QED
    BY <2>1, <2>2, <2>3
<1> QED
  BY <1>1, <1>2, <1>3, <1>4 DEF n

\* What Stored says of one table: slot i lies in cluster At(i) of the chain, at In(i).
LEMMA TableIs ==
    ASSUME NEW vol, NEW ch, NEW tb, Stored(vol, ch, tb), NEW h \in DOMAIN tb
    PROVE  /\ h \in DOMAIN ch /\ Linked(vol, ch[h]) /\ ch[h][1] = h
           /\ ch[h] \in Seq(Cluster) /\ Len(ch[h]) \in Nat \ {0}
           /\ Len(tb[h]) = Len(ch[h]) * SPS /\ Len(tb[h]) \in Nat /\ DOMAIN tb[h] = 1 .. Len(tb[h])
           /\ SPS <= Len(tb[h])
           /\ \A i \in 1 .. Len(tb[h]) :
                 /\ i \in Nat \ {0} /\ At(i) \in 1 .. Len(ch[h]) /\ In(i) \in 1 .. SPS
                 /\ ch[h][At(i)] \in Cluster /\ Tabled(vol, ch[h][At(i)])
                 /\ tb[h][i] = vol[Data(ch[h][At(i)])].tab[In(i)]
<1>1. h \in DOMAIN ch /\ tb[h] = Slots(vol, ch[h]) /\ \A j \in 1 .. Len(ch[h]) : Tabled(vol, ch[h][j])
  BY DEF Stored
<1>2. Linked(vol, ch[h]) /\ ch[h][1] = h
  BY <1>1 DEF Stored, Chains
<1>3. ch[h] \in Seq(Cluster) /\ Len(ch[h]) \in Nat \ {0}
  BY <1>2 DEF Linked
<1>4. SPS <= Len(ch[h]) * SPS
  <2>1. 1 * SPS <= Len(ch[h]) * SPS /\ 1 * SPS = SPS
    BY <1>3, Product, FatAssumption
  <2> QED
    BY <2>1
<1> QED
  BY <1>1, <1>2, <1>3, <1>4, SlotsAre

\* What leaves the chains and the sectors of some tables alone keeps these tables.
LEMMA SameTables ==
    ASSUME NEW v, NEW ch, NEW tb, Stored(v, ch, tb),
           NEW w, NEW ch2, NEW tb2, Chains(w, ch2), DOMAIN tb2 \subseteq DOMAIN tb \cap DOMAIN ch2,
           \A h \in DOMAIN tb2 : /\ ch2[h] = ch[h] /\ tb2[h] = tb[h]
                                 /\ \A j \in 1 .. Len(ch[h]) : w[Data(ch[h][j])] = v[Data(ch[h][j])]
    PROVE  Stored(w, ch2, tb2)
<1> SUFFICES ASSUME NEW h \in DOMAIN tb2
             PROVE  (\A j \in 1 .. Len(ch2[h]) : Tabled(w, ch2[h][j])) /\ tb2[h] = Slots(w, ch2[h])
  BY DEF Stored
<1>1. h \in DOMAIN tb /\ ch2[h] = ch[h] /\ tb2[h] = tb[h]
  OBVIOUS
<1>2. \A j \in 1 .. Len(ch[h]) : Tabled(v, ch[h][j]) /\ w[Data(ch[h][j])] = v[Data(ch[h][j])]
  BY <1>1 DEF Stored
<1>3. \A j \in 1 .. Len(ch[h]) : Tabled(w, ch[h][j])
  BY <1>2 DEF Tabled
<1>4. ch[h] \in Seq(Cluster) /\ tb[h] = Slots(v, ch[h])
  BY <1>1, TableIs DEF Stored
<1> DEFINE n == Len(ch[h]) * SPS
<1>5. \A i \in 1 .. n : At(i) \in 1 .. Len(ch[h])
  BY <1>4, SlotsAre
<1>6. Slots(v, ch[h]) = Slots(w, ch[h])
  <2> HIDE DEF n
  <2>1. [i \in 1 .. n |-> v[Data(ch[h][At(i)])].tab[In(i)]]
            = [i \in 1 .. n |-> w[Data(ch[h][At(i)])].tab[In(i)]]
    BY <1>2, <1>5
  <2> QED
    BY <2>1 DEF Slots, n
<1> QED
  BY <1>1, <1>3, <1>4, <1>6

\* Chains depend on the sectors of the FAT only.
LEMMA SameChains ==
    ASSUME NEW v, NEW ch, Chains(v, ch), NEW w, \A c \in Cluster : w[FatSec(c)] = v[FatSec(c)]
    PROVE  Chains(w, ch)
<1>1. \A c : FatOf(w, c) = FatOf(v, c)
  BY DEF FatOf
<1>2. Entries(w)
  BY DEF Chains, Entries
<1>3. \A h \in DOMAIN ch : Linked(w, ch[h])
  BY <1>1 DEF Chains, Linked
<1> QED
  BY <1>1, <1>2, <1>3 DEF Chains

\* The sector y of a table with x in slot k.
Slotted(y, k, x) == [y EXCEPT !.tab[k] = x]

\* One slot is written.
LEMMA PutSlotIs ==
    ASSUME NEW d, NEW gone, NEW S, Window(d, gone, S), NEW s, NEW i, s[At(i)] \in Cluster, NEW x,
           NEW R, R = PutSlot(S, s, i, x)
    PROVE  /\ Window(d, gone, R)
           /\ R.vol = [S.vol EXCEPT ![Data(s[At(i)])] = Slotted(S.vol[Data(s[At(i)])], In(i), x)]
           /\ Data(s[At(i)]) \in DOMAIN S.vol
<1> DEFINE c == s[At(i)]
           T == move_window(S, Data(c))
           y == Slotted(T.vol[T.sect], In(i), x)
<1>1. R = Dirty(T, y)
  BY DEF PutSlot, Slotted
<1>2. Window(d, gone, T) /\ T.sect = Data(c) /\ T.vol = S.vol
  BY MoveWindow
<1>3. DOMAIN T = Fields /\ DOMAIN T.vol = Sector
  BY <1>2 DEF Window, Through
<1> HIDE DEF T
<1>4. Dirty(T, y).vol = [T.vol EXCEPT ![T.sect] = y]
  BY <1>3 DEF Dirty, Fields
<1>5. Data(c) \in DOMAIN S.vol
  BY DEF Window, Through, Sector
<1>6. Window(d, gone, R)
  BY PutSlotKeeps
<1> QED
  BY <1>1, <1>2, <1>4, <1>5, <1>6

\* A cluster is on one chain, at one place.
LEMMA TablesApart ==
    ASSUME NEW vol, NEW ch, Chains(vol, ch), NEW g \in DOMAIN ch, NEW h \in DOMAIN ch,
           NEW j \in 1 .. Len(ch[g]), NEW k \in 1 .. Len(ch[h]), ch[g][j] = ch[h][k]
    PROVE  g = h /\ j = k
<1>1. On(ch[g], ch[g][j]) /\ On(ch[h], ch[g][j])
  BY DEF On
<1>2. Linked(vol, ch[g]) /\ ch[g][j] \in Cluster
  BY DEF Chains, Linked
<1>3. g = h
  BY <1>1, <1>2 DEF Chains
<1> QED
  BY <1>2, <1>3 DEF Linked

\* PutSlot changes one slot of one table.
LEMMA PutInTable ==
    ASSUME NEW d, NEW gone, NEW S, Window(d, gone, S), NEW ch, NEW tb, Stored(S.vol, ch, tb),
           NEW h \in DOMAIN tb, NEW i \in 1 .. Len(tb[h]), NEW s, s[At(i)] = ch[h][At(i)],
           NEW x, NEW R, R = PutSlot(S, s, i, x)
    PROVE  /\ Window(d, gone, R)
           /\ Stored(R.vol, ch, [tb EXCEPT ![h] = [@ EXCEPT ![i] = x]])
<1> DEFINE c == ch[h][At(i)]
           k == In(i)
           n == Len(tb[h])
           new == [tb EXCEPT ![h] = [@ EXCEPT ![i] = x]]
           y == Slotted(S.vol[Data(c)], k, x)
<1>1. /\ h \in DOMAIN ch /\ ch[h] \in Seq(Cluster) /\ n \in Nat /\ DOMAIN tb[h] = 1 .. n
      /\ n = Len(ch[h]) * SPS
      /\ \A j \in 1 .. n : /\ j \in Nat \ {0} /\ At(j) \in 1 .. Len(ch[h]) /\ In(j) \in 1 .. SPS
                           /\ tb[h][j] = S.vol[Data(ch[h][At(j)])].tab[In(j)]
      /\ c \in Cluster /\ Tabled(S.vol, c)
  BY TableIs
<1>2. /\ Window(d, gone, R) /\ R.vol = [S.vol EXCEPT ![Data(c)] = y] /\ Data(c) \in DOMAIN S.vol
  <2>1. s[At(i)] = c /\ s[At(i)] \in Cluster
    BY <1>1
  <2>2. /\ Window(d, gone, R)
        /\ R.vol = [S.vol EXCEPT ![Data(s[At(i)])] = Slotted(S.vol[Data(s[At(i)])], In(i), x)]
        /\ Data(s[At(i)]) \in DOMAIN S.vol
    BY <2>1, PutSlotIs
  <2> HIDE DEF c
  <2> QED
    BY <2>1, <2>2
<1>3. \A b \in Cluster : b # c => R.vol[Data(b)] = S.vol[Data(b)]
  BY <1>2 DEF Data
<1>4. "tab" \in DOMAIN y /\ DOMAIN y.tab = 1 .. SPS
      /\ \A j \in 1 .. SPS : y.tab[j] = IF j = k THEN x ELSE S.vol[Data(c)].tab[j]
  BY <1>1 DEF Tabled, Slotted
<1>5. R.vol[Data(c)] = y
  BY <1>2
<1> HIDE DEF y
<1>6. Chains(R.vol, ch)
  <2>1. \A b \in Cluster : R.vol[FatSec(b)] = S.vol[FatSec(b)]
    BY <1>2, Apart
  <2> QED
    BY <2>1, SameChains DEF Stored
<1>7. DOMAIN new = DOMAIN tb /\ new[h] = [tb[h] EXCEPT ![i] = x]
      /\ \A g \in DOMAIN tb : g # h => new[g] = tb[g]
  OBVIOUS
<1> HIDE DEF new, c, k
<1>8. ASSUME NEW g \in DOMAIN tb, g # h
      PROVE  (\A j \in 1 .. Len(ch[g]) : Tabled(R.vol, ch[g][j])) /\ new[g] = Slots(R.vol, ch[g])
  <2> DEFINE one == [z \in {g} |-> tb[z]]
  <2>1. \A j \in 1 .. Len(ch[g]) : ch[g][j] \in Cluster /\ ch[g][j] # c
    <3>1. g \in DOMAIN ch /\ Chains(S.vol, ch) /\ At(i) \in 1 .. Len(ch[h])
      BY <1>1 DEF Stored
    <3>2. \A j \in 1 .. Len(ch[g]) : ch[g][j] \in Cluster
      BY <3>1 DEF Chains, Linked
    <3> QED
      BY <1>1, <1>8, <3>1, <3>2, TablesApart DEF c
  <2>2. \A j \in 1 .. Len(ch[g]) : R.vol[Data(ch[g][j])] = S.vol[Data(ch[g][j])]
    BY <1>3, <2>1
  <2>3. DOMAIN one = {g} /\ one[g] = tb[g] /\ g \in DOMAIN ch
    BY DEF Stored
  <2> HIDE DEF one
  <2>4. Stored(R.vol, ch, one)
    BY <1>6, <2>2, <2>3, SameTables
  <2> QED
    BY <1>7, <1>8, <2>3, <2>4 DEF Stored
<1>9. \A j \in 1 .. Len(ch[h]) : Tabled(R.vol, ch[h][j])
  <2>1. \A j \in 1 .. Len(ch[h]) : Tabled(S.vol, ch[h][j]) /\ ch[h][j] \in Cluster
    BY <1>1 DEF Stored
  <2> QED
    BY <1>3, <1>4, <1>5, <2>1 DEF Tabled
<1>10. new[h] = Slots(R.vol, ch[h])
  <2>1. ASSUME NEW j \in 1 .. n
        PROVE  new[h][j] = R.vol[Data(ch[h][At(j)])].tab[In(j)]
    <3>1. At(j) \in 1 .. Len(ch[h]) /\ In(j) \in 1 .. SPS /\ j \in Nat \ {0} /\ i \in Nat \ {0}
          /\ ch[h][At(j)] \in Cluster /\ At(i) \in 1 .. Len(ch[h])
      BY <1>1
    <3>2. CASE At(j) = At(i)
      <4>1. ch[h][At(j)] = c
        BY <3>2 DEF c
      <4>2. j = i <=> In(j) = k
        BY <3>1, <3>2, PositionsApart DEF k
      <4> QED
        BY <1>1, <1>4, <1>5, <1>7, <3>1, <4>1, <4>2
    <3>3. CASE At(j) # At(i)
      <4>1. ch[h][At(j)] # c
        BY <1>1, <3>1, <3>3, TablesApart DEF Stored, c
      <4> QED
        BY <1>1, <1>3, <1>7, <3>1, <3>3, <4>1
    <3> QED
      BY <3>2, <3>3
  <2>2. new[h] = [j \in 1 .. n |-> new[h][j]]
    BY <1>1, <1>7
  <2>3. new[h] = [j \in 1 .. n |-> R.vol[Data(ch[h][At(j)])].tab[In(j)]]
    BY <2>1, <2>2
  <2> QED
    BY <1>1, <2>3 DEF Slots
<1> QED
  BY <1>2, <1>6, <1>7, <1>8, <1>9, <1>10 DEF Stored, new

\* What the slot j of the table T is, or will be once the table is so long.
Beyond(T, j) == IF j <= Len(T) THEN T[j] ELSE [k |-> "end"]
Grown(T, n) == [j \in 1 .. n |-> Beyond(T, j)]

\* The directory at h has been stretched to the chain s.
Spread(vol, ch, tb, h, s) ==
    /\ s \in Seq(Cluster) /\ Len(ch[h]) <= Len(s) /\ \A j \in 1 .. Len(ch[h]) : s[j] = ch[h][j]
    /\ Stored(vol, [ch EXCEPT ![h] = s], [tb EXCEPT ![h] = Grown(tb[h], Len(s) * SPS)])

\* Grown fills up with free slots behind the end.
LEMMA GrownIs ==
    ASSUME NEW T, NEW n \in Nat
    PROVE  Len(Grown(T, n)) = n /\ DOMAIN Grown(T, n) = 1 .. n
           /\ \A j \in 1 .. n : Grown(T, n)[j] = Beyond(T, j)
<1> DEFINE G == [j \in 1 .. n |-> Beyond(T, j)]
<1>1. Len(G) = n /\ DOMAIN G = 1 .. n /\ \A j \in 1 .. n : G[j] = Beyond(T, j)
  OBVIOUS
<1> QED
  BY <1>1 DEF Grown

\* A table that has not been stretched yet.
LEMMA NotSpread ==
    ASSUME NEW vol, NEW ch, NEW tb, Stored(vol, ch, tb), NEW h \in DOMAIN tb
    PROVE  Spread(vol, ch, tb, h, ch[h])
<1>1. /\ ch[h] \in Seq(Cluster) /\ h \in DOMAIN ch /\ Len(ch[h]) \in Nat
      /\ Len(tb[h]) = Len(ch[h]) * SPS /\ Len(tb[h]) \in Nat /\ DOMAIN tb[h] = 1 .. Len(tb[h])
  BY TableIs
<1> DEFINE n == Len(tb[h])
           ch2 == [ch EXCEPT ![h] = ch[h]]
           tb2 == [tb EXCEPT ![h] = Grown(tb[h], Len(ch[h]) * SPS)]
<1>2. tb[h] = [j \in 1 .. n |-> tb[h][j]]
  <2>1. tb[h] = Slots(vol, ch[h])
    BY DEF Stored
  <2>2. tb[h] = [j \in DOMAIN tb[h] |-> tb[h][j]]
    BY <2>1 DEF Slots
  <2> QED
    BY <1>1, <2>2
<1>3. Grown(tb[h], n) = [j \in 1 .. n |-> tb[h][j]]
  BY <1>1 DEF Grown, Beyond
<1>4. Grown(tb[h], Len(ch[h]) * SPS) = tb[h]
  BY <1>1, <1>2, <1>3
<1>5. DOMAIN ch2 = DOMAIN ch /\ \A g \in DOMAIN ch : ch2[g] = ch[g]
  OBVIOUS
<1>6. DOMAIN tb2 = DOMAIN tb /\ \A g \in DOMAIN tb : tb2[g] = tb[g]
  BY <1>4
<1> HIDE DEF ch2, tb2
<1>7. Chains(vol, ch2)
  BY <1>5 DEF Stored, Chains
<1>8. DOMAIN tb2 \subseteq DOMAIN tb \cap DOMAIN ch2
  BY <1>5, <1>6 DEF Stored
<1>9. Stored(vol, ch2, tb2)
  BY <1>5, <1>6, <1>7, <1>8, SameTables
<1> QED
  BY <1>1, <1>9 DEF Spread, ch2, tb2

\* A cluster that has been cleared becomes the last one of a table.
LEMMA TableGrows ==
    ASSUME NEW v, NEW ch, NEW tb, Stored(v, ch, tb), NEW h \in DOMAIN tb,
           NEW n \in Cluster, \A g \in DOMAIN ch : ~On(ch[g], n),
           NEW w, Chains(w, [ch EXCEPT ![h] = Append(@, n)]),
           w[Data(n)] = EmptyTable, \A c \in Cluster : c # n => w[Data(c)] = v[Data(c)]
    PROVE  Stored(w, [ch EXCEPT ![h] = Append(@, n)],
                  [tb EXCEPT ![h] = Grown(@, (Len(ch[h]) + 1) * SPS)])
<1> DEFINE s == ch[h]
           m == Len(s)
           t == Append(s, n)
           T == tb[h]
           U == Grown(T, (m + 1) * SPS)
           ch2 == [ch EXCEPT ![h] = t]
           tb2 == [tb EXCEPT ![h] = U]
<1>1. /\ h \in DOMAIN ch /\ s \in Seq(Cluster) /\ m \in Nat \ {0}
      /\ Len(T) = m * SPS /\ Len(T) \in Nat
      /\ \A i \in 1 .. Len(T) : /\ At(i) \in 1 .. m /\ In(i) \in 1 .. SPS
                                /\ T[i] = v[Data(s[At(i)])].tab[In(i)]
      /\ \A j \in 1 .. m : Tabled(v, s[j])
  <2>1. \A j \in 1 .. m : Tabled(v, s[j])
    BY DEF Stored
  <2> QED
    BY <2>1, TableIs
<1> HIDE DEF s, T
<1>2. /\ t \in Seq(Cluster) /\ Len(t) = m + 1 /\ t[m + 1] = n /\ \A j \in 1 .. m : t[j] = s[j]
  BY <1>1
<1>3. DOMAIN ch2 = DOMAIN ch /\ ch2[h] = t /\ \A g \in DOMAIN ch : g # h => ch2[g] = ch[g]
  BY <1>1
<1>4. DOMAIN tb2 = DOMAIN tb /\ tb2[h] = U /\ \A g \in DOMAIN tb : g # h => tb2[g] = tb[g]
  OBVIOUS
<1>5. ch2 = [ch EXCEPT ![h] = Append(@, n)] /\ tb2 = [tb EXCEPT ![h] = Grown(@, (Len(ch[h]) + 1) * SPS)]
  BY DEF s, T
<1> HIDE DEF m, t, U, ch2, tb2
<1>6. \A g \in DOMAIN ch : \A j \in 1 .. Len(ch[g]) : ch[g][j] \in Cluster /\ ch[g][j] # n
  BY DEF Stored, Chains, Linked, On
<1>7. ASSUME NEW g \in DOMAIN tb, g # h
      PROVE  (\A j \in 1 .. Len(ch2[g]) : Tabled(w, ch2[g][j])) /\ tb2[g] = Slots(w, ch2[g])
  <2> DEFINE one == [z \in {g} |-> tb[z]]
  <2>1. DOMAIN one = {g} /\ one[g] = tb[g] /\ g \in DOMAIN ch
    BY DEF Stored
  <2>2. \A j \in 1 .. Len(ch[g]) : w[Data(ch[g][j])] = v[Data(ch[g][j])]
    BY <1>6, <2>1
  <2> HIDE DEF one
  <2>3. Chains(w, ch2)
    BY <1>5
  <2>4. Stored(w, ch2, one)
    BY <1>3, <1>7, <2>1, <2>2, <2>3, SameTables
  <2> QED
    BY <1>3, <1>4, <1>7, <2>1, <2>4 DEF Stored
<1>8. \A j \in 1 .. m : s[j] \in Cluster /\ s[j] # n /\ w[Data(s[j])] = v[Data(s[j])]
  <2>1. \A j \in 1 .. m : s[j] \in Cluster /\ s[j] # n
    BY <1>1, <1>6 DEF s, m
  <2> QED
    BY <2>1
<1>9. Tabled(w, n) /\ \A k \in 1 .. SPS : w[Data(n)].tab[k] = [k |-> "end"]
  BY DEF Tabled, EmptyTable
<1>10. \A j \in 1 .. m + 1 : Tabled(w, t[j])
  <2> SUFFICES ASSUME NEW j \in 1 .. m + 1 PROVE Tabled(w, t[j])
    OBVIOUS
  <2>1. j \in 1 .. m \/ j = m + 1
    BY <1>1
  <2>2. ASSUME j \in 1 .. m PROVE Tabled(w, t[j])
    BY <1>1, <1>2, <1>8, <2>2 DEF Tabled
  <2> QED
    BY <1>2, <1>9, <2>1, <2>2
<1>11. U = Slots(w, t)
  <2>1. (m + 1) * SPS \in Nat /\ m + 1 \in Nat
    BY <1>1, PositionUpto
  <2>2. ASSUME NEW i \in 1 .. (m + 1) * SPS PROVE Beyond(T, i) = w[Data(t[At(i)])].tab[In(i)]
    <3>1. i \in Nat \ {0} /\ At(i) \in 1 .. m + 1 /\ In(i) \in 1 .. SPS
      BY <1>2, SlotsAre
    <3>2. i <= m * SPS <=> At(i) <= m
      BY <1>1, <3>1, PositionUpto
    <3>3. CASE At(i) <= m
      <4>1. i \in 1 .. Len(T) /\ At(i) \in 1 .. m
        BY <1>1, <3>1, <3>2, <3>3
      <4>2. Beyond(T, i) = v[Data(s[At(i)])].tab[In(i)]
        BY <1>1, <4>1 DEF Beyond
      <4> QED
        BY <1>2, <1>8, <4>1, <4>2
    <3>4. CASE ~(At(i) <= m)
      <4>1. ~(i <= Len(T)) /\ At(i) = m + 1
        BY <1>1, <3>1, <3>2, <3>4
      <4> QED
        BY <1>2, <1>9, <3>1, <4>1 DEF Beyond
    <3> QED
      BY <3>3, <3>4
  <2> DEFINE n1 == (m + 1) * SPS
  <2> HIDE DEF n1
  <2>3. [i \in 1 .. n1 |-> Beyond(T, i)] = [i \in 1 .. n1 |-> w[Data(t[At(i)])].tab[In(i)]]
    BY <2>2 DEF n1
  <2> QED
    BY <1>2, <2>3 DEF U, Grown, Slots, n1
<1>12. Stored(w, ch2, tb2)
  <2>1. Chains(w, ch2) /\ DOMAIN tb2 \subseteq DOMAIN ch2
    BY <1>3, <1>4, <1>5 DEF Stored
  <2> QED
    BY <1>2, <1>3, <1>4, <1>7, <1>10, <1>11, <2>1 DEF Stored
<1> QED
  BY <1>5, <1>12

-----------------------------------------------------------------------------
(* The calls on directories: dir_sdi, dir_next, dir_alloc.                 *)

\* What Spread says of a position of the stretched table.
LEMMA SpreadIs ==
    ASSUME NEW v, NEW ch, NEW tb, Stored(v, ch, tb), NEW h \in DOMAIN tb,
           NEW w, NEW s, Spread(w, ch, tb, h, s)
    PROVE  /\ s \in Seq(Cluster) /\ Len(s) \in Nat \ {0} /\ h \in DOMAIN ch
           /\ Len(tb[h]) \in Nat /\ Len(s) * SPS \in Nat /\ Len(tb[h]) <= Len(s) * SPS
           /\ Len(ch[h]) \in Nat \ {0} /\ Len(ch[h]) <= Len(s)
           /\ \A j \in 1 .. Len(s) : s[j] \in Cluster
           /\ \A i \in Nat \ {0} : At(i) <= Len(s) =>
                 /\ i \in 1 .. Len(s) * SPS /\ At(i) \in 1 .. Len(s)
                 /\ w[Data(s[At(i)])].tab[In(i)] = Beyond(tb[h], i)
<1> DEFINE ch2 == [ch EXCEPT ![h] = s]
           n == Len(s) * SPS
           tb2 == [tb EXCEPT ![h] = Grown(tb[h], n)]
<1>1. /\ h \in DOMAIN ch /\ Len(ch[h]) \in Nat \ {0} /\ Len(tb[h]) = Len(ch[h]) * SPS
      /\ Len(tb[h]) \in Nat
  BY TableIs
<1>2. s \in Seq(Cluster) /\ Len(ch[h]) <= Len(s) /\ Stored(w, ch2, tb2)
  BY DEF Spread
<1>3. Len(s) \in Nat \ {0} /\ n \in Nat /\ \A j \in 1 .. Len(s) : s[j] \in Cluster
  BY <1>1, <1>2, PositionUpto
<1>4. Len(tb[h]) <= n
  BY <1>1, <1>2, <1>3, Product, Sizes
<1>5. h \in DOMAIN tb2 /\ tb2[h] = Grown(tb[h], n) /\ ch2[h] = s
  BY <1>1
<1> HIDE DEF ch2, tb2, n
<1>6. Len(tb2[h]) = n /\ \A i \in 1 .. n : tb2[h][i] = Beyond(tb[h], i)
  BY <1>3, <1>5, GrownIs
<1>7. \A i \in 1 .. n : tb2[h][i] = w[Data(s[At(i)])].tab[In(i)]
  BY <1>2, <1>5, <1>6, TableIs
<1>8. ASSUME NEW i \in Nat \ {0}, At(i) <= Len(s)
      PROVE  i \in 1 .. n /\ At(i) \in 1 .. Len(s)
  <2>1. i <= n /\ At(i) \in Nat \ {0}
    BY <1>3, <1>8, PositionUpto, PositionIs DEF n
  <2> QED
    BY <1>3, <1>8, <2>1
<1> QED
  BY <1>1, <1>2, <1>3, <1>4, <1>6, <1>7, <1>8 DEF n

\* Stretching twice is stretching once.
LEMMA GrownTwice ==
    ASSUME NEW T, Len(T) \in Nat, NEW a \in Nat, NEW b \in Nat, Len(T) <= a, a <= b
    PROVE  Grown(Grown(T, a), b) = Grown(T, b)
<1> DEFINE G == Grown(T, a)
<1>1. Len(G) = a /\ \A j \in 1 .. a : G[j] = Beyond(T, j)
  BY GrownIs
<1> HIDE DEF G
<1>2. ASSUME NEW j \in 1 .. b PROVE Beyond(G, j) = Beyond(T, j)
  <2>1. CASE j <= a
    BY <1>1, <2>1 DEF Beyond
  <2>2. CASE ~(j <= a)
    BY <1>1, <2>2 DEF Beyond
  <2> QED
    BY <2>1, <2>2
<1>3. [j \in 1 .. b |-> Beyond(G, j)] = [j \in 1 .. b |-> Beyond(T, j)]
  BY <1>2
<1> QED
  BY <1>3 DEF G, Grown

\* dir_clear leaves an empty table in the window and on the medium.
LEMMA ClearIs ==
    ASSUME NEW d, NEW gone, NEW S, Window(d, gone, S), NEW c \in Cluster
    PROVE  /\ Window(d, gone, dir_clear(S, c)) /\ dir_clear(S, c).sect = Data(c)
           /\ dir_clear(S, c).vol = [S.vol EXCEPT ![Data(c)] = EmptyTable]
           /\ Data(c) \in DOMAIN S.vol
<1> DEFINE T == sync_window(S)
           N == [T EXCEPT !.vol[Data(c)] = EmptyTable, !.sect = Data(c),
                          !.out = Append(@, <<Data(c), EmptyTable>>)]
<1>1. Window(d, gone, T) /\ T.vol = S.vol
  BY SyncWindow
<1>2. dir_clear(S, c) = N
  BY DEF dir_clear
<1>3. DOMAIN T = Fields
  BY <1>1 DEF Window, Through
<1> HIDE DEF T
<1>4. N.vol = [T.vol EXCEPT ![Data(c)] = EmptyTable]
  BY <1>3 DEF Fields
<1> HIDE DEF N
<1>5. Data(c) \in DOMAIN S.vol
  BY DEF Window, Through, Sector
<1> QED
  BY <1>1, <1>2, <1>4, <1>5, DirClear

\* A directory is stretched by a cluster, if there is one left.
LEMMA StretchSpread ==
    ASSUME NEW v, NEW ch, NEW tb, Stored(v, ch, tb), NEW h \in DOMAIN tb,
           NEW d, NEW gone, NEW S, Window(d, gone, S), NEW s, Spread(S.vol, ch, tb, h, s),
           NEW C, C = create_chain(S, s[Len(s)])
    PROVE  IF C.n \in Cluster
           THEN /\ Window(d, gone, dir_clear(C.s, C.n))
                /\ Spread(dir_clear(C.s, C.n).vol, ch, tb, h, Append(s, C.n))
           ELSE Window(d, gone, C.s) /\ Spread(C.s.vol, ch, tb, h, s)
<1> DEFINE ch2 == [ch EXCEPT ![h] = s]
           tb2 == [tb EXCEPT ![h] = Grown(tb[h], Len(s) * SPS)]
           n == C.n
           R == dir_clear(C.s, n)
           t == Append(s, n)
<1>1. /\ s \in Seq(Cluster) /\ Len(s) \in Nat \ {0} /\ h \in DOMAIN ch /\ Len(tb[h]) \in Nat
      /\ Len(s) * SPS \in Nat /\ Len(tb[h]) <= Len(s) * SPS /\ Len(ch[h]) \in Nat \ {0}
      /\ Len(ch[h]) <= Len(s) /\ \A j \in 1 .. Len(ch[h]) : s[j] = ch[h][j]
  BY SpreadIs DEF Spread
<1>2. Stored(S.vol, ch2, tb2) /\ ch2[h] = s /\ h \in DOMAIN ch2 /\ h \in DOMAIN tb2
  BY <1>1 DEF Spread
<1>3. DOMAIN ch2 = DOMAIN ch /\ tb2[h] = Grown(tb[h], Len(s) * SPS)
  BY <1>1
<1>4. /\ [ch2 EXCEPT ![h] = Append(@, n)] = [ch EXCEPT ![h] = t]
      /\ [tb2 EXCEPT ![h] = Grown(@, (Len(ch2[h]) + 1) * SPS)]
            = [tb EXCEPT ![h] = Grown(Grown(tb[h], Len(s) * SPS), (Len(s) + 1) * SPS)]
  BY <1>1, <1>2
<1> HIDE DEF ch2, tb2
<1>5. Window(d, gone, C.s)
  BY CreateChain
<1>6. \/ n = 0 /\ C.s.vol = S.vol
      \/ /\ n \in Cluster /\ \A g \in DOMAIN ch2 : ~On(ch2[g], n)
         /\ Chains(C.s.vol, [ch2 EXCEPT ![h] = Append(@, n)]) /\ Aside(S.vol, C.s.vol)
  BY <1>2, LongerChain DEF Stored
<1>7. CASE n \notin Cluster
  BY <1>5, <1>6, <1>7
<1>8. CASE n \in Cluster
  <2>1. /\ \A g \in DOMAIN ch2 : ~On(ch2[g], n)
        /\ Chains(C.s.vol, [ch2 EXCEPT ![h] = Append(@, n)]) /\ Aside(S.vol, C.s.vol)
    BY <1>6, <1>8, Sizes DEF Cluster
  <2>2. /\ Window(d, gone, R) /\ R.vol = [C.s.vol EXCEPT ![Data(n)] = EmptyTable]
        /\ Data(n) \in DOMAIN C.s.vol
    BY <1>5, <1>8, ClearIs
  <2> HIDE DEF R, n
  <2>3. /\ R.vol[Data(n)] = EmptyTable
        /\ \A c \in Cluster : c # n => R.vol[Data(c)] = C.s.vol[Data(c)]
        /\ \A c \in Cluster : R.vol[FatSec(c)] = C.s.vol[FatSec(c)]
    BY <2>2, Apart DEF Data
  <2>4. Chains(R.vol, [ch2 EXCEPT ![h] = Append(@, n)])
    BY <2>1, <2>3, SameChains
  <2>5. \A c \in Cluster : c # n => R.vol[Data(c)] = S.vol[Data(c)]
    BY <2>1, <2>3 DEF Aside
  <2>6. Stored(R.vol, [ch2 EXCEPT ![h] = Append(@, n)],
               [tb2 EXCEPT ![h] = Grown(@, (Len(ch2[h]) + 1) * SPS)])
    BY <1>2, <1>8, <2>1, <2>3, <2>4, <2>5, TableGrows
  <2>7. /\ t \in Seq(Cluster) /\ Len(t) = Len(s) + 1 /\ Len(ch[h]) <= Len(t)
        /\ \A j \in 1 .. Len(ch[h]) : t[j] = ch[h][j]
    BY <1>1, <1>8
  <2>8. (Len(s) + 1) * SPS \in Nat /\ Len(s) * SPS <= (Len(s) + 1) * SPS
    BY <1>1, Product, PositionUpto, Sizes
  <2>9. Grown(Grown(tb[h], Len(s) * SPS), (Len(s) + 1) * SPS) = Grown(tb[h], (Len(s) + 1) * SPS)
    BY <1>1, <2>8, GrownTwice
  <2>10. Spread(R.vol, ch, tb, h, t)
    BY <1>4, <2>6, <2>7, <2>9 DEF Spread
  <2> QED
    BY <1>8, <2>2, <2>10 DEF R, n
<1> QED
  BY <1>7, <1>8

\* What the window does is nothing to the directory.
LEMMA SameSpread ==
    ASSUME NEW v, NEW ch, NEW tb, NEW h, NEW s, Spread(v, ch, tb, h, s), NEW w, w = v
    PROVE  Spread(w, ch, tb, h, s)
OBVIOUS

\* The position i is reached, if the directory could be stretched so far.
LEMMA DirNextIs ==
    ASSUME NEW v, NEW ch, NEW tb, Stored(v, ch, tb), NEW h \in DOMAIN tb,
           NEW d, NEW gone, NEW A, DOMAIN A = Places, Window(d, gone, A.s),
           Spread(A.s.vol, ch, tb, h, A.chain), A.pos = 0, A.full = FALSE,
           NEW i \in Nat \ {0}, i = 1 \/ At(i - 1) <= Len(A.chain),
           NEW B, B = dir_next(A, i)
    PROVE  /\ DOMAIN B = Places /\ Window(d, gone, B.s) /\ Spread(B.s.vol, ch, tb, h, B.chain)
           /\ B.pos = 0 /\ B.run = A.run /\ B.full \in BOOLEAN
           /\ B.full = FALSE => At(i) <= Len(B.chain)
<1> DEFINE s == A.chain
           c == s[At(i) - 1]
           T == get_fat(A.s, c)
           C == create_chain(T, c)
           M == [A EXCEPT !.s = get_fat(@, c)]
           N == [A EXCEPT !.s = C.s, !.full = TRUE]
           O == [A EXCEPT !.s = dir_clear(C.s, C.n), !.chain = Append(@, C.n), !.grown = TRUE]
<1>1. B = IF In(i) # 1 \/ i = 1 THEN A
          ELSE IF At(i) <= Len(s) THEN M
          ELSE IF C.n \notin Cluster THEN N ELSE O
  BY DEF dir_next, Stretch
<1>2. Window(d, gone, T) /\ T.vol = A.s.vol
  BY GetFat
<1>3. Len(s) \in Nat \ {0} /\ s \in Seq(Cluster)
  BY SpreadIs
<1>4. Spread(T.vol, ch, tb, h, s)
  BY <1>2
<1>5. /\ DOMAIN M = Places /\ M.s = T /\ M.chain = s /\ M.pos = 0 /\ M.run = A.run /\ M.full = FALSE
  BY DEF Places
<1>6. /\ DOMAIN N = Places /\ N.s = C.s /\ N.chain = s /\ N.pos = 0 /\ N.run = A.run /\ N.full = TRUE
  BY DEF Places
<1>7. /\ DOMAIN O = Places /\ O.s = dir_clear(C.s, C.n) /\ O.chain = Append(s, C.n) /\ O.pos = 0
      /\ O.run = A.run /\ O.full = FALSE
  BY DEF Places
<1> HIDE DEF s, T, C, M, N, O
<1>8. CASE In(i) # 1 \/ i = 1
  <2>1. At(i) <= Len(s)
    <3>1. CASE i = 1
      <4>1. 1 \in 1 .. SPS
        BY FatAssumption
      <4>2. At(1) = 1
        BY <4>1, FirstPositions
      <4> QED
        BY <1>3, <3>1, <4>2
    <3>2. CASE i # 1
      <4>1. i - 1 \in Nat \ {0} /\ i - 1 + 1 = i
        BY <3>2
      <4>2. At(i) = At(i - 1)
        BY <1>8, <3>2, <4>1, NextPosition
      <4> QED
        BY <3>2, <4>2 DEF s
    <3> QED
      BY <3>1, <3>2
  <2>2. B = A
    BY <1>1, <1>8
  <2> QED
    BY <2>1, <2>2 DEF s
<1>9. CASE In(i) = 1 /\ i # 1 /\ At(i) <= Len(s)
  <2>1. B = M
    BY <1>1, <1>9
  <2> QED
    BY <1>2, <1>4, <1>5, <1>9, <2>1
<1>10. CASE In(i) = 1 /\ i # 1 /\ ~(At(i) <= Len(s))
  <2>1. i - 1 \in Nat \ {0} /\ i - 1 + 1 = i
    BY <1>10
  <2>2. At(i) = At(i - 1) + 1 /\ At(i - 1) \in Nat \ {0}
    BY <1>10, <2>1, NextPosition, PositionIs
  <2>3. At(i - 1) <= Len(s)
    BY <1>10 DEF s
  <2>4. At(i) - 1 = Len(s) /\ At(i) = Len(s) + 1
    BY <1>3, <1>10, <2>2, <2>3
  <2>5. C = create_chain(T, s[Len(s)])
    BY <2>4 DEF C
  <2>6. IF C.n \in Cluster
        THEN /\ Window(d, gone, dir_clear(C.s, C.n))
             /\ Spread(dir_clear(C.s, C.n).vol, ch, tb, h, Append(s, C.n))
        ELSE Window(d, gone, C.s) /\ Spread(C.s.vol, ch, tb, h, s)
    BY <1>2, <1>4, <2>5, StretchSpread
  <2>7. CASE C.n \in Cluster
    <3>1. B = O
      BY <1>1, <1>10, <2>7
    <3>2. Len(Append(s, C.n)) = Len(s) + 1
      BY <1>3, <2>7
    <3>3. /\ DOMAIN B = Places /\ B.s = dir_clear(C.s, C.n) /\ B.chain = Append(s, C.n) /\ B.pos = 0
          /\ B.run = A.run /\ B.full = FALSE
      BY <1>7, <3>1
    <3>4. Window(d, gone, B.s) /\ Spread(B.s.vol, ch, tb, h, B.chain)
      BY <2>6, <2>7, <3>3
    <3>5. Len(s) + 1 = Len(B.chain)
      BY <3>2, <3>3
    <3>6. At(i) <= Len(B.chain)
      BY <1>3, <2>4, <3>5
    <3> QED
      BY <3>3, <3>4, <3>6
  <2>8. CASE C.n \notin Cluster
    <3>1. B = N
      BY <1>1, <1>10, <2>8
    <3> QED
      BY <1>6, <2>6, <2>8, <3>1
  <2> QED
    BY <2>7, <2>8
<1> QED
  BY <1>8, <1>9, <1>10

\* n slots up to pos are free, and the table does not end before them.
Fits(T, pos, n) ==
    /\ pos \in Nat /\ n <= pos
    /\ \A j \in 1 .. pos : IF j > pos - n THEN Beyond(T, j) \in Free ELSE Beyond(T, j).k # "end"

\* The search for n free slots after i slots.
Searching(d, gone, ch, tb, h, n, A, i) ==
    /\ DOMAIN A = Places /\ Window(d, gone, A.s) /\ Spread(A.s.vol, ch, tb, h, A.chain)
    /\ A.full \in BOOLEAN /\ A.pos \in Nat
    /\ A.pos # 0 => At(A.pos) <= Len(A.chain) /\ Fits(tb[h], A.pos, n)
    /\ A.pos = 0 /\ A.full = FALSE =>
          (i = 0 \/ At(i) <= Len(A.chain)) /\ A.run < n /\ Fits(tb[h], i, A.run) /\ A.run \in Nat

\* Behind the end of a table there is nothing, whatever its length.
LEMMA EndsStay ==
    ASSUME NEW T, Len(T) \in Nat, WellFormed(T), NEW j \in Nat \ {0}, Beyond(T, j).k = "end",
           NEW i \in Nat, j <= i
    PROVE  Beyond(T, i) = [k |-> "end"]
<1>1. CASE i <= Len(T)
  <2>1. j \in 1 .. Len(T) /\ i \in j .. Len(T) /\ i \in 1 .. Len(T) /\ T[j].k = "end"
    BY <1>1 DEF Beyond
  <2>2. T[i].k = "end"
    BY <2>1 DEF WellFormed
  <2> QED
    BY <1>1, <2>1, <2>2 DEF WellFormed, Beyond
<1>2. CASE ~(i <= Len(T))
  BY <1>2 DEF Beyond
<1> QED
  BY <1>1, <1>2

\* One turn of dir_alloc.
LEMMA ExaminedIs ==
    ASSUME NEW v, NEW ch, NEW tb, Stored(v, ch, tb), NEW h \in DOMAIN tb, WellFormed(tb[h]),
           NEW n \in Nat \ {0}, NEW d, NEW gone, NEW A, NEW i \in Nat \ {0},
           Searching(d, gone, ch, tb, h, n, A, i - 1), A.pos = 0, A.full = FALSE
    PROVE  Searching(d, gone, ch, tb, h, n, Examined(dir_next(A, i), i, n), i)
<1> DEFINE B == dir_next(A, i)
           T == tb[h]
           S == move_window(B.s, Data(B.chain[At(i)]))
           run == IF S.vol[S.sect].tab[In(i)] \in Free THEN B.run + 1 ELSE 0
           N == [B EXCEPT !.s = S, !.run = run, !.pos = IF run = n THEN i ELSE 0]
<1>1. /\ DOMAIN A = Places /\ Window(d, gone, A.s) /\ Spread(A.s.vol, ch, tb, h, A.chain)
      /\ (i - 1 = 0 \/ At(i - 1) <= Len(A.chain)) /\ A.run < n /\ Fits(T, i - 1, A.run) /\ A.run \in Nat
  BY DEF Searching
<1>2. /\ DOMAIN B = Places /\ Window(d, gone, B.s) /\ Spread(B.s.vol, ch, tb, h, B.chain)
      /\ B.pos = 0 /\ B.run = A.run /\ B.full \in BOOLEAN
      /\ B.full = FALSE => At(i) <= Len(B.chain)
  <2>1. i = 1 \/ At(i - 1) <= Len(A.chain)
    BY <1>1
  <2> QED
    BY <1>1, <2>1, DirNextIs
<1>3. Examined(B, i, n) = IF B.full THEN B ELSE N
  BY DEF Examined
<1> HIDE DEF B
<1>4. CASE B.full = TRUE
  BY <1>2, <1>3, <1>4 DEF Searching, B
<1>5. CASE B.full = FALSE
  <2>1. Window(d, gone, S) /\ S.sect = Data(B.chain[At(i)]) /\ S.vol = B.s.vol
    BY <1>2, MoveWindow
  <2> HIDE DEF S
  <2>2. S.vol[S.sect].tab[In(i)] = Beyond(T, i)
    BY <1>2, <1>5, <2>1, SpreadIs
  <2>3. /\ DOMAIN N = Places /\ N.s = S /\ N.chain = B.chain /\ N.full = FALSE
        /\ N.run = run /\ N.pos = IF run = n THEN i ELSE 0
    BY <1>2, <1>5 DEF Places
  <2>4. run = IF Beyond(T, i) \in Free THEN A.run + 1 ELSE 0
    BY <1>2, <2>2
  <2> HIDE DEF N, run, T
  <2>5. run \in Nat /\ run <= n /\ Fits(T, i, run)
    <3>1. CASE Beyond(T, i) \in Free
      <4>1. run = A.run + 1
        BY <2>4, <3>1
      <4>2. ASSUME NEW j \in 1 .. i
            PROVE  IF j > i - run THEN Beyond(T, j) \in Free ELSE Beyond(T, j).k # "end"
        <5>1. CASE j = i
          BY <1>1, <3>1, <4>1, <5>1
        <5>2. CASE j # i
          <6>1. j \in 1 .. i - 1 /\ (j > i - run <=> j > i - 1 - A.run)
            BY <1>1, <4>1, <5>2
          <6> QED
            BY <1>1, <6>1 DEF Fits
        <5> QED
          BY <5>1, <5>2
      <4> QED
        BY <1>1, <4>1, <4>2 DEF Fits
    <3>2. CASE Beyond(T, i) \notin Free
      <4>1. run = 0
        BY <2>4, <3>2
      <4>2. ASSUME NEW j \in 1 .. i PROVE Beyond(T, j).k # "end"
        <5>1. ASSUME Beyond(T, j).k = "end" PROVE FALSE
          <6>1. Len(T) \in Nat
            BY <1>2, SpreadIs DEF T
          <6>2. Beyond(T, i) = [k |-> "end"]
            BY <5>1, <6>1, EndsStay DEF T
          <6> QED
            BY <3>2, <6>2 DEF Free
        <5> QED
          BY <5>1
      <4> QED
        BY <4>1, <4>2 DEF Fits
    <3> QED
      BY <3>1, <3>2
  <2>6. Searching(d, gone, ch, tb, h, n, N, i)
    <3>1. CASE run = n
      <4>1. N.pos = i
        BY <2>3, <3>1
      <4> QED
        BY <1>2, <1>5, <2>1, <2>3, <2>5, <3>1, <4>1 DEF Searching, T
    <3>2. CASE run # n
      <4>1. N.pos = 0 /\ run < n
        BY <2>3, <2>5, <3>2
      <4> QED
        BY <1>2, <1>5, <2>1, <2>3, <2>5, <4>1 DEF Searching, T
    <3> QED
      BY <3>1, <3>2
  <2> QED
    BY <1>3, <1>5, <2>6 DEF B
<1> QED
  BY <1>2, <1>4, <1>5

\* dir_alloc finds n free slots one behind the other, with no end before them, or runs out of clusters.
LEMMA AllocIs ==
    ASSUME NEW d, NEW gone, NEW S, Window(d, gone, S), NEW ch, NEW tb, Stored(S.vol, ch, tb),
           NEW h \in DOMAIN tb, WellFormed(tb[h]), NEW n \in Nat \ {0},
           NEW A, A = dir_alloc(S, ch[h], n)
    PROVE  /\ Window(d, gone, A.s) /\ Spread(A.s.vol, ch, tb, h, A.chain) /\ A.pos \in Nat
           /\ A.pos # 0 => At(A.pos) <= Len(A.chain) /\ Fits(tb[h], A.pos, n)
<1> DEFINE loop == [name |-> "dir_alloc", n |-> n]
           turns == Top * SPS
           s0 == [s |-> S, chain |-> ch[h], run |-> 0, pos |-> 0, grown |-> FALSE, full |-> FALSE]
           F(T, k) ==
               IF T.full \/ T.pos # 0 THEN T ELSE Examined(dir_next(T, k), k, n)
           G(g) == g = [k \in 0 .. turns |-> IF k = 0 THEN s0 ELSE F(g[k - 1], k)]
           Good(T, k) == Searching(d, gone, ch, tb, h, n, T, k)
           Q(g) == {k \in Nat : Good(g[k], k)}
<1>1. turns \in Nat
  BY Sizes
<1>2. \A T, k : Turn(loop, T, k) = F(T, k)
  BY DEF Turn
<1>3. Good(s0, 0)
  <2>1. /\ DOMAIN s0 = Places /\ s0.s = S /\ s0.chain = ch[h] /\ s0.run = 0 /\ s0.pos = 0
        /\ s0.full = FALSE
    BY DEF Places
  <2> HIDE DEF s0
  <2>2. Spread(s0.s.vol, ch, tb, h, s0.chain)
    BY <2>1, NotSpread
  <2>3. Fits(tb[h], 0, s0.run)
    BY <2>1 DEF Fits
  <2>4. Window(d, gone, s0.s)
    BY <2>1
  <2>5. /\ s0.full \in BOOLEAN
        /\ s0.pos \in Nat /\ s0.run \in Nat /\ s0.run < n
    <3>1. s0.full \in BOOLEAN
      BY <2>1, Zenon
    <3>2. s0.pos = 0 /\ s0.run = 0
      BY <2>1, Zenon
    <3> QED
      BY <3>1, <3>2
  <2> HIDE DEF Good
  <2>6. Searching(d, gone, ch, tb, h, n, s0, 0)
    BY <2>1, <2>2, <2>3, <2>4, <2>5 DEF Searching
  <2> QED
    BY <2>6 DEF Good
<1>4. ASSUME NEW T, NEW k \in 1 .. turns, Good(T, k - 1) PROVE Good(F(T, k), k)
  <2>1. k \in Nat \ {0}
    BY <1>1
  <2>2. CASE T.full = FALSE /\ T.pos = 0
    <3>1. F(T, k) = Examined(dir_next(T, k), k, n)
      BY <2>2
    <3> QED
      BY <1>4, <2>1, <2>2, <3>1, ExaminedIs
  <2>3. CASE T.full = TRUE \/ T.pos # 0
    <3>1. F(T, k) = T
      BY <2>3
    <3> QED
      BY <1>4, <2>3, <3>1 DEF Searching
  <2> QED
    BY <1>4, <2>2, <2>3 DEF Searching
<1>5. A = (CHOOSE g : G(g))[turns]
  BY Zenon DEF dir_alloc, Loop
<1> HIDE DEF F, s0, loop, turns, Good
<1>6. \E g : G(g)
  <2>1. PICK g : Run(loop, s0, turns, g)
    BY <1>1, RunExists
  <2>2. G(g)
    BY <2>1, <1>2 DEF Run
  <2> QED
    BY <2>2
<1>7. PICK g : G(g) /\ A = g[turns]
  BY <1>5, <1>6
<1>8. 0 \in Q(g)
  BY <1>1, <1>3, <1>7
<1>9. ASSUME NEW k \in 1 .. turns, k - 1 \in Q(g) PROVE k \in Q(g)
  <2>1. g[k] = F(g[k - 1], k) /\ k \in Nat
    BY <1>1, <1>7
  <2> QED
    BY <2>1, <1>4, <1>9
<1>10. turns \in Q(g)
  <2> HIDE DEF Q
  <2> QED
    BY <1>1, <1>8, <1>9, Turns
<1>11. Good(A, turns)
  BY <1>7, <1>10
<1> QED
  BY <1>11 DEF Good, Searching

\* U has the objects of the table T, but for what is at the positions P.
Keeping(T, U, P) ==
    /\ WellFormed(U) /\ Len(U) \in Nat /\ Len(T) <= Len(U) /\ (T[2].k = "dots" => U[2].k = "dots")
    /\ \A i \in 1 .. Len(U) : i \notin P =>
          /\ U[i].k = "sfn" <=> i <= Len(T) /\ T[i].k = "sfn"
          /\ U[i].k = "sfn" => U[i] = T[i] /\ NameAt(U, i) = NameAt(T, i)

\* Keeping is transitive.
LEMMA KeepingBoth ==
    ASSUME NEW T, NEW U, NEW V, NEW P, NEW Q, Len(T) \in Nat, Keeping(T, U, P), Keeping(U, V, Q)
    PROVE  Keeping(T, V, P \cup Q)
BY DEF Keeping

\* A longer table has the same objects.
LEMMA GrownKeeps ==
    ASSUME NEW T, WellFormed(T), Len(T) \in Nat, 2 <= Len(T), NEW n \in Nat, Len(T) <= n
    PROVE  Keeping(T, Grown(T, n), {})
<1> DEFINE U == Grown(T, n)
<1>1. Len(U) = n /\ \A j \in 1 .. n : U[j] = Beyond(T, j)
  BY GrownIs
<1>2. \A j \in 1 .. Len(T) : U[j] = T[j]
  BY <1>1 DEF Beyond
<1>3. \A j \in 1 .. n : ~(j <= Len(T)) => U[j] = [k |-> "end"]
  BY <1>1 DEF Beyond
<1> HIDE DEF U
<1>4. ASSUME NEW i \in 1 .. n, U[i].k = "end" PROVE U[i] = [k |-> "end"] /\ \A j \in i .. n : U[j].k = "end"
  <2>1. \A j \in i .. n : j \in Nat /\ i <= j /\ j \in 1 .. n
    OBVIOUS
  <2>2. Beyond(T, i).k = "end" /\ i \in Nat \ {0}
    BY <1>1, <1>4
  <2>3. \A j \in i .. n : Beyond(T, j) = [k |-> "end"]
    BY <2>1, <2>2, EndsStay
  <2> QED
    BY <1>1, <2>1, <2>3
<1>5. WellFormed(U)
  <2> SUFFICES ASSUME NEW i \in 1 .. n
               PROVE  /\ U[i].k = "lfn" => /\ i < n /\ U[i + 1].k = "sfn" /\ U[i + 1].sfn = U[i].sfn
                                           /\ U[i].name \in DOMAIN Alias /\ U[i].sfn[2] # 0
                      /\ U[i].k = "sfn" => /\ IsObject(U[i])
                                           /\ IF U[i].sfn[2] = 0
                                              THEN U[i].sfn = <<U[i].sfn[1], 0>> /\ U[i].sfn[1] \notin DOMAIN Alias
                                              ELSE i > 1 /\ U[i - 1].k = "lfn"
    BY <1>1, <1>4 DEF WellFormed
  <2>1. CASE i <= Len(T)
    <3>1. i \in 1 .. Len(T) /\ U[i] = T[i]
      BY <1>2, <2>1
    <3>2. i < Len(T) => U[i + 1] = T[i + 1]
      BY <1>2, <2>1
    <3>3. i > 1 => U[i - 1] = T[i - 1]
      BY <1>2, <2>1
    <3> QED
      BY <3>1, <3>2, <3>3 DEF WellFormed
  <2>2. CASE ~(i <= Len(T))
    BY <1>3, <2>2
  <2> QED
    BY <2>1, <2>2
<1>6. ASSUME NEW i \in 1 .. n
      PROVE  /\ U[i].k = "sfn" <=> i <= Len(T) /\ T[i].k = "sfn"
             /\ U[i].k = "sfn" => U[i] = T[i] /\ NameAt(U, i) = NameAt(T, i)
  <2>1. CASE i <= Len(T)
    <3>1. U[i] = T[i] /\ (i > 1 => U[i - 1] = T[i - 1])
      BY <1>2, <2>1
    <3> QED
      BY <2>1, <3>1 DEF NameAt
  <2>2. CASE ~(i <= Len(T))
    BY <1>3, <2>2
  <2> QED
    BY <2>1, <2>2
<1>7. U[2] = T[2]
  BY <1>2
<1> QED
  BY <1>1, <1>5, <1>6, <1>7 DEF Keeping, U

IsTable(T) == IsSeq(T) /\ 2 <= Len(T) /\ WellFormed(T)

\* The table T with x in slot i.
Put(T, i, x) == [T EXCEPT ![i] = x]

\* A table with one slot replaced.
LEMMA PutIs ==
    ASSUME NEW T, IsSeq(T), NEW i \in 1 .. Len(T), NEW x
    PROVE  /\ Len(Put(T, i, x)) = Len(T) /\ IsSeq(Put(T, i, x))
           /\ \A j \in 1 .. Len(T) : Put(T, i, x)[j] = IF j = i THEN x ELSE T[j]
<1> DEFINE m == Len(T)
           V == [j \in 1 .. m |-> IF j = i THEN x ELSE T[j]]
<1>1. m \in Nat
  BY DEF IsSeq
<1>2. DOMAIN T = 1 .. m
  BY DEF IsSeq
<1> HIDE DEF m
<1>3. Put(T, i, x) = V
  BY <1>1, <1>2 DEF Put
<1>4. Len(V) = m /\ V = [j \in 1 .. m |-> V[j]] /\ \A j \in 1 .. m : V[j] = IF j = i THEN x ELSE T[j]
  BY <1>1
<1> HIDE DEF V
<1>5. Len(V) = Len(T) /\ V = [j \in 1 .. Len(V) |-> V[j]]
  BY <1>4 DEF m
<1>6. IsSeq(V)
  BY <1>1, <1>5 DEF IsSeq, m
<1> QED
  BY <1>3, <1>4, <1>5, <1>6 DEF m

\* A short name takes one free slot.
LEMMA EnterShort ==
    ASSUME NEW T, IsTable(T), NEW pos \in 1 .. Len(T), T[pos] \in Free,
           \A j \in 1 .. pos - 1 : T[j].k # "end", NEW n, n \notin DOMAIN Alias,
           NEW U, Len(U) = Len(T), \A j \in 1 .. Len(T) : U[j] = IF j = pos THEN Blank(<<n, 0>>) ELSE T[j]
    PROVE  Keeping(T, U, {pos}) /\ NameAt(U, pos) = n
<1> DEFINE m == Len(T)
           b == Blank(<<n, 0>>)
<1>1. /\ m \in Nat /\ 2 <= m /\ WellFormed(T) /\ T[pos].k \in {"end", "del"} /\ pos \in 1 .. m /\ Len(U) = m
      /\ \A j \in 1 .. m : U[j] = IF j = pos THEN b ELSE T[j]
      /\ \A j \in 1 .. pos - 1 : T[j].k # "end"
  BY DEF IsTable, IsSeq, Free
<1>2. IsObject(b) /\ b.k = "sfn" /\ b.sfn = <<n, 0>> /\ b.sfn[2] = 0 /\ b.sfn[1] = n
  BY DEF Blank, IsObject
<1> HIDE DEF m, b
<1>3. ASSUME NEW i \in 1 .. m, U[i].k = "end" PROVE U[i] = [k |-> "end"] /\ \A j \in i .. m : U[j].k = "end"
  <2>1. i # pos /\ T[i].k = "end"
    BY <1>1, <1>2, <1>3
  <2>2. i > pos
    BY <1>1, <2>1
  <2>3. T[i] = [k |-> "end"] /\ \A j \in i .. m : T[j].k = "end"
    BY <1>1, <2>1 DEF WellFormed, m
  <2> QED
    BY <1>1, <2>1, <2>2, <2>3
<1>4. ASSUME NEW i \in 1 .. m, U[i].k = "lfn"
      PROVE  /\ i < m /\ U[i + 1].k = "sfn" /\ U[i + 1].sfn = U[i].sfn
             /\ U[i].name \in DOMAIN Alias /\ U[i].sfn[2] # 0
  <2>1. i # pos /\ T[i].k = "lfn" /\ U[i] = T[i]
    BY <1>1, <1>2, <1>4
  <2>2. /\ i < m /\ T[i + 1].k = "sfn" /\ T[i + 1].sfn = T[i].sfn
        /\ T[i].name \in DOMAIN Alias /\ T[i].sfn[2] # 0
    BY <1>1, <2>1 DEF WellFormed, m
  <2>3. i + 1 # pos /\ i + 1 \in 1 .. m
    BY <1>1, <2>2
  <2> QED
    BY <1>1, <2>1, <2>2, <2>3
<1>5. ASSUME NEW i \in 1 .. m, i # pos, T[i].k = "sfn"
      PROVE  /\ IsObject(T[i])
             /\ IF T[i].sfn[2] = 0
                THEN T[i].sfn = <<T[i].sfn[1], 0>> /\ T[i].sfn[1] \notin DOMAIN Alias
                ELSE i > 1 /\ U[i - 1].k = "lfn"
             /\ NameAt(U, i) = NameAt(T, i)
  <2>1. /\ IsObject(T[i])
        /\ IF T[i].sfn[2] = 0
           THEN T[i].sfn = <<T[i].sfn[1], 0>> /\ T[i].sfn[1] \notin DOMAIN Alias
           ELSE i > 1 /\ T[i - 1].k = "lfn"
    BY <1>1, <1>5 DEF WellFormed, m
  <2>2. i > 1 => i - 1 \in 1 .. m /\ U[i - 1] = IF i - 1 = pos THEN b ELSE T[i - 1]
    BY <1>1
  <2>3. i > 1 => (U[i - 1] = T[i - 1] \/ (U[i - 1].k # "lfn" /\ T[i - 1].k # "lfn"))
    BY <1>1, <1>2, <2>2
  <2>4. U[i] = T[i]
    BY <1>1, <1>5
  <2> QED
    BY <2>1, <2>3, <2>4 DEF NameAt
<1>6. WellFormed(U)
  <2> SUFFICES ASSUME NEW i \in 1 .. m, U[i].k = "sfn"
               PROVE  /\ IsObject(U[i])
                      /\ IF U[i].sfn[2] = 0
                         THEN U[i].sfn = <<U[i].sfn[1], 0>> /\ U[i].sfn[1] \notin DOMAIN Alias
                         ELSE i > 1 /\ U[i - 1].k = "lfn"
    BY <1>1, <1>3, <1>4 DEF WellFormed
  <2>1. CASE i = pos
    BY <1>1, <1>2, <2>1
  <2>2. CASE i # pos
    <3>1. U[i] = T[i]
      BY <1>1, <2>2
    <3> QED
      BY <1>5, <2>2, <3>1
  <2> QED
    BY <2>1, <2>2
<1>7. NameAt(U, pos) = n
  <2>1. ~(pos > 1 /\ U[pos - 1].k = "lfn")
    <3>1. ASSUME pos > 1, U[pos - 1].k = "lfn" PROVE FALSE
      <4>1. pos - 1 \in 1 .. m /\ pos - 1 # pos /\ pos - 1 + 1 = pos
        BY <1>1, <3>1
      <4>2. T[pos - 1].k = "lfn"
        BY <1>1, <3>1, <4>1
      <4>3. T[pos].k = "sfn"
        BY <1>1, <4>1, <4>2 DEF WellFormed, m
      <4> QED
        BY <1>1, <4>3
    <3> QED
      BY <3>1
  <2>2. U[pos] = b
    BY <1>1
  <2> QED
    BY <1>2, <2>1, <2>2 DEF NameAt
<1>8. \A i \in 1 .. m : i # pos => U[i] = T[i]
  BY <1>1
<1>9. T[2].k = "dots" => U[2].k = "dots"
  <2>1. 2 \in 1 .. m
    BY <1>1
  <2> QED
    BY <1>1, <1>8, <2>1
<1> QED
  BY <1>1, <1>5, <1>6, <1>7, <1>8, <1>9 DEF Keeping, m

-----------------------------------------------------------------------------
(* dir_register and dir_remove on well-formed tables.                      *)

\* The slot i of the table U is the long name of the object behind it.
Leads(U, i) ==
    /\ i < Len(U) /\ U[i + 1].k = "sfn" /\ U[i + 1].sfn = U[i].sfn
    /\ U[i].name \in DOMAIN Alias /\ U[i].sfn[2] # 0
\* The slot i of the table U is an object with the slots its name needs.
Stands(U, i) ==
    /\ IsObject(U[i])
    /\ IF U[i].sfn[2] = 0
       THEN U[i].sfn = <<U[i].sfn[1], 0>> /\ U[i].sfn[1] \notin DOMAIN Alias
       ELSE i > 1 /\ U[i - 1].k = "lfn"

\* WellFormed, slot by slot.
LEMMA WellFormedIs ==
    ASSUME NEW U
    PROVE  WellFormed(U) <=> \A i \in 1 .. Len(U) :
               /\ U[i].k = "end" => U[i] = [k |-> "end"] /\ \A j \in i .. Len(U) : U[j].k = "end"
               /\ U[i].k = "lfn" => Leads(U, i)
               /\ U[i].k = "sfn" => Stands(U, i)
BY Zenon DEF WellFormed, Leads, Stands

\* The slots C of a table are rewritten.
LEMMA Rewritten ==
    ASSUME NEW T, IsTable(T), NEW U, Len(U) = Len(T), NEW C, NEW P,
           \A j \in 1 .. Len(T) : j \notin C => U[j] = T[j],
           \A c \in C : /\ c \in 1 .. Len(T) /\ U[c].k # "end"
                        /\ \A j \in 1 .. c - 1 : T[j].k = "end" => j \in C,
           \A i \in 1 .. Len(T) : /\ U[i].k = "lfn" /\ (i \in C \/ i + 1 \in C) => Leads(U, i)
                                  /\ U[i].k = "sfn" /\ (i \in C \/ i - 1 \in C) => Stands(U, i),
           \A i \in 1 .. Len(T) : (i \in C \/ i - 1 \in C) /\ i \notin P =>
                /\ U[i].k = "sfn" <=> T[i].k = "sfn"
                /\ U[i].k = "sfn" => U[i] = T[i] /\ NameAt(U, i) = NameAt(T, i),
           T[2].k = "dots" => U[2].k = "dots"
    PROVE  Keeping(T, U, P)
<1> DEFINE m == Len(T)
<1>1. m \in Nat /\ 2 <= m /\ Len(U) = m /\ WellFormed(T)
  BY DEF IsTable, IsSeq
<1> HIDE DEF m
<1>2. ASSUME NEW i \in 1 .. m, U[i].k = "end" PROVE U[i] = [k |-> "end"] /\ \A j \in i .. m : U[j].k = "end"
  <2>1. i \notin C /\ U[i] = T[i]
    BY <1>2 DEF m
  <2>2. T[i] = [k |-> "end"] /\ \A j \in i .. m : T[j].k = "end"
    BY <1>1, <1>2, <2>1 DEF WellFormed, m
  <2>3. \A c \in C : ~(i < c)
    <3> SUFFICES ASSUME NEW c \in C, i < c PROVE FALSE
      OBVIOUS
    <3>1. c \in 1 .. m /\ \A j \in 1 .. c - 1 : T[j].k = "end" => j \in C
      BY DEF m
    <3>2. i \in 1 .. c - 1
      BY <1>1, <3>1
    <3> QED
      BY <2>1, <2>2, <3>1, <3>2, <1>2
  <2>4. \A j \in i .. m : j \in 1 .. m /\ (j = i \/ i < j)
    BY <1>1
  <2>5. \A j \in i .. m : U[j] = T[j]
    BY <2>1, <2>3, <2>4 DEF m
  <2> QED
    BY <2>1, <2>2, <2>5
<1>3. ASSUME NEW i \in 1 .. m, U[i].k = "lfn" PROVE Leads(U, i)
  <2>1. CASE i \in C \/ i + 1 \in C
    BY <1>3, <2>1 DEF m
  <2>2. CASE ~(i \in C \/ i + 1 \in C)
    <3>1. U[i] = T[i]
      BY <2>2 DEF m
    <3>2. Leads(T, i)
      BY <1>1, <1>3, <3>1, WellFormedIs DEF m
    <3>3. i + 1 \in 1 .. m
      BY <1>1, <3>2 DEF Leads, m
    <3>4. U[i + 1] = T[i + 1]
      BY <2>2, <3>3 DEF m
    <3> QED
      BY <1>1, <3>1, <3>2, <3>4 DEF Leads, m
  <2> QED
    BY <2>1, <2>2
<1>4. ASSUME NEW i \in 1 .. m, i \notin C, i - 1 \notin C
      PROVE  /\ U[i] = T[i]
             /\ U[i].k = "sfn" => Stands(U, i)
             /\ NameAt(U, i) = NameAt(T, i)
  <2>1. U[i] = T[i]
    BY <1>4 DEF m
  <2>2. i > 1 => U[i - 1] = T[i - 1]
    BY <1>1, <1>4 DEF m
  <2>3. T[i].k = "sfn" => Stands(T, i)
    BY <1>1, WellFormedIs DEF m
  <2> QED
    BY <2>1, <2>2, <2>3 DEF Stands, NameAt
<1>5. ASSUME NEW i \in 1 .. m, U[i].k = "sfn" PROVE Stands(U, i)
  <2>1. CASE i \in C \/ i - 1 \in C
    BY <1>5, <2>1 DEF m
  <2>2. CASE ~(i \in C \/ i - 1 \in C)
    BY <1>4, <1>5, <2>2
  <2> QED
    BY <2>1, <2>2
<1>6. WellFormed(U)
  BY <1>1, <1>2, <1>3, <1>5, WellFormedIs
<1>7. ASSUME NEW i \in 1 .. m, i \notin P
      PROVE  /\ U[i].k = "sfn" <=> T[i].k = "sfn"
             /\ U[i].k = "sfn" => U[i] = T[i] /\ NameAt(U, i) = NameAt(T, i)
  <2>1. CASE i \in C \/ i - 1 \in C
    BY <1>7, <2>1 DEF m
  <2>2. CASE ~(i \in C \/ i - 1 \in C)
    <3>1. U[i] = T[i] /\ NameAt(U, i) = NameAt(T, i)
      BY <1>4, <2>2 DEF m
    <3> QED
      BY <3>1
  <2> QED
    BY <2>1, <2>2
<1>8. \A i \in 1 .. m : i <= m
  BY <1>1
<1>9. T[2].k = "dots" => U[2].k = "dots"
  OBVIOUS
<1> QED
  BY <1>1, <1>6, <1>7, <1>8, <1>9 DEF Keeping, m

\* The table U has an object with a long name at pos and is T but for that.
LongIn(T, U, pos, n, sfn) ==
    /\ Len(U) = Len(T)
    /\ \A j \in 1 .. Len(T) : U[j] = IF j = pos THEN Blank(sfn)
                                     ELSE IF j = pos - 1 THEN [k |-> "lfn", name |-> n, sfn |-> sfn]
                                     ELSE T[j]

\* A long name takes two free slots.
LEMMA EnterLong ==
    ASSUME NEW T, IsTable(T), NEW pos \in 2 .. Len(T), T[pos] \in Free, T[pos - 1] \in Free,
           \A j \in 1 .. pos - 2 : T[j].k # "end", NEW n \in DOMAIN Alias,
           NEW sfn, sfn[2] # 0, NEW U, LongIn(T, U, pos, n, sfn)
    PROVE  Keeping(T, U, {pos}) /\ NameAt(U, pos) = n
<1> DEFINE m == Len(T)
           b == Blank(sfn)
           l == [k |-> "lfn", name |-> n, sfn |-> sfn]
           q == pos - 1
           C == {q, pos}
<1>1. /\ m \in Nat /\ 2 <= m /\ pos \in Nat /\ q \in Nat /\ 1 <= q /\ q + 1 = pos /\ pos <= m /\ Len(U) = m
      /\ T[pos].k \in {"end", "del"} /\ T[q].k \in {"end", "del"}
      /\ U[pos] = b /\ U[q] = l /\ WellFormed(T)
      /\ \A j \in 1 .. m : j \notin C => U[j] = T[j]
      /\ \A j \in 1 .. q - 1 : T[j].k # "end"
  BY DEF IsTable, IsSeq, Free, LongIn
<1>2. /\ IsObject(b) /\ b.k = "sfn" /\ b.sfn = sfn
      /\ l.k = "lfn" /\ l.sfn = sfn /\ l.name = n
  BY DEF Blank, IsObject
<1> HIDE DEF m, b, l, q
<1>3. \A j \in 1 .. Len(T) : j \notin C => U[j] = T[j]
  BY <1>1 DEF m
<1>4. \A c \in C : /\ c \in 1 .. Len(T) /\ U[c].k # "end"
                   /\ \A j \in 1 .. c - 1 : T[j].k = "end" => j \in C
  <2>1. q \in 1 .. m /\ pos \in 1 .. m
    BY <1>1
  <2>2. \A j \in 1 .. pos - 1 : j \in 1 .. q - 1 \/ j = q
    BY <1>1
  <2> QED
    BY <1>1, <1>2, <2>1, <2>2 DEF m
<1>5. Leads(U, q) /\ Stands(U, pos)
  <2>1. q < Len(U) /\ U[q + 1] = b /\ U[pos - 1] = l /\ pos > 1
    BY <1>1 DEF q
  <2> QED
    BY <1>1, <1>2, <2>1 DEF Leads, Stands
<1>6. ASSUME NEW i \in 1 .. m, i + 1 = q PROVE U[i] = T[i] /\ U[i].k # "lfn"
  <2>1. i \notin C
    BY <1>1, <1>6
  <2>2. T[i].k = "lfn" => Leads(T, i)
    BY <1>1, WellFormedIs DEF m
  <2>3. U[i] = T[i]
    BY <1>1, <2>1
  <2> QED
    BY <1>1, <1>6, <2>2, <2>3 DEF Leads
<1>7. ASSUME NEW i \in 1 .. m, i - 1 = pos PROVE U[i] = T[i] /\ (T[i].k = "sfn" => Stands(U, i))
                                                /\ NameAt(U, i) = NameAt(T, i)
  <2>1. i \notin C /\ i > 1
    BY <1>1, <1>7
  <2>2. U[i] = T[i]
    BY <1>1, <2>1
  <2>3. T[i].k = "sfn" => Stands(T, i)
    BY <1>1, WellFormedIs DEF m
  <2>4. U[i - 1].k # "lfn" /\ T[i - 1].k # "lfn"
    BY <1>1, <1>2, <1>7
  <2> QED
    BY <2>1, <2>2, <2>3, <2>4 DEF Stands, NameAt
<1>8. \A i \in 1 .. Len(T) : /\ U[i].k = "lfn" /\ (i \in C \/ i + 1 \in C) => Leads(U, i)
                             /\ U[i].k = "sfn" /\ (i \in C \/ i - 1 \in C) => Stands(U, i)
  <2> SUFFICES ASSUME NEW i \in 1 .. m
               PROVE  /\ U[i].k = "lfn" /\ (i \in C \/ i + 1 \in C) => Leads(U, i)
                      /\ U[i].k = "sfn" /\ (i \in C \/ i - 1 \in C) => Stands(U, i)
    BY DEF m
  <2>1. /\ i + 1 \in C => i = q \/ i + 1 = q
        /\ i - 1 \in C => i = pos \/ i - 1 = pos
    BY <1>1
  <2>2. U[pos].k = "sfn" /\ U[q].k = "lfn"
    BY <1>1, <1>2
  <2> QED
    BY <1>5, <1>6, <1>7, <2>1, <2>2
<1>9. \A i \in 1 .. Len(T) : (i \in C \/ i - 1 \in C) /\ i \notin {pos} =>
        /\ U[i].k = "sfn" <=> T[i].k = "sfn"
        /\ U[i].k = "sfn" => U[i] = T[i] /\ NameAt(U, i) = NameAt(T, i)
  <2> SUFFICES ASSUME NEW i \in 1 .. m, i \in C \/ i - 1 \in C, i # pos
               PROVE  /\ U[i].k = "sfn" <=> T[i].k = "sfn"
                      /\ U[i].k = "sfn" => U[i] = T[i] /\ NameAt(U, i) = NameAt(T, i)
    BY DEF m
  <2>1. i = q \/ i - 1 = pos
    BY <1>1
  <2>2. U[q].k = "lfn" /\ T[q].k # "sfn"
    BY <1>1, <1>2
  <2> QED
    BY <1>7, <2>1, <2>2
<1>10. T[2].k = "dots" => U[2].k = "dots"
  <2>1. 2 \in 1 .. m
    BY <1>1
  <2> QED
    BY <1>1, <2>1
<1>11. NameAt(U, pos) = n
  <2>1. pos > 1 /\ U[pos - 1] = l /\ U[pos] = b
    BY <1>1 DEF q
  <2> QED
    BY <1>2, <2>1 DEF NameAt
<1>12. Len(U) = Len(T)
  BY DEF LongIn
<1> HIDE DEF C
<1>13. Keeping(T, U, {pos})
  BY <1>3, <1>4, <1>8, <1>9, <1>10, <1>12, Rewritten
<1> QED
  BY <1>11, <1>13
\* The entry of an object is written again, its name is not.
LEMMA Changed ==
    ASSUME NEW T, IsTable(T), NEW i \in 1 .. Len(T), T[i].k = "sfn", NEW x, IsObject(x), x.sfn = T[i].sfn,
           NEW U, Len(U) = Len(T), \A j \in 1 .. Len(T) : U[j] = IF j = i THEN x ELSE T[j]
    PROVE  Keeping(T, U, {i}) /\ NameAt(U, i) = NameAt(T, i)
<1> DEFINE m == Len(T)
           C == {i}
<1>1. /\ m \in Nat /\ 2 <= m /\ Len(U) = m /\ WellFormed(T) /\ i \in 1 .. m
      /\ x.k = "sfn" /\ U[i] = x /\ \A j \in 1 .. m : j # i => U[j] = T[j]
  BY DEF IsTable, IsSeq, IsObject
<1> HIDE DEF m
<1>2. \A j \in 1 .. Len(T) : j \notin C => U[j] = T[j]
  BY <1>1 DEF m
<1>3. \A c \in C : /\ c \in 1 .. Len(T) /\ U[c].k # "end"
                   /\ \A j \in 1 .. c - 1 : T[j].k = "end" => j \in C
  <2>1. ASSUME NEW j \in 1 .. i - 1, T[j].k = "end" PROVE FALSE
    <3>1. j \in 1 .. m /\ i \in j .. m
      BY <1>1
    <3> QED
      BY <1>1, <2>1, <3>1, WellFormedIs DEF m
  <2> QED
    BY <1>1, <2>1 DEF m
<1>4. ASSUME NEW j \in 1 .. m, U[j].k = "lfn", j \in C \/ j + 1 \in C PROVE Leads(U, j)
  <2>1. j + 1 = i /\ j # i
    BY <1>1, <1>4
  <2>2. U[j] = T[j] /\ Leads(T, j)
    BY <1>1, <1>4, <2>1, WellFormedIs DEF m
  <2> QED
    BY <1>1, <2>1, <2>2 DEF Leads, m
<1>5. i > 1 => i - 1 \in 1 .. m /\ U[i - 1] = T[i - 1]
  BY <1>1
<1>6. ASSUME NEW j \in 1 .. m, j - 1 = i, U[j].k = "sfn"
      PROVE  j # i /\ U[j] = T[j] /\ Stands(U, j) /\ NameAt(U, j) = NameAt(T, j)
  <2>1. j # i /\ U[j] = T[j] /\ Stands(T, j)
    BY <1>1, <1>6, WellFormedIs DEF m
  <2>2. T[j - 1].k # "lfn" /\ U[j - 1].k # "lfn"
    BY <1>1, <1>6
  <2> QED
    BY <2>1, <2>2 DEF Stands, NameAt
<1>7. ASSUME NEW j \in 1 .. m, U[j].k = "sfn", j \in C \/ j - 1 \in C PROVE Stands(U, j)
  <2>1. CASE j = i
    <3>1. Stands(T, i)
      BY <1>1, WellFormedIs DEF m
    <3> QED
      BY <1>1, <1>5, <2>1, <3>1 DEF Stands
  <2>2. CASE j - 1 = i
    BY <1>6, <1>7, <2>2
  <2> QED
    BY <1>7, <2>1, <2>2
<1>8. \A j \in 1 .. Len(T) : /\ U[j].k = "lfn" /\ (j \in C \/ j + 1 \in C) => Leads(U, j)
                             /\ U[j].k = "sfn" /\ (j \in C \/ j - 1 \in C) => Stands(U, j)
  BY <1>4, <1>7 DEF m
<1>9. \A j \in 1 .. Len(T) : (j \in C \/ j - 1 \in C) /\ j \notin {i} =>
        /\ U[j].k = "sfn" <=> T[j].k = "sfn"
        /\ U[j].k = "sfn" => U[j] = T[j] /\ NameAt(U, j) = NameAt(T, j)
  BY <1>1, <1>6 DEF m
<1>10. T[2].k = "dots" => U[2].k = "dots"
  <2>1. 2 \in 1 .. m
    BY <1>1
  <2> QED
    BY <1>1, <2>1
<1>11. NameAt(U, i) = NameAt(T, i)
  BY <1>1, <1>5 DEF NameAt
<1>12. Len(U) = Len(T)
  OBVIOUS
<1> HIDE DEF C
<1>13. Keeping(T, U, {i})
  BY <1>2, <1>3, <1>8, <1>9, <1>10, <1>12, Rewritten
<1> QED
  BY <1>11, <1>13

\* The slots of an object are marked.
LEMMA Removed ==
    ASSUME NEW T, IsTable(T), NEW i \in 1 .. Len(T), T[i].k = "sfn",
           NEW b, b = IF T[i].sfn[2] # 0 THEN i - 1 ELSE i,
           NEW U, Len(U) = Len(T), \A j \in 1 .. Len(T) : U[j] = IF j \in {b, i} THEN [k |-> "del"] ELSE T[j]
    PROVE  Keeping(T, U, {i}) /\ U[i].k = "del"
<1> DEFINE m == Len(T)
           C == {b, i}
<1>1. /\ m \in Nat /\ 2 <= m /\ Len(U) = m /\ WellFormed(T) /\ i \in 1 .. m
      /\ \A j \in 1 .. m : j \in C => U[j].k = "del"
      /\ \A j \in 1 .. m : j \notin C => U[j] = T[j]
  BY DEF IsTable, IsSeq
<1>2. Stands(T, i)
  BY <1>1, WellFormedIs
<1>3. /\ b \in 1 .. m /\ (b = i \/ (b = i - 1 /\ T[b].k = "lfn"))
      /\ ~(b = i /\ i > 1 /\ T[i - 1].k = "lfn")
  <2>1. T[i].sfn[2] # 0 => i > 1 /\ T[i - 1].k = "lfn"
    BY <1>2 DEF Stands
  <2>2. ASSUME i > 1, T[i - 1].k = "lfn" PROVE T[i].sfn[2] # 0
    <3>1. i - 1 \in 1 .. m /\ (i - 1) + 1 = i
      BY <1>1, <2>2
    <3>2. Leads(T, i - 1)
      BY <1>1, <2>2, <3>1, WellFormedIs
    <3> QED
      BY <3>1, <3>2 DEF Leads
  <2> QED
    BY <1>1, <2>1, <2>2
<1> HIDE DEF m
<1>4. \A j \in 1 .. Len(T) : j \notin C => U[j] = T[j]
  BY <1>1 DEF m
<1>5. \A c \in C : /\ c \in 1 .. Len(T) /\ U[c].k # "end"
                   /\ \A j \in 1 .. c - 1 : T[j].k = "end" => j \in C
  <2>1. ASSUME NEW j \in 1 .. i - 1, T[j].k = "end" PROVE FALSE
    <3>1. j \in 1 .. m /\ i \in j .. m
      BY <1>1
    <3> QED
      BY <1>1, <2>1, <3>1, WellFormedIs DEF m
  <2>2. \A c \in C : \A j \in 1 .. c - 1 : j \in 1 .. i - 1
    BY <1>1, <1>3
  <2> QED
    BY <1>1, <1>3, <2>1, <2>2 DEF m
<1>6. ASSUME NEW j \in 1 .. m, U[j].k = "lfn", j \in C \/ j + 1 \in C PROVE FALSE
  <2>1. j \notin C /\ U[j] = T[j] /\ j + 1 \in C
    BY <1>1, <1>6
  <2>2. Leads(T, j)
    BY <1>1, <1>6, <2>1, WellFormedIs DEF m
  <2>3. T[j + 1].k = "sfn"
    BY <2>2 DEF Leads
  <2>4. j + 1 = i
    BY <1>1, <1>3, <2>1, <2>3
  <2>5. b = i /\ i > 1 /\ j = i - 1
    BY <1>1, <1>3, <2>1, <2>4
  <2> QED
    BY <1>3, <1>6, <2>1, <2>5
<1>7. ASSUME NEW j \in 1 .. m, j \notin C, j - 1 \in C, T[j].k = "sfn"
      PROVE  U[j] = T[j] /\ Stands(U, j) /\ NameAt(U, j) = NameAt(T, j)
  <2>1. j - 1 = i
    BY <1>1, <1>3, <1>7
  <2>2. U[j] = T[j] /\ Stands(T, j)
    BY <1>1, <1>7, WellFormedIs DEF m
  <2>3. T[j - 1].k # "lfn" /\ U[j - 1].k # "lfn"
    BY <1>1, <2>1
  <2> QED
    BY <2>2, <2>3 DEF Stands, NameAt
<1>8. \A j \in 1 .. Len(T) : /\ U[j].k = "lfn" /\ (j \in C \/ j + 1 \in C) => Leads(U, j)
                             /\ U[j].k = "sfn" /\ (j \in C \/ j - 1 \in C) => Stands(U, j)
  <2> SUFFICES ASSUME NEW j \in 1 .. m
               PROVE  /\ U[j].k = "lfn" /\ (j \in C \/ j + 1 \in C) => Leads(U, j)
                      /\ U[j].k = "sfn" /\ (j \in C \/ j - 1 \in C) => Stands(U, j)
    BY DEF m
  <2>1. U[j].k = "sfn" => j \notin C /\ U[j] = T[j]
    BY <1>1
  <2> QED
    BY <1>6, <1>7, <2>1
<1>9. \A j \in 1 .. Len(T) : (j \in C \/ j - 1 \in C) /\ j \notin {i} =>
        /\ U[j].k = "sfn" <=> T[j].k = "sfn"
        /\ U[j].k = "sfn" => U[j] = T[j] /\ NameAt(U, j) = NameAt(T, j)
  <2> SUFFICES ASSUME NEW j \in 1 .. m, j \in C \/ j - 1 \in C, j # i
               PROVE  /\ U[j].k = "sfn" <=> T[j].k = "sfn"
                      /\ U[j].k = "sfn" => U[j] = T[j] /\ NameAt(U, j) = NameAt(T, j)
    BY DEF m
  <2>1. CASE j \in C
    <3>1. U[j].k = "del" /\ T[j].k = "lfn"
      BY <1>1, <1>3, <2>1
    <3> QED
      BY <3>1
  <2>2. CASE j \notin C
    <3>1. U[j] = T[j]
      BY <1>1, <2>2
    <3> QED
      BY <1>7, <2>2, <3>1
  <2> QED
    BY <2>1, <2>2
<1>10. T[2].k = "dots" => U[2].k = "dots"
  <2>1. 2 \in 1 .. m
    BY <1>1
  <2>2. \A c \in C : T[c].k \in {"lfn", "sfn"}
    BY <1>3
  <2> QED
    BY <1>1, <2>1, <2>2
<1>11. U[i].k = "del"
  BY <1>1
<1>12. Len(U) = Len(T)
  OBVIOUS
<1> HIDE DEF C
<1>13. Keeping(T, U, {i})
  BY <1>4, <1>5, <1>8, <1>9, <1>10, <1>12, Rewritten
<1> QED
  BY <1>11, <1>13

\* The ".." of a directory is written again.
LEMMA DotsAgain ==
    ASSUME NEW T, IsTable(T), T[2].k = "dots", NEW x, x.k = "dots",
           NEW U, Len(U) = Len(T), \A j \in 1 .. Len(T) : U[j] = IF j = 2 THEN x ELSE T[j]
    PROVE  Keeping(T, U, {})
<1> DEFINE m == Len(T)
           C == {2}
<1>1. /\ m \in Nat /\ 2 <= m /\ Len(U) = m /\ WellFormed(T) /\ 2 \in 1 .. m
      /\ U[2] = x /\ \A j \in 1 .. m : j # 2 => U[j] = T[j]
  BY DEF IsTable, IsSeq
<1> HIDE DEF m
<1>2. \A j \in 1 .. Len(T) : j \notin C => U[j] = T[j]
  BY <1>1 DEF m
<1>3. \A c \in C : /\ c \in 1 .. Len(T) /\ U[c].k # "end"
                   /\ \A j \in 1 .. c - 1 : T[j].k = "end" => j \in C
  <2>1. ASSUME NEW j \in 1 .. 2 - 1, T[j].k = "end" PROVE FALSE
    <3>1. j \in 1 .. m /\ 2 \in j .. m
      BY <1>1
    <3> QED
      BY <1>1, <2>1, <3>1, WellFormedIs DEF m
  <2> QED
    BY <1>1, <2>1 DEF m
<1>4. ASSUME NEW j \in 1 .. m, U[j].k = "lfn", j \in C \/ j + 1 \in C PROVE FALSE
  <2>1. j + 1 = 2 /\ j # 2
    BY <1>1, <1>4
  <2>2. Leads(T, j)
    BY <1>1, <1>4, <2>1, WellFormedIs DEF m
  <2> QED
    BY <2>1, <2>2 DEF Leads
<1>5. ASSUME NEW j \in 1 .. m, j \in C \/ j - 1 \in C, U[j].k = "sfn"
      PROVE  U[j] = T[j] /\ Stands(U, j) /\ NameAt(U, j) = NameAt(T, j)
  <2>1. j # 2 /\ j - 1 = 2
    BY <1>1, <1>5
  <2>2. U[j] = T[j] /\ Stands(T, j)
    BY <1>1, <1>5, <2>1, WellFormedIs DEF m
  <2>3. T[j - 1].k # "lfn" /\ U[j - 1].k # "lfn"
    BY <1>1, <2>1
  <2> QED
    BY <2>2, <2>3 DEF Stands, NameAt
<1>6. \A j \in 1 .. Len(T) : /\ U[j].k = "lfn" /\ (j \in C \/ j + 1 \in C) => Leads(U, j)
                             /\ U[j].k = "sfn" /\ (j \in C \/ j - 1 \in C) => Stands(U, j)
  BY <1>4, <1>5 DEF m
<1>7. \A j \in 1 .. Len(T) : (j \in C \/ j - 1 \in C) /\ j \notin {} =>
        /\ U[j].k = "sfn" <=> T[j].k = "sfn"
        /\ U[j].k = "sfn" => U[j] = T[j] /\ NameAt(U, j) = NameAt(T, j)
  <2> SUFFICES ASSUME NEW j \in 1 .. m, j \in C \/ j - 1 \in C
               PROVE  /\ U[j].k = "sfn" <=> T[j].k = "sfn"
                      /\ U[j].k = "sfn" => U[j] = T[j] /\ NameAt(U, j) = NameAt(T, j)
    BY DEF m
  <2>1. CASE j = 2
    BY <1>1, <2>1
  <2>2. CASE j # 2
    BY <1>1, <1>5, <2>2
  <2> QED
    BY <2>1, <2>2
<1>8. T[2].k = "dots" => U[2].k = "dots"
  BY <1>1
<1>9. Len(U) = Len(T)
  OBVIOUS
<1> HIDE DEF C
<1> QED
  BY <1>2, <1>3, <1>6, <1>7, <1>8, <1>9, Rewritten

\* The directory at h has the chain s and the table T; the others are as they were.
Laid(vol, ch, tb, h, s, T) == Stored(vol, [ch EXCEPT ![h] = s], [tb EXCEPT ![h] = T])

\* What Laid says of a position of the table at h.
LEMMA LaidIs ==
    ASSUME NEW vol, NEW ch, NEW tb, NEW h \in DOMAIN tb, NEW s, NEW T, Laid(vol, ch, tb, h, s, T)
    PROVE  /\ h \in DOMAIN ch /\ DOMAIN tb \subseteq DOMAIN ch
           /\ s \in Seq(Cluster) /\ Len(s) \in Nat \ {0}
           /\ Len(T) = Len(s) * SPS /\ Len(T) \in Nat /\ 2 <= Len(T)
           /\ IsSeq(T)
           /\ \A i \in 1 .. Len(T) : /\ i \in Nat \ {0} /\ At(i) \in 1 .. Len(s) /\ s[At(i)] \in Cluster
                                     /\ T[i] = vol[Data(s[At(i)])].tab[In(i)]
<1> DEFINE c == [ch EXCEPT ![h] = s]
           t == [tb EXCEPT ![h] = T]
<1>1. Stored(vol, c, t) /\ h \in DOMAIN t /\ t[h] = T
  BY DEF Laid
<1>2. DOMAIN tb \subseteq DOMAIN ch
  BY <1>1 DEF Stored
<1>3. c[h] = s
  BY <1>2
<1>4. T = Slots(vol, s)
  BY <1>1, <1>3 DEF Stored
<1> HIDE DEF c, t
<1>5. /\ s \in Seq(Cluster) /\ Len(s) \in Nat \ {0}
      /\ Len(T) = Len(s) * SPS /\ Len(T) \in Nat /\ SPS <= Len(T)
      /\ \A i \in 1 .. Len(T) : /\ i \in Nat \ {0} /\ At(i) \in 1 .. Len(s) /\ s[At(i)] \in Cluster
                                /\ T[i] = vol[Data(s[At(i)])].tab[In(i)]
  BY <1>1, <1>3, TableIs
<1>6. 2 <= Len(T)
  BY <1>5, FatAssumption
<1>7. T = [j \in 1 .. Len(s) * SPS |-> vol[Data(s[At(j)])].tab[In(j)]]
  BY <1>4 DEF Slots
<1>8. T = [j \in 1 .. Len(s) * SPS |-> T[j]]
  BY <1>7
<1>9. IsSeq(T)
  BY <1>5, <1>8 DEF IsSeq
<1> QED
  BY <1>2, <1>5, <1>6, <1>9

\* A stored volume is laid out as it is.
LEMMA LaidOut ==
    ASSUME NEW vol, NEW ch, NEW tb, Stored(vol, ch, tb), NEW h \in DOMAIN tb
    PROVE  Laid(vol, ch, tb, h, ch[h], tb[h])
<1> DEFINE c == [ch EXCEPT ![h] = ch[h]]
           t == [tb EXCEPT ![h] = tb[h]]
<1>1. h \in DOMAIN ch /\ Chains(vol, ch)
  BY DEF Stored
<1>2. DOMAIN c = DOMAIN ch /\ \A g \in DOMAIN ch : c[g] = ch[g]
  BY <1>1
<1>3. DOMAIN t = DOMAIN tb /\ \A g \in DOMAIN tb : t[g] = tb[g]
  OBVIOUS
<1> HIDE DEF c, t
<1>4. Chains(vol, c)
  BY <1>1, <1>2 DEF Chains
<1>5. Stored(vol, c, t)
  BY <1>2, <1>3, <1>4 DEF Stored
<1> QED
  BY <1>5 DEF Laid, c, t

\* A slot of that directory is written.
LEMMA PutEntry ==
    ASSUME NEW d, NEW gone, NEW S, Window(d, gone, S), NEW ch, NEW tb, NEW h \in DOMAIN tb,
           NEW s, NEW T, Laid(S.vol, ch, tb, h, s, T), NEW i \in 1 .. Len(T),
           NEW r, r[At(i)] = s[At(i)], NEW x
    PROVE  Laid(PutSlot(S, r, i, x).vol, ch, tb, h, s, Put(T, i, x))
<1> DEFINE V == Put(T, i, x)
           R == PutSlot(S, r, i, x)
           c == [ch EXCEPT ![h] = s]
           t == [tb EXCEPT ![h] = T]
           u == [t EXCEPT ![h] = [@ EXCEPT ![i] = x]]
<1>1. h \in DOMAIN ch /\ IsSeq(T)
  BY LaidIs
<1>2. h \in DOMAIN t /\ t[h] = T /\ c[h] = s
  BY <1>1
<1>3. Stored(S.vol, c, t)
  BY DEF Laid
<1>4. [tb EXCEPT ![h] = V] = u
  BY DEF Put
<1>5. u = [t EXCEPT ![h] = [@ EXCEPT ![i] = x]]
  OBVIOUS
<1> HIDE DEF c, t, u, V
<1>6. i \in 1 .. Len(t[h]) /\ r[At(i)] = c[h][At(i)]
  BY <1>2
<1>7. Window(d, gone, R) /\ Stored(R.vol, c, u)
  <2>1. R = PutSlot(S, r, i, x)
    OBVIOUS
  <2> HIDE DEF R
  <2> QED
    BY <1>2, <1>3, <1>5, <1>6, <2>1, PutInTable
<1>8. Laid(R.vol, ch, tb, h, s, V)
  BY <1>4, <1>7 DEF Laid, c
<1> QED
  BY <1>8 DEF V

\* Of n + 1 numbers one is not taken by n slots.
LEMMA NumNameIs ==
    ASSUME NEW T, IsTable(T), NEW n
    PROVE  NumName(T, n)[2] \in Nat \ {0}
<1> DEFINE m == Len(T)
           Took(i, k) == T[i].k = "sfn" /\ T[i].sfn = <<Alias[n], k>>
           Ok(k) == /\ ~\E i \in DOMAIN T : Took(i, k)
                    /\ \A j \in 1 .. k - 1 : \E i \in DOMAIN T : Took(i, j)
           Q == {k \in 1 .. m + 1 : ~\E i \in 1 .. m : Took(i, k)}
<1>1. m \in Nat /\ DOMAIN T = 1 .. m
  BY DEF IsTable, IsSeq
<1>2. NumName(T, n) = <<Alias[n], CHOOSE k \in 1 .. m + 1 : Ok(k)>>
  BY Zenon DEF NumName
<1>3. Q # {}
  <2> SUFFICES ASSUME \A k \in 1 .. m + 1 : \E i \in 1 .. m : Took(i, k) PROVE FALSE
    OBVIOUS
  <2> DEFINE f == [k \in 1 .. m + 1 |-> CHOOSE i \in 1 .. m : Took(i, k)]
  <2> HIDE DEF Took, m
  <2>1. \A k \in 1 .. m + 1 : f[k] \in 1 .. m /\ Took(f[k], k)
    OBVIOUS
  <2>2. f \in [1 .. m + 1 -> 1 .. m]
    BY <2>1
  <2> HIDE DEF f
  <2>3. /\ IsFiniteSet(1 .. m + 1) /\ IsFiniteSet(1 .. m)
        /\ Cardinality(1 .. m + 1) = IF 1 > m + 1 THEN 0 ELSE m + 1 - 1 + 1
        /\ Cardinality(1 .. m) = IF 1 > m THEN 0 ELSE m - 1 + 1
    <3>1. m + 1 \in Int /\ m \in Int
      BY <1>1
    <3> QED
      BY <3>1, FS_Interval
  <2>4. Cardinality(1 .. m) < Cardinality(1 .. m + 1)
    BY <1>1, <2>3
  <2>5. PICK x \in 1 .. m + 1, y \in 1 .. m + 1 : x # y /\ f[x] = f[y]
    BY <2>2, <2>3, <2>4, FS_PigeonHole
  <2>6. Took(f[x], x) /\ Took(f[x], y)
    BY <2>1, <2>5
  <2>7. <<Alias[n], x>> = <<Alias[n], y>>
    BY <2>6 DEF Took
  <2> QED
    BY <2>5, <2>7
<1> HIDE DEF Took
<1>4. PICK k \in Q : \A j \in Q : k <= j
  <2>1. Q \in SUBSET Nat
    BY <1>1
  <2> HIDE DEF Q
  <2> QED
    BY <1>3, <2>1, LeastNumber
<1>5. k \in 1 .. m + 1 /\ Ok(k)
  <2>1. k \in 1 .. m + 1 /\ ~\E i \in 1 .. m : Took(i, k)
    OBVIOUS
  <2>2. \A j \in 1 .. k - 1 : j \in 1 .. m + 1 /\ ~(k <= j)
    BY <1>1, <2>1
  <2>3. \A j \in 1 .. k - 1 : j \notin Q
    BY <1>4, <2>2
  <2>4. \A j \in 1 .. k - 1 : \E i \in 1 .. m : Took(i, j)
    BY <2>2, <2>3
  <2> QED
    BY <1>1, <2>1, <2>4
<1> HIDE DEF Ok, m, Q
<1>6. (CHOOSE l \in 1 .. m + 1 : Ok(l)) \in 1 .. m + 1
  BY <1>5
<1> DEFINE l == CHOOSE j \in 1 .. m + 1 : Ok(j)
<1>7. NumName(T, n) = <<Alias[n], l>>
  BY <1>2
<1> HIDE DEF l
<1>8. NumName(T, n)[2] = l
  BY <1>7
<1>9. l \in 1 .. m + 1
  BY <1>6 DEF l
<1> QED
  BY <1>1, <1>8, <1>9

\* The table of a directory is what Slots finds on the chain Chain follows.
LEMMA TableOf ==
    ASSUME NEW vol, NEW ch, NEW tb, Stored(vol, ch, tb), NEW h \in DOMAIN tb
    PROVE  /\ Chain(vol, h) = ch[h] /\ Slots(vol, ch[h]) = tb[h]
           /\ WellFormed(tb[h]) => IsTable(tb[h])
<1>1. Linked(vol, ch[h]) /\ ch[h][1] = h
  BY DEF Stored, Chains
<1>2. Chain(vol, ch[h][1]) = ch[h]
  BY <1>1, ChainIs
<1>3. Slots(vol, ch[h]) = tb[h]
  BY DEF Stored
<1>4. Laid(vol, ch, tb, h, ch[h], tb[h])
  BY LaidOut
<1>5. IsSeq(tb[h]) /\ 2 <= Len(tb[h])
  BY <1>4, LaidIs
<1> QED
  BY <1>1, <1>2, <1>3, <1>5 DEF IsTable

\* What dir_find compares is the name of the object.
LEMMA NamedIs ==
    ASSUME NEW T, IsTable(T), NEW i \in 1 .. Len(T), NEW n
    PROVE  /\ Named(T, i, n) <=> T[i].k = "sfn" /\ NameAt(T, i) = n
           /\ T[i].k = "sfn" => (T[i].sfn[2] # 0 <=> i > 1 /\ T[i - 1].k = "lfn")
<1>1. CASE T[i].k # "sfn"
  <2>1. ~Named(T, i, n)
    BY <1>1 DEF Named
  <2> QED
    BY <1>1, <2>1
<1>2. CASE T[i].k = "sfn"
  <2>1. Stands(T, i) /\ i \in Nat
    BY <1>2, WellFormedIs DEF IsTable
  <2>2. i > 1 /\ T[i - 1].k = "lfn" =>
          T[i - 1].sfn = T[i].sfn /\ T[i - 1].name \in DOMAIN Alias /\ T[i - 1].sfn[2] # 0
    <3> SUFFICES ASSUME i > 1, T[i - 1].k = "lfn"
                 PROVE  T[i - 1].sfn = T[i].sfn /\ T[i - 1].name \in DOMAIN Alias /\ T[i - 1].sfn[2] # 0
      OBVIOUS
    <3>1. i - 1 \in 1 .. Len(T) /\ (i - 1) + 1 = i
      BY <2>1 DEF IsTable, IsSeq
    <3>2. Leads(T, i - 1)
      BY <3>1, WellFormedIs DEF IsTable
    <3> QED
      BY <3>1, <3>2 DEF Leads
  <2>3. CASE T[i].sfn[2] # 0
    <3>1. i > 1 /\ T[i - 1].k = "lfn" /\ T[i - 1].sfn = T[i].sfn /\ T[i - 1].name \in DOMAIN Alias
      BY <2>1, <2>2, <2>3 DEF Stands
    <3>2. NameAt(T, i) = T[i - 1].name
      BY <3>1 DEF NameAt
    <3>3. n \notin DOMAIN Alias => T[i].sfn # <<n, 0>>
      BY <2>3
    <3> QED
      BY <1>2, <2>3, <3>1, <3>2, <3>3 DEF Named
  <2>4. CASE T[i].sfn[2] = 0
    <3>1. T[i].sfn = <<T[i].sfn[1], 0>> /\ T[i].sfn[1] \notin DOMAIN Alias
      BY <2>1, <2>4 DEF Stands
    <3>2. ~(i > 1 /\ T[i - 1].k = "lfn")
      BY <2>2, <2>4
    <3>3. NameAt(T, i) = T[i].sfn[1]
      BY <3>2 DEF NameAt
    <3>4. Named(T, i, n) <=> n \notin DOMAIN Alias /\ T[i].sfn = <<n, 0>>
      BY <1>2, <3>2 DEF Named
    <3>5. T[i].sfn = <<n, 0>> => T[i].sfn[1] = n
      <4>1. <<n, 0>>[1] = n
        OBVIOUS
      <4> QED
        BY <4>1
    <3> QED
      BY <1>2, <2>4, <3>1, <3>2, <3>3, <3>4, <3>5
  <2> QED
    BY <2>3, <2>4
<1> QED
  BY <1>1, <1>2

\* No object is behind the end of the table.
LEMMA EndIs ==
    ASSUME NEW T, IsTable(T)
    PROVE  /\ End(T) \in 1 .. Len(T) + 1
           /\ \A i \in 1 .. Len(T) : T[i].k = "sfn" => i \in 1 .. End(T) - 1
           /\ \A i \in 1 .. End(T) - 1 : i \in 1 .. Len(T)
<1> DEFINE m == Len(T)
           Q == {i \in 1 .. m : T[i].k = "end"} \cup {m + 1}
<1>1. m \in Nat /\ DOMAIN T = 1 .. m
  BY DEF IsTable, IsSeq
<1>2. End(T) = CHOOSE x \in Q : \A y \in Q : x <= y
  BY <1>1 DEF End, Min
<1>3. \E x \in Q : \A y \in Q : x <= y
  <2>1. Q \in SUBSET Nat /\ Q # {}
    BY <1>1
  <2> HIDE DEF Q
  <2> QED
    BY <2>1, LeastNumber
<1>4. End(T) \in Q
  <2> HIDE DEF Q
  <2> QED
    BY <1>2, <1>3
<1>5. End(T) \in 1 .. m + 1
  BY <1>1, <1>4
<1>6. ASSUME NEW i \in 1 .. m, T[i].k = "sfn" PROVE i < End(T)
  <2>1. CASE End(T) = m + 1
    BY <1>1, <2>1
  <2>2. CASE End(T) # m + 1
    <3>1. End(T) \in 1 .. m /\ T[End(T)].k = "end"
      BY <1>4, <2>2
    <3>2. \A j \in End(T) .. m : T[j].k = "end"
      BY <3>1, WellFormedIs DEF IsTable
    <3>3. i \notin End(T) .. m
      BY <1>6, <3>2
    <3> QED
      BY <1>1, <3>1, <3>3
  <2> QED
    BY <2>1, <2>2
<1>7. \A i \in 1 .. m : T[i].k = "sfn" => i \in 1 .. End(T) - 1
  BY <1>1, <1>5, <1>6
<1>8. \A i \in 1 .. End(T) - 1 : i \in 1 .. m
  BY <1>1, <1>5
<1> QED
  BY <1>5, <1>7, <1>8

\* The object of name n is at position pos of the table T and begins at blk.
Hit(T, pos, blk, n) ==
    /\ pos \in 1 .. Len(T) /\ T[pos].k = "sfn" /\ NameAt(T, pos) = n
    /\ blk = IF T[pos].sfn[2] # 0 THEN pos - 1 ELSE pos

\* dir_find finds the object of the name n, or there is none.
LEMMA DirFindIs ==
    ASSUME NEW d, NEW gone, NEW S, Window(d, gone, S), NEW ch, NEW tb, Stored(S.vol, ch, tb),
           NEW h \in DOMAIN tb, WellFormed(tb[h]), NEW dc, h = (IF dc = 0 THEN Root ELSE dc), NEW n,
           NEW D, D = dir_find(S, dc, n)
    PROVE  /\ Window(d, gone, D.s) /\ D.s.vol = S.vol /\ D.dc = dc /\ D.chain = ch[h]
           /\ IF D.pos = 0 THEN \A i \in 1 .. Len(tb[h]) : tb[h][i].k = "sfn" => NameAt(tb[h], i) # n
              ELSE Hit(tb[h], D.pos, D.blk, n)
<1> DEFINE T == tb[h]
           hits == {i \in 1 .. End(T) - 1 : Named(T, i, n)}
           pos == IF hits = {} THEN 0 ELSE Min(hits)
<1>1. /\ Chain(S.vol, IF dc = 0 THEN Root ELSE dc) = ch[h] /\ Slots(S.vol, ch[h]) = T
      /\ IsTable(T)
  BY TableOf
<1>2. dir_find(S, dc, n) =
          [s |-> Scanned(S, ch[h], IF pos = 0 THEN End(T) ELSE pos),
           dc |-> dc, chain |-> ch[h], pos |-> pos,
           blk |-> IF pos > 1 /\ T[pos - 1].k = "lfn" THEN pos - 1 ELSE pos]
  BY <1>1 DEF dir_find
<1> HIDE DEF pos, T
<1>3. /\ D.s = Scanned(S, ch[h], IF pos = 0 THEN End(T) ELSE pos)
      /\ D.dc = dc /\ D.chain = ch[h] /\ D.pos = pos
      /\ D.blk = IF pos > 1 /\ T[pos - 1].k = "lfn" THEN pos - 1 ELSE pos
  BY <1>2
<1>4. Window(d, gone, D.s) /\ D.s.vol = S.vol
  BY <1>3, ScannedKeeps
<1>5. End(T) \in Nat /\ \A i \in 1 .. End(T) - 1 : i \in 1 .. Len(T) /\ i \in Nat
  <2>1. Len(T) \in Nat
    BY <1>1 DEF IsTable, IsSeq
  <2> QED
    BY <1>1, <2>1, EndIs
<1>6. CASE hits = {}
  <2>1. pos = 0
    BY <1>6 DEF pos
  <2>2. ASSUME NEW i \in 1 .. Len(T), T[i].k = "sfn" PROVE NameAt(T, i) # n
    <3>1. i \in 1 .. End(T) - 1
      BY <1>1, <2>2, EndIs
    <3>2. ~Named(T, i, n)
      BY <1>6, <3>1
    <3> QED
      BY <1>1, <2>2, <3>2, NamedIs
  <2> QED
    BY <1>3, <1>4, <2>1, <2>2 DEF T
<1>7. CASE hits # {}
  <2>1. pos = CHOOSE x \in hits : \A y \in hits : x <= y
    BY <1>7 DEF pos, Min
  <2>2. hits \in SUBSET Nat
    BY <1>5
  <2>3. pos \in hits
    <3> HIDE DEF hits
    <3> QED
      BY <1>7, <2>1, <2>2, LeastNumber
  <2>4. pos \in 1 .. Len(T) /\ Named(T, pos, n) /\ pos \in Nat /\ pos # 0
    BY <1>5, <2>3
  <2>5. Hit(T, pos, D.blk, n)
    BY <1>1, <1>3, <2>4, NamedIs DEF Hit
  <2> QED
    BY <1>3, <1>4, <2>4, <2>5 DEF T
<1> QED
  BY <1>6, <1>7

\* dir_remove marks the slots of an object.
Unlists(d, gone, R, ch, tb, h, s, T, U, i) ==
    /\ Window(d, gone, R) /\ Laid(R.vol, ch, tb, h, s, U) /\ Len(U) = Len(T)
    /\ Keeping(T, U, {i}) /\ U[i].k = "del"

\* dir_remove takes one object out of a table, with its long name, and no other.
LEMMA RemoveIs ==
    ASSUME NEW d, NEW gone, NEW S, Window(d, gone, S), NEW ch, NEW tb, NEW h \in DOMAIN tb,
           NEW s, NEW T, Laid(S.vol, ch, tb, h, s, T), WellFormed(T),
           NEW D, NEW n, Hit(T, D.pos, D.blk, n),
           \A j \in 1 .. Len(D.chain) : D.chain[j] = s[j], At(D.pos) \in 1 .. Len(D.chain),
           At(D.blk) \in 1 .. Len(D.chain)
    PROVE  \E U : Unlists(d, gone, dir_remove(S, D), ch, tb, h, s, T, U, D.pos)
<1> DEFINE R == dir_remove(S, D)
<1>0. R = dir_remove(S, D)
  OBVIOUS
<1> HIDE DEF R
<1> SUFFICES \E U : /\ Window(d, gone, R) /\ Laid(R.vol, ch, tb, h, s, U) /\ Len(U) = Len(T)
                    /\ Keeping(T, U, {D.pos}) /\ U[D.pos].k = "del"
  BY DEF Unlists, R
<1> DEFINE del == [k |-> "del"]
           Mark(V, i) == PutSlot(V, D.chain, i, del)
           sdi == dir_sdi(S, D.chain, D.blk)
           first == Mark(sdi, D.blk)
           next == IF In(D.pos) = 1 THEN get_fat(first, D.chain[At(D.blk)]) ELSE first
<1>1. dir_remove(S, D) = IF D.blk = D.pos THEN Mark(S, D.pos) ELSE Mark(next, D.pos)
  BY DEF dir_remove
<1>2. IsTable(T)
  BY LaidIs DEF IsTable
<1>3. /\ D.pos \in 1 .. Len(T) /\ T[D.pos].k = "sfn"
      /\ D.blk = IF T[D.pos].sfn[2] # 0 THEN D.pos - 1 ELSE D.pos
  BY DEF Hit
<1>4. D.blk \in 1 .. Len(T)
  <2>1. T[D.pos].sfn[2] # 0 => D.pos > 1
    BY <1>2, <1>3, NamedIs
  <2> QED
    BY <1>2, <1>3, <2>1 DEF IsTable, IsSeq
<1>5. Window(d, gone, sdi) /\ sdi.vol = S.vol
  BY WalkedKeeps DEF dir_sdi
<1> DEFINE V == Put(T, D.blk, del)
           W == Put(V, D.pos, del)
<1>6. /\ Window(d, gone, first) /\ Laid(first.vol, ch, tb, h, s, V)
      /\ Len(V) = Len(T) /\ \A j \in 1 .. Len(T) : V[j] = IF j = D.blk THEN del ELSE T[j]
  <2> HIDE DEF sdi, del
  <2>1. Laid(sdi.vol, ch, tb, h, s, T)
    BY <1>5
  <2>2. D.chain[At(D.blk)] = s[At(D.blk)]
    OBVIOUS
  <2>3. Window(d, gone, first)
    BY <1>5, PutSlotKeeps
  <2>4. Laid(first.vol, ch, tb, h, s, V)
    BY <1>4, <1>5, <2>1, <2>2, PutEntry
  <2>5. IsSeq(T)
    BY <1>2 DEF IsTable
  <2>6. Len(V) = Len(T) /\ \A j \in 1 .. Len(T) : V[j] = IF j = D.blk THEN del ELSE T[j]
    BY <1>4, <2>5, PutIs
  <2> QED
    BY <2>3, <2>4, <2>6
<1>7. D.chain[At(D.pos)] = s[At(D.pos)]
  OBVIOUS
<1> HIDE DEF del, sdi, V, W
<1>8. CASE D.blk = D.pos
  <2>1. first = PutSlot(sdi, D.chain, D.pos, del) /\ R = PutSlot(S, D.chain, D.pos, del)
    BY <1>0, <1>1, <1>8
  <2> HIDE DEF first
  <2>2. /\ Window(d, gone, R) /\ Laid(R.vol, ch, tb, h, s, V)
        /\ Len(V) = Len(T) /\ \A j \in 1 .. Len(T) : V[j] = IF j = D.pos THEN del ELSE T[j]
    <3>1. V = Put(T, D.pos, del)
      BY <1>8 DEF V
    <3>2. Window(d, gone, R)
      BY <2>1, PutSlotKeeps
    <3>3. D.pos \in 1 .. Len(T) /\ Laid(S.vol, ch, tb, h, s, T)
      BY <1>3
    <3>4. Laid(PutSlot(S, D.chain, D.pos, del).vol, ch, tb, h, s, Put(T, D.pos, del))
      BY <1>7, <3>3, PutEntry
    <3> QED
      BY <1>6, <1>8, <2>1, <3>1, <3>2, <3>4
  <2>3. \A j \in 1 .. Len(T) : V[j] = IF j \in {D.blk, D.pos} THEN [k |-> "del"] ELSE T[j]
    BY <1>8, <2>2 DEF del
  <2>4. Keeping(T, V, {D.pos}) /\ V[D.pos].k = "del"
    BY <1>2, <1>3, <2>2, <2>3, Removed
  <2> QED
    BY <2>2, <2>4
<1>9. CASE D.blk # D.pos
  <2>1. R = PutSlot(next, D.chain, D.pos, del)
    BY <1>0, <1>1, <1>9
  <2> HIDE DEF first
  <2>2. Window(d, gone, next) /\ next.vol = first.vol
    BY <1>6, GetFat
  <2> HIDE DEF next
  <2>3. Laid(next.vol, ch, tb, h, s, V) /\ D.pos \in 1 .. Len(V)
    BY <1>3, <1>6, <2>2
  <2>4. W = Put(V, D.pos, del)
    BY DEF W
  <2>5. /\ Window(d, gone, R) /\ Laid(R.vol, ch, tb, h, s, W)
        /\ Len(W) = Len(V) /\ \A j \in 1 .. Len(V) : W[j] = IF j = D.pos THEN del ELSE V[j]
    <3>1. Window(d, gone, R)
      BY <2>1, <2>2, PutSlotKeeps
    <3>2. Laid(R.vol, ch, tb, h, s, W)
      BY <1>7, <2>1, <2>2, <2>3, <2>4, PutEntry
    <3>3. IsSeq(V)
      BY LaidIs, <2>3
    <3> QED
      BY <2>3, <2>4, <3>1, <3>2, <3>3, PutIs
  <2>6. Len(W) = Len(T) /\ \A j \in 1 .. Len(T) : W[j] = IF j \in {D.blk, D.pos} THEN [k |-> "del"] ELSE T[j]
    BY <1>6, <2>5 DEF del
  <2>7. Keeping(T, W, {D.pos})
    BY <1>2, <1>3, <2>6, Removed
  <2>8. W[D.pos].k = "del"
    BY <1>3, <2>6
  <2> QED
    BY <2>5, <2>6, <2>7, <2>8
<1> QED
  BY <1>8, <1>9

\* An object of name n has been entered without data at position pos of the table U that
\* was T; at 0 it has not, for want of a cluster.
Entered(T, U, pos, n) ==
    IF pos = 0 THEN Keeping(T, U, {})
    ELSE /\ pos \in 1 .. Len(U) /\ Keeping(T, U, {pos}) /\ ~(pos <= Len(T) /\ T[pos].k = "sfn")
         /\ U[pos] = Blank(U[pos].sfn) /\ NameAt(U, pos) = n

Registers(d, gone, D, ch, tb, h, dc, n) ==
    /\ D.dc = dc /\ Window(d, gone, D.s)
    /\ Len(D.chain) \in Nat /\ Len(ch[h]) <= Len(D.chain)
    /\ \A j \in 1 .. Len(ch[h]) : D.chain[j] = ch[h][j]
    /\ \E U : Laid(D.s.vol, ch, tb, h, D.chain, U) /\ Entered(tb[h], U, D.pos, n)

\* dir_register enters one object under a name no other one has in this table, or leaves the objects
\* as they are.
LEMMA RegisterIs ==
    ASSUME NEW d, NEW gone, NEW S, Window(d, gone, S), NEW ch, NEW tb, Stored(S.vol, ch, tb),
           NEW h \in DOMAIN tb, WellFormed(tb[h]), NEW dc, h = (IF dc = 0 THEN Root ELSE dc), NEW n
    PROVE  Registers(d, gone, dir_register(S, dc, n), ch, tb, h, dc, n)
<1> DEFINE D == dir_register(S, dc, n)
<1>0. D = dir_register(S, dc, n)
  OBVIOUS
<1> HIDE DEF D
<1> SUFFICES /\ D.dc = dc /\ Window(d, gone, D.s)
             /\ Len(D.chain) \in Nat /\ Len(ch[h]) <= Len(D.chain)
             /\ \A j \in 1 .. Len(ch[h]) : D.chain[j] = ch[h][j]
             /\ \E U : Laid(D.s.vol, ch, tb, h, D.chain, U) /\ Entered(tb[h], U, D.pos, n)
  BY <1>0 DEF Registers
<1> DEFINE T == tb[h]
           long == n \in DOMAIN Alias
           R == IF long THEN Scanned(S, ch[h], End(T)) ELSE S
           few == IF long THEN 2 ELSE 1
           A == dir_alloc(R, ch[h], few)
           sfn == IF long THEN NumName(T, n) ELSE <<n, 0>>
           first == A.pos - 1
           lfn == [k |-> "lfn", name |-> n, sfn |-> sfn]
           sdi == dir_sdi(A.s, A.chain, first)
           L == PutSlot(sdi, A.chain, first, lfn)
           next == IF In(A.pos) = 1 THEN get_fat(L, A.chain[At(first)]) ELSE L
           P == PutSlot(IF long THEN next ELSE A.s, A.chain, A.pos, Blank(sfn))
<1>1. /\ Chain(S.vol, IF dc = 0 THEN Root ELSE dc) = ch[h] /\ Slots(S.vol, ch[h]) = T
      /\ IsTable(T)
  BY TableOf
<1>2. D.s = (IF A.pos = 0 THEN A.s ELSE P) /\ D.dc = dc /\ D.chain = A.chain /\ D.pos = A.pos
  <2> HIDE DEF T
  <2> QED
    BY <1>0, <1>1 DEF dir_register
<1>3. Window(d, gone, R) /\ Stored(R.vol, ch, tb) /\ few \in Nat \ {0}
  <2>1. Window(d, gone, Scanned(S, ch[h], End(T))) /\ Scanned(S, ch[h], End(T)).vol = S.vol
    BY ScannedKeeps
  <2> QED
    BY <2>1
<1> HIDE DEF R
<1>4. /\ Window(d, gone, A.s) /\ Spread(A.s.vol, ch, tb, h, A.chain) /\ A.pos \in Nat
      /\ A.pos # 0 => At(A.pos) <= Len(A.chain) /\ Fits(tb[h], A.pos, few)
  <2> HIDE DEF few
  <2>1. A = dir_alloc(R, ch[h], few)
    OBVIOUS
  <2> HIDE DEF A
  <2> QED
    BY <1>3, <2>1, AllocIs
<1> HIDE DEF A
<1> DEFINE size == Len(A.chain) * SPS
           G == Grown(T, size)
<1>5. /\ A.chain \in Seq(Cluster) /\ Len(A.chain) \in Nat /\ Len(ch[h]) <= Len(A.chain)
      /\ Len(T) \in Nat /\ size \in Nat /\ Len(T) <= size
      /\ \A i \in Nat \ {0} : At(i) <= Len(A.chain) => i \in 1 .. size
      /\ \A j \in 1 .. Len(ch[h]) : A.chain[j] = ch[h][j]
  <2>1. /\ A.chain \in Seq(Cluster) /\ Len(A.chain) \in Nat \ {0}
        /\ Len(tb[h]) \in Nat /\ Len(A.chain) * SPS \in Nat /\ Len(tb[h]) <= Len(A.chain) * SPS
        /\ \A i \in Nat \ {0} : At(i) <= Len(A.chain) => i \in 1 .. Len(A.chain) * SPS
    BY <1>4, SpreadIs
  <2>2. Len(ch[h]) <= Len(A.chain) /\ \A j \in 1 .. Len(ch[h]) : A.chain[j] = ch[h][j]
    BY <1>4 DEF Spread
  <2> QED
    BY <2>1, <2>2
<1>6. Laid(A.s.vol, ch, tb, h, A.chain, G)
  BY <1>4 DEF Spread, Laid
<1> HIDE DEF size, T
<1>7. Keeping(T, G, {}) /\ Len(G) = size /\ \A j \in 1 .. size : G[j] = Beyond(T, j)
  BY <1>1, <1>5, GrownKeeps, GrownIs DEF IsTable
<1> HIDE DEF G
<1>8. IsTable(G)
  BY <1>6, <1>7, LaidIs DEF IsTable, Keeping
<1>9. CASE A.pos = 0
  <2>1. Laid(D.s.vol, ch, tb, h, D.chain, G) /\ Entered(T, G, D.pos, n) /\ Window(d, gone, D.s)
    BY <1>2, <1>4, <1>6, <1>7, <1>9 DEF Entered
  <2> QED
    BY <1>2, <1>5, <2>1 DEF T
<1>10. CASE A.pos # 0
  <2> DEFINE pos == A.pos
  <2>1. D.s = P /\ pos \in 1 .. size /\ pos \in Nat \ {0} /\ Fits(T, pos, few)
    BY <1>2, <1>4, <1>5, <1>10 DEF T
  <2>2. /\ few <= pos
        /\ \A j \in 1 .. pos : IF j > pos - few THEN G[j] \in Free ELSE G[j].k # "end"
    <3>1. \A j \in 1 .. pos : j \in 1 .. size
      BY <1>5, <2>1
    <3> QED
      BY <1>7, <2>1, <3>1 DEF Fits
  <2>3. ~(pos <= Len(T) /\ T[pos].k = "sfn")
    <3>1. G[pos] \in Free
      BY <2>1, <2>2
    <3>2. G[pos] = Beyond(T, pos)
      BY <1>7, <2>1
    <3> QED
      BY <3>1, <3>2 DEF Free, Beyond
  <2>4. SUFFICES \E U : /\ Window(d, gone, P) /\ Laid(P.vol, ch, tb, h, A.chain, U)
                        /\ Keeping(G, U, {pos}) /\ Len(U) = Len(G)
                        /\ U[pos] = Blank(sfn) /\ NameAt(U, pos) = n
    <3>1. PICK U : /\ Window(d, gone, P) /\ Laid(P.vol, ch, tb, h, A.chain, U)
                   /\ Keeping(G, U, {pos}) /\ Len(U) = Len(G)
                   /\ U[pos] = Blank(sfn) /\ NameAt(U, pos) = n
      BY <2>4
    <3>2. Keeping(T, U, {} \cup {pos})
      BY <1>5, <1>7, <3>1, KeepingBoth
    <3>3. {} \cup {pos} = {pos}
      OBVIOUS
    <3>4. U[pos].sfn = sfn
      BY <3>1 DEF Blank
    <3> HIDE DEF P, sfn
    <3>5. Entered(T, U, pos, n)
      BY <1>7, <2>1, <2>3, <3>1, <3>2, <3>3, <3>4 DEF Entered
    <3> QED
      BY <1>2, <1>5, <2>1, <3>1, <3>5 DEF T
  <2>5. IsSeq(G) /\ pos \in 1 .. Len(G)
    BY <1>7, <1>8, <2>1 DEF IsTable
  <2>6. CASE ~long
    <3> DEFINE b == Blank(<<n, 0>>)
               U == Put(G, pos, b)
    <3>1. P = PutSlot(A.s, A.chain, pos, b) /\ Blank(sfn) = b
      BY <2>6
    <3> HIDE DEF b, P, sfn
    <3>2. Laid(PutSlot(A.s, A.chain, pos, b).vol, ch, tb, h, A.chain, U)
      BY <1>4, <1>6, <2>5, PutEntry
    <3>3. Len(U) = Len(G) /\ \A j \in 1 .. Len(G) : U[j] = IF j = pos THEN b ELSE G[j]
      BY <2>5, PutIs
    <3> HIDE DEF U
    <3>4. G[pos] \in Free /\ \A j \in 1 .. pos - 1 : G[j].k # "end"
      <4>1. few = 1
        BY <2>6
      <4> QED
        BY <2>1, <2>2, <4>1
    <3>5. Keeping(G, U, {pos}) /\ NameAt(U, pos) = n
      <4>1. \A j \in 1 .. Len(G) : U[j] = IF j = pos THEN Blank(<<n, 0>>) ELSE G[j]
        BY <3>3 DEF b
      <4>2. n \notin DOMAIN Alias /\ Len(U) = Len(G)
        BY <2>6, <3>3
      <4> HIDE DEF pos
      <4> QED
        BY <1>8, <2>5, <3>4, <4>1, <4>2, EnterShort, ZenonT(30)
    <3>6. Window(d, gone, P)
      BY <1>4, <3>1, PutSlotKeeps
    <3>7. U[pos] = b
      BY <2>5, <3>3
    <3> QED
      BY <3>1, <3>2, <3>3, <3>5, <3>6, <3>7
  <2>7. CASE long
    <3> DEFINE b == Blank(sfn)
               V == Put(G, first, lfn)
               U == Put(V, pos, b)
    <3>1. few = 2 /\ sfn = NumName(T, n)
      BY <2>7
    <3>2. sfn[2] # 0
      BY <1>1, <3>1, NumNameIs
    <3>3. /\ pos \in 2 .. Len(G) /\ first \in 1 .. Len(G) /\ first = pos - 1
          /\ G[pos] \in Free /\ G[pos - 1] \in Free /\ \A j \in 1 .. pos - 2 : G[j].k # "end"
      <4>1. 2 <= pos
        BY <2>2, <3>1
      <4>2. Len(G) \in Nat
        BY <2>5 DEF IsSeq
      <4>3. pos - 1 \in 1 .. pos /\ pos \in 1 .. pos /\ \A j \in 1 .. pos - 2 : j \in 1 .. pos /\ ~(j > pos - 2)
        BY <2>1, <4>1
      <4>4. pos > pos - 2 /\ pos - 1 > pos - 2
        BY <2>1
      <4>5. /\ G[pos] \in Free /\ G[pos - 1] \in Free /\ \A j \in 1 .. pos - 2 : G[j].k # "end"
        BY <2>2, <3>1, <4>3, <4>4
      <4> QED
        BY <2>1, <2>5, <4>1, <4>2, <4>5
    <3>4. P = PutSlot(next, A.chain, pos, b)
      BY <2>7
    <3>5. Window(d, gone, sdi) /\ sdi.vol = A.s.vol
      BY <1>4, WalkedKeeps DEF dir_sdi
    <3> HIDE DEF sdi, P, sfn, b, V, first, lfn
    <3>6. Window(d, gone, L)
      BY <3>5, PutSlotKeeps
    <3>7. Laid(PutSlot(sdi, A.chain, first, lfn).vol, ch, tb, h, A.chain, V)
      <4>1. Laid(sdi.vol, ch, tb, h, A.chain, G)
        BY <1>6, <3>5
      <4> QED
        BY <3>3, <3>5, <4>1, PutEntry DEF V
    <3>8. /\ Len(V) = Len(G) /\ IsSeq(V)
          /\ \A j \in 1 .. Len(G) : V[j] = IF j = first THEN lfn ELSE G[j]
      BY <2>5, <3>3, PutIs DEF V
    <3> HIDE DEF L
    <3>9. Window(d, gone, next) /\ next.vol = L.vol
      BY <3>6, GetFat
    <3> HIDE DEF next
    <3>10. Laid(PutSlot(next, A.chain, pos, b).vol, ch, tb, h, A.chain, U)
      <4>1. Laid(next.vol, ch, tb, h, A.chain, V) /\ pos \in 1 .. Len(V)
        BY <2>5, <3>7, <3>8, <3>9 DEF L
      <4> QED
        BY <3>9, <4>1, PutEntry
    <3>11. Len(U) = Len(V) /\ \A j \in 1 .. Len(V) : U[j] = IF j = pos THEN b ELSE V[j]
      BY <2>5, <3>8, PutIs
    <3> HIDE DEF U
    <3>12. \A j \in 1 .. Len(G) : U[j] = IF j = pos THEN b ELSE IF j = pos - 1 THEN lfn ELSE G[j]
      BY <3>3, <3>8, <3>11
    <3>13. Len(U) = Len(G)
      BY <3>8, <3>11
    <3>14. Keeping(G, U, {pos}) /\ NameAt(U, pos) = n
      <4>1. LongIn(G, U, pos, n, sfn)
        BY <3>12, <3>13 DEF b, lfn, LongIn
      <4>2. n \in DOMAIN Alias
        BY <2>7
      <4>3. /\ pos \in 2 .. Len(G) /\ G[pos] \in Free /\ G[pos - 1] \in Free
            /\ \A j \in 1 .. pos - 2 : G[j].k # "end"
        BY <3>3
      <4> HIDE DEF pos, long, few
      <4>4. Keeping(G, U, {pos})
        BY <1>8, <3>2, <4>1, <4>2, <4>3, EnterLong
      <4>5. NameAt(U, pos) = n
        <5>1. Len(G) \in Nat /\ pos \in 1 .. Len(G) /\ pos - 1 \in 1 .. Len(G) /\ pos > 1 /\ pos - 1 # pos
          BY <1>8, <4>3 DEF IsTable, IsSeq
        <5>2. U[pos - 1] = [k |-> "lfn", name |-> n, sfn |-> sfn] /\ U[pos] = Blank(sfn)
          BY <4>1, <5>1 DEF LongIn
        <5> QED
          BY <5>1, <5>2 DEF NameAt, Blank
      <4> QED
        BY <4>4, <4>5
    <3>15. Window(d, gone, P)
      BY <3>4, <3>9, PutSlotKeeps
    <3>16. U[pos] = b
      BY <2>5, <3>12
    <3> QED
      BY <3>4, <3>10, <3>13, <3>14, <3>15, <3>16 DEF b
  <2> QED
    BY <2>6, <2>7
<1> QED
  BY <1>9, <1>10

-----------------------------------------------------------------------------
(* Paths.                                                                  *)

\* A sequence over any set that has its elements.
LEMMA InSeq ==
    ASSUME NEW p, IsSeq(p), NEW S, \A k \in 1 .. Len(p) : p[k] \in S
    PROVE  p \in Seq(S)
<1>1. Len(p) \in Nat /\ p = [k \in 1 .. Len(p) |-> p[k]]
  BY DEF IsSeq
<1> DEFINE m == Len(p)
           q == [k \in 1 .. m |-> p[k]]
<1>2. m \in Nat /\ p = q
  BY <1>1
<1> HIDE DEF m
<1>3. q \in [1 .. m -> S]
  BY DEF m
<1> HIDE DEF q
<1>4. q \in Seq(S)
  BY <1>2, <1>3
<1> QED
  BY <1>2, <1>4

\* Sequences are sequences in the sense of IsSeq.
LEMMA SeqIs ==
    ASSUME NEW S, NEW p \in Seq(S)
    PROVE  IsSeq(p)
BY DEF IsSeq

\* Two sequences with the same elements are equal.
LEMMA SameSeq ==
    ASSUME NEW p, IsSeq(p), NEW q, IsSeq(q), Len(p) = Len(q), \A k \in 1 .. Len(p) : p[k] = q[k]
    PROVE  p = q
<1> DEFINE S == {p[k] : k \in 1 .. Len(p)}
<1>1. p \in Seq(S) /\ q \in Seq(S)
  BY InSeq
<1> HIDE DEF S
<1> QED
  BY <1>1

\* What Append does.
LEMMA AppendIs ==
    ASSUME NEW p, IsSeq(p), NEW n
    PROVE  /\ IsSeq(Append(p, n)) /\ Len(Append(p, n)) = Len(p) + 1 /\ Len(p) \in Nat
           /\ Append(p, n)[Len(p) + 1] = n /\ \A k \in 1 .. Len(p) : Append(p, n)[k] = p[k]
<1> DEFINE S == {p[k] : k \in 1 .. Len(p)} \cup {n}
<1>1. p \in Seq(S) /\ n \in S
  BY InSeq
<1> HIDE DEF S
<1>2. Append(p, n) \in Seq(S)
  BY <1>1
<1>3. IsSeq(Append(p, n))
  BY <1>2, SeqIs
<1> QED
  BY <1>1, <1>3

\* Append loses nothing.
LEMMA AppendBoth ==
    ASSUME NEW p, IsSeq(p), NEW q, IsSeq(q), NEW n, NEW m, Append(p, n) = Append(q, m)
    PROVE  p = q /\ n = m
<1>1. /\ Len(Append(p, n)) = Len(p) + 1 /\ Len(p) \in Nat
      /\ Append(p, n)[Len(p) + 1] = n /\ \A k \in 1 .. Len(p) : Append(p, n)[k] = p[k]
  BY AppendIs
<1>2. /\ Len(Append(q, m)) = Len(q) + 1 /\ Len(q) \in Nat
      /\ Append(q, m)[Len(q) + 1] = m /\ \A k \in 1 .. Len(q) : Append(q, m)[k] = q[k]
  BY AppendIs
<1> DEFINE a == Append(p, n)
           b == Append(q, m)
<1> HIDE DEF a, b
<1>3. a = b
  BY DEF a, b
<1>4. Len(p) = Len(q)
  BY <1>1, <1>2, <1>3 DEF a, b
<1>5. n = m /\ \A k \in 1 .. Len(p) : p[k] = q[k]
  BY <1>1, <1>2, <1>3, <1>4 DEF a, b
<1> QED
  BY <1>4, <1>5, SameSeq

\* What the first k names of a path are.
LEMMA StartIs ==
    ASSUME NEW p, IsSeq(p), NEW k \in 0 .. Len(p)
    PROVE  /\ IsSeq(SubSeq(p, 1, k)) /\ Len(SubSeq(p, 1, k)) = k /\ k \in Nat
           /\ \A j \in 1 .. k : SubSeq(p, 1, k)[j] = p[j]
<1> DEFINE S == {p[j] : j \in 1 .. Len(p)}
<1>1. p \in Seq(S) /\ Len(p) \in Nat /\ k \in Nat
  BY InSeq DEF IsSeq
<1> HIDE DEF S
<1>2. SubSeq(p, 1, k) \in Seq(S)
  BY <1>1
<1>3. IsSeq(SubSeq(p, 1, k))
  BY <1>2, SeqIs
<1> QED
  BY <1>1, <1>3

\* The start of a path, one name longer.
LEMMA NextStart ==
    ASSUME NEW p, IsSeq(p), NEW k \in 1 .. Len(p)
    PROVE  /\ Append(SubSeq(p, 1, k - 1), p[k]) = SubSeq(p, 1, k)
           /\ SubSeq(p, 1, Len(p)) = p /\ SubSeq(p, 1, 0) = <<>>
<1> DEFINE S == {p[j] : j \in 1 .. Len(p)}
<1>1. p \in Seq(S) /\ Len(p) \in Nat /\ k \in Nat /\ k - 1 \in 0 .. Len(p) /\ k \in 0 .. Len(p)
  BY InSeq DEF IsSeq
<1>2. /\ IsSeq(SubSeq(p, 1, k - 1)) /\ Len(SubSeq(p, 1, k - 1)) = k - 1
      /\ \A j \in 1 .. k - 1 : SubSeq(p, 1, k - 1)[j] = p[j]
  BY <1>1, StartIs
<1>3. /\ IsSeq(SubSeq(p, 1, k)) /\ Len(SubSeq(p, 1, k)) = k
      /\ \A j \in 1 .. k : SubSeq(p, 1, k)[j] = p[j]
  BY <1>1, StartIs
<1> DEFINE a == SubSeq(p, 1, k - 1)
<1> HIDE DEF a
<1>4. /\ IsSeq(Append(a, p[k])) /\ Len(Append(a, p[k])) = Len(a) + 1
      /\ Append(a, p[k])[Len(a) + 1] = p[k] /\ \A j \in 1 .. Len(a) : Append(a, p[k])[j] = a[j]
  BY <1>2, AppendIs DEF a
<1> DEFINE b == Append(a, p[k])
<1> HIDE DEF b
<1>5. IsSeq(b) /\ Len(b) = k /\ \A j \in 1 .. k : b[j] = p[j]
  BY <1>1, <1>2, <1>4 DEF a, b
<1>6. b = SubSeq(p, 1, k)
  BY <1>3, <1>5, SameSeq
<1>7. Len(p) \in 0 .. Len(p) /\ 0 \in 0 .. Len(p)
  BY <1>1
<1>8. IsSeq(SubSeq(p, 1, Len(p))) /\ Len(SubSeq(p, 1, Len(p))) = Len(p)
      /\ \A j \in 1 .. Len(p) : SubSeq(p, 1, Len(p))[j] = p[j]
  BY <1>7, StartIs
<1>9. SubSeq(p, 1, Len(p)) = p
  BY <1>8, SameSeq
<1>10. SubSeq(p, 1, 0) = <<>>
  BY <1>1
<1> QED
  BY <1>6, <1>9, <1>10 DEF a, b

\* A path is its start and its last name.
LEMMA UpIs ==
    ASSUME NEW p, IsSeq(p), p # <<>>
    PROVE  /\ Len(p) \in Nat \ {0} /\ Last(p) = p[Len(p)]
           /\ Append(SubSeq(p, 1, Len(p) - 1), Last(p)) = p
           /\ IsSeq(SubSeq(p, 1, Len(p) - 1)) /\ Len(SubSeq(p, 1, Len(p) - 1)) = Len(p) - 1
<1> DEFINE S == {p[j] : j \in 1 .. Len(p)}
<1>1. p \in Seq(S) /\ Len(p) \in Nat
  BY InSeq DEF IsSeq
<1> HIDE DEF S
<1>2. Len(p) # 0
  BY <1>1
<1>3. Len(p) \in 1 .. Len(p) /\ Len(p) - 1 \in 0 .. Len(p)
  BY <1>1, <1>2
<1>4. /\ Append(SubSeq(p, 1, Len(p) - 1), p[Len(p)]) = SubSeq(p, 1, Len(p))
      /\ SubSeq(p, 1, Len(p)) = p
  BY <1>3, NextStart
<1>5. IsSeq(SubSeq(p, 1, Len(p) - 1)) /\ Len(SubSeq(p, 1, Len(p) - 1)) = Len(p) - 1
  BY <1>3, StartIs
<1>6. Last(p) = p[Len(p)]
  BY DEF Last
<1> QED
  BY <1>1, <1>2, <1>4, <1>5, <1>6

-----------------------------------------------------------------------------
(* Trees.                                                                  *)

Sane(tb) == \A h \in DOMAIN tb : WellFormed(tb[h]) /\ (h = Root \/ tb[h][2].k = "dots")

IsDir(tb, h, i) == Listed(tb, h, i) /\ tb[h][i].dir

\* Tree without the bounds that Listed has anyway.
TreeForm(tb, pt) ==
    /\ Root \in DOMAIN tb /\ pt[Root] = <<>> /\ Sane(tb)
    /\ \A h \in DOMAIN tb : IsSeq(pt[h])
    /\ \A g, h \in DOMAIN tb : pt[g] = pt[h] => g = h
    /\ \A h, i, j : Listed(tb, h, i) /\ Listed(tb, h, j) /\ NameAt(tb[h], i) = NameAt(tb[h], j) => i = j
    /\ \A h, i : IsDir(tb, h, i) =>
          /\ tb[h][i].clust \in DOMAIN tb /\ tb[h][i].clust # Root
          /\ pt[tb[h][i].clust] = Path(tb, pt, h, i)
    /\ \A c \in DOMAIN tb : c # Root => \E h, i : IsDir(tb, h, i) /\ tb[h][i].clust = c

\* The two forms say the same.
LEMMA TreeIs ==
    ASSUME NEW tb, NEW pt
    PROVE  Tree(tb, pt) <=> TreeForm(tb, pt)
<1>1. ASSUME Tree(tb, pt) PROVE TreeForm(tb, pt)
  <2>1. /\ Root \in DOMAIN tb /\ pt[Root] = <<>> /\ Sane(tb)
        /\ \A h \in DOMAIN tb : IsSeq(pt[h])
        /\ \A g, h \in DOMAIN tb : pt[g] = pt[h] => g = h
    BY <1>1 DEF Tree, Sane
  <2>2. ASSUME NEW h, NEW i, NEW j, Listed(tb, h, i), Listed(tb, h, j),
               NameAt(tb[h], i) = NameAt(tb[h], j)
        PROVE  i = j
    <3>1. h \in DOMAIN tb /\ i \in 1 .. Len(tb[h]) /\ j \in 1 .. Len(tb[h])
      BY <2>2 DEF Listed
    <3> QED
      BY <1>1, <2>2, <3>1 DEF Tree
  <2>3. ASSUME NEW h, NEW i, IsDir(tb, h, i)
        PROVE  /\ tb[h][i].clust \in DOMAIN tb /\ tb[h][i].clust # Root
               /\ pt[tb[h][i].clust] = Path(tb, pt, h, i)
    <3>1. h \in DOMAIN tb /\ i \in 1 .. Len(tb[h])
      BY <2>3 DEF Listed, IsDir
    <3> QED
      BY <1>1, <2>3, <3>1 DEF Tree, IsDir
  <2>4. ASSUME NEW c \in DOMAIN tb, c # Root PROVE \E h, i : IsDir(tb, h, i) /\ tb[h][i].clust = c
    BY <1>1, <2>4 DEF Tree, IsDir
  <2> QED
    BY <2>1, <2>2, <2>3, <2>4 DEF TreeForm
<1>2. ASSUME TreeForm(tb, pt) PROVE Tree(tb, pt)
  <2>1. /\ Root \in DOMAIN tb /\ pt[Root] = <<>>
        /\ \A h \in DOMAIN tb : WellFormed(tb[h]) /\ IsSeq(pt[h]) /\ (h = Root \/ tb[h][2].k = "dots")
        /\ \A g, h \in DOMAIN tb : pt[g] = pt[h] => g = h
    BY <1>2 DEF TreeForm, Sane
  <2>2. \A h \in DOMAIN tb : \A i, j \in 1 .. Len(tb[h]) :
          Listed(tb, h, i) /\ Listed(tb, h, j) /\ NameAt(tb[h], i) = NameAt(tb[h], j) => i = j
    BY <1>2 DEF TreeForm
  <2>3. \A h \in DOMAIN tb : \A i \in 1 .. Len(tb[h]) : Listed(tb, h, i) /\ tb[h][i].dir =>
          /\ tb[h][i].clust \in DOMAIN tb \ {Root}
          /\ pt[tb[h][i].clust] = Path(tb, pt, h, i)
    BY <1>2 DEF TreeForm, IsDir
  <2>4. ASSUME NEW c \in DOMAIN tb \ {Root}
        PROVE  \E h \in DOMAIN tb : \E i \in 1 .. Len(tb[h]) :
                  Listed(tb, h, i) /\ tb[h][i].dir /\ tb[h][i].clust = c
    <3>1. PICK h, i : IsDir(tb, h, i) /\ tb[h][i].clust = c
      BY <1>2 DEF TreeForm
    <3>2. h \in DOMAIN tb /\ i \in 1 .. Len(tb[h])
      BY <3>1 DEF Listed, IsDir
    <3> QED
      BY <3>1, <3>2 DEF IsDir
  <2> QED
    BY <2>1, <2>2, <2>3, <2>4 DEF Tree
<1> QED
  BY <1>1, <1>2

\* Two objects do not have one path.
LEMMA PathsApart ==
    ASSUME NEW tb, NEW pt, Tree(tb, pt), NEW g, NEW h, NEW i, NEW j,
           Listed(tb, g, i), Listed(tb, h, j), Path(tb, pt, g, i) = Path(tb, pt, h, j)
    PROVE  g = h /\ i = j
<1>1. TreeForm(tb, pt)
  BY TreeIs
<1>2. g \in DOMAIN tb /\ h \in DOMAIN tb /\ IsSeq(pt[g]) /\ IsSeq(pt[h])
  BY <1>1 DEF TreeForm, Listed
<1>3. pt[g] = pt[h] /\ NameAt(tb[g], i) = NameAt(tb[h], j)
  BY <1>2, AppendBoth DEF Path
<1>4. g = h
  BY <1>1, <1>2, <1>3 DEF TreeForm
<1> QED
  BY <1>1, <1>3, <1>4 DEF TreeForm

\* Every start of the path of a directory is the path of one.
LEMMA StartsToo ==
    ASSUME NEW tb, NEW pt, Tree(tb, pt), NEW h \in DOMAIN tb
    PROVE  /\ Len(pt[h]) \in Nat
           /\ \A k \in 0 .. Len(pt[h]) : \E g \in DOMAIN tb : pt[g] = SubSeq(pt[h], 1, k)
<1> DEFINE p == pt[h]
           m == Len(p)
           There(k) == \E g \in DOMAIN tb : pt[g] = SubSeq(p, 1, k)
           Q == {n \in Nat : n <= m => There(m - n)}
<1>1. TreeForm(tb, pt)
  BY TreeIs
<1>2. IsSeq(p) /\ m \in Nat /\ \A g \in DOMAIN tb : IsSeq(pt[g])
  BY <1>1 DEF TreeForm, IsSeq
<1> HIDE DEF m
<1>3. 0 \in Q
  <2>1. SubSeq(p, 1, m) = p
    <3>1. CASE m = 0
      <4>1. 0 \in 0 .. Len(p)
        BY <1>2
      <4>2. IsSeq(SubSeq(p, 1, 0)) /\ Len(SubSeq(p, 1, 0)) = 0
        BY <1>2, <4>1, StartIs
      <4>3. \A k \in 1 .. 0 : SubSeq(p, 1, 0)[k] = p[k]
        OBVIOUS
      <4>4. Len(p) = 0
        BY <3>1 DEF m
      <4> HIDE DEF p
      <4> QED
        BY <1>2, <3>1, <4>2, <4>3, <4>4, SameSeq
    <3>2. CASE m # 0
      <4>1. 1 \in 1 .. Len(p)
        BY <1>2, <3>2 DEF m
      <4> HIDE DEF p
      <4> QED
        BY <1>2, <4>1, NextStart DEF m
    <3> QED
      BY <3>1, <3>2
  <2>2. There(m)
    BY <2>1
  <2> HIDE DEF There
  <2> QED
    BY <1>2, <2>2
<1>4. ASSUME NEW k \in 1 .. m, There(k) PROVE There(k - 1)
  <2>1. PICK g \in DOMAIN tb : pt[g] = SubSeq(p, 1, k)
    BY <1>4
  <2>2. k \in 0 .. Len(p) /\ k \in 1 .. Len(p) /\ k - 1 \in 0 .. Len(p)
    BY <1>2 DEF m
  <2> HIDE DEF p
  <2>3. Len(pt[g]) = k
    BY <1>2, <2>1, <2>2, StartIs
  <2>4. g # Root
    <3>1. Len(<<>>) = 0
      OBVIOUS
    <3> QED
      BY <1>1, <2>2, <2>3, <3>1 DEF TreeForm
  <2>5. PICK a, i : IsDir(tb, a, i) /\ tb[a][i].clust = g
    BY <1>1, <2>4 DEF TreeForm
  <2>6. pt[g] = Append(pt[a], NameAt(tb[a], i)) /\ a \in DOMAIN tb
    BY <1>1, <2>5 DEF TreeForm, Path, IsDir, Listed
  <2>7. Append(SubSeq(p, 1, k - 1), p[k]) = Append(pt[a], NameAt(tb[a], i))
    BY <1>2, <2>1, <2>2, <2>6, NextStart
  <2>8. IsSeq(SubSeq(p, 1, k - 1)) /\ IsSeq(pt[a])
    BY <1>2, <2>2, <2>6, StartIs
  <2>9. pt[a] = SubSeq(p, 1, k - 1)
    BY <2>7, <2>8, AppendBoth
  <2> QED
    BY <2>6, <2>9
<1> HIDE DEF There
<1>5. ASSUME NEW n \in 1 .. m, n - 1 \in Q PROVE n \in Q
  <2>1. m - (n - 1) \in 1 .. m /\ There(m - (n - 1)) /\ n \in Nat
    BY <1>2, <1>5
  <2>2. There(m - (n - 1) - 1)
    BY <1>4, <2>1
  <2>3. m - (n - 1) - 1 = m - n
    BY <1>2, <2>1
  <2> QED
    BY <2>1, <2>2, <2>3
<1>6. \A n \in 0 .. m : n \in Q
  <2> HIDE DEF Q
  <2> QED
    BY <1>2, <1>3, <1>5, Turns
<1>7. ASSUME NEW k \in 0 .. m PROVE There(k)
  <2>1. m - k \in 0 .. m /\ m - (m - k) = k
    BY <1>2
  <2>2. m - k \in Q
    BY <1>6, <2>1
  <2> QED
    BY <1>2, <2>1, <2>2
<1> QED
  BY <1>2, <1>7 DEF There, m

\* A directory that is not the root has an entry, with its path.
LEMMA EntryOf ==
    ASSUME NEW tb, NEW pt, Tree(tb, pt), NEW c \in DOMAIN tb, c # Root
    PROVE  \E h, i : IsDir(tb, h, i) /\ tb[h][i].clust = c /\ Path(tb, pt, h, i) = pt[c]
BY TreeIs DEF TreeForm

\* Of an object there is the path, which goes on from that of its directory.
LEMMA PathIs ==
    ASSUME NEW tb, NEW pt, Tree(tb, pt), NEW h, NEW i, Listed(tb, h, i)
    PROVE  /\ h \in DOMAIN tb /\ IsSeq(pt[h]) /\ IsSeq(Path(tb, pt, h, i))
           /\ Len(Path(tb, pt, h, i)) = Len(pt[h]) + 1 /\ Len(pt[h]) \in Nat
<1>1. h \in DOMAIN tb /\ IsSeq(pt[h])
  BY TreeIs DEF TreeForm, Listed
<1> QED
  BY <1>1, AppendIs DEF Path

\* The tables tb2 have the objects of tb, but for what is at the spots P.
Alike(tb, tb2, P) ==
    \A h, i : <<h, i>> \notin P =>
        /\ Listed(tb2, h, i) <=> Listed(tb, h, i)
        /\ Listed(tb, h, i) => tb2[h][i] = tb[h][i] /\ NameAt(tb2[h], i) = NameAt(tb[h], i)

\* Alike is transitive.
LEMMA AlikeBoth ==
    ASSUME NEW t, NEW u, NEW v, NEW P, NEW Q, Alike(t, u, P), Alike(u, v, Q)
    PROVE  Alike(t, v, P \cup Q)
<1> SUFFICES ASSUME NEW h, NEW i, <<h, i>> \notin P, <<h, i>> \notin Q
             PROVE  /\ Listed(v, h, i) <=> Listed(t, h, i)
                    /\ Listed(t, h, i) => v[h][i] = t[h][i] /\ NameAt(v[h], i) = NameAt(t[h], i)
  BY DEF Alike
<1>1. /\ Listed(u, h, i) <=> Listed(t, h, i)
      /\ Listed(t, h, i) => u[h][i] = t[h][i] /\ NameAt(u[h], i) = NameAt(t[h], i)
  BY DEF Alike
<1>2. /\ Listed(v, h, i) <=> Listed(u, h, i)
      /\ Listed(u, h, i) => v[h][i] = u[h][i] /\ NameAt(v[h], i) = NameAt(u[h], i)
  BY DEF Alike
<1> QED
  BY <1>1, <1>2

\* A table that keeps its objects keeps those of the volume.
LEMMA AlikeOne ==
    ASSUME NEW tb, Sane(tb), NEW h \in DOMAIN tb, Len(tb[h]) \in Nat, NEW U, NEW P, Keeping(tb[h], U, P)
    PROVE  /\ DOMAIN Put(tb, h, U) = DOMAIN tb /\ Sane(Put(tb, h, U))
           /\ Alike(tb, Put(tb, h, U), {<<h, i>> : i \in P})
           /\ Put(tb, h, U)[h] = U /\ \A g \in DOMAIN tb : g # h => Put(tb, h, U)[g] = tb[g]
<1> DEFINE t2 == Put(tb, h, U)
<1>1. /\ DOMAIN t2 = DOMAIN tb /\ t2[h] = U /\ \A g \in DOMAIN tb : g # h => t2[g] = tb[g]
  BY DEF Put
<1> HIDE DEF t2
<1>2. Sane(t2)
  BY <1>1 DEF Sane, Keeping
<1>3. ASSUME NEW g, NEW i, <<g, i>> \notin {<<h, k>> : k \in P}
      PROVE  /\ Listed(t2, g, i) <=> Listed(tb, g, i)
             /\ Listed(tb, g, i) => t2[g][i] = tb[g][i] /\ NameAt(t2[g], i) = NameAt(tb[g], i)
  <2>1. CASE g # h
    BY <1>1, <2>1 DEF Listed
  <2>2. CASE g = h
    <3>1. i \notin P
      BY <1>3, <2>2
    <3>2. i \in 1 .. Len(tb[h]) => i \in 1 .. Len(U)
      BY DEF Keeping
    <3>3. i \in 1 .. Len(U) => /\ U[i].k = "sfn" <=> i <= Len(tb[h]) /\ tb[h][i].k = "sfn"
                               /\ U[i].k = "sfn" => U[i] = tb[h][i] /\ NameAt(U, i) = NameAt(tb[h], i)
      BY <3>1 DEF Keeping
    <3>4. i \in 1 .. Len(U) /\ i <= Len(tb[h]) => i \in 1 .. Len(tb[h])
      BY DEF Keeping
    <3>5. i \in 1 .. Len(tb[h]) => i <= Len(tb[h])
      OBVIOUS
    <3> QED
      BY <1>1, <2>2, <3>2, <3>3, <3>4, <3>5 DEF Listed
  <2> QED
    BY <2>1, <2>2
<1>4. Alike(tb, t2, {<<h, i>> : i \in P})
  BY <1>3 DEF Alike
<1> QED
  BY <1>1, <1>2, <1>4 DEF t2

\* The same, where one slot differs.
LEMMA AlikeSpot ==
    ASSUME NEW tb, Sane(tb), NEW h \in DOMAIN tb, Len(tb[h]) \in Nat, NEW U, NEW i, Keeping(tb[h], U, {i})
    PROVE  Alike(tb, Put(tb, h, U), {<<h, i>>})
<1>1. Alike(tb, Put(tb, h, U), {<<h, k>> : k \in {i}})
  BY AlikeOne
<1>2. {<<h, k>> : k \in {i}} = {<<h, i>>}
  OBVIOUS
<1> QED
  BY <1>1, <1>2

\* Where no directory is at the spots P, a name there that no other object has makes
\* no difference to the tree.
LEMMA TreeSame ==
    ASSUME NEW tb, NEW pt, Tree(tb, pt), NEW tb2, DOMAIN tb2 = DOMAIN tb, Sane(tb2),
           NEW P, Alike(tb, tb2, P),
           \A h, i : <<h, i>> \in P => ~IsDir(tb, h, i) /\ ~IsDir(tb2, h, i),
           \A h, i, j : <<h, i>> \in P /\ Listed(tb2, h, i) /\ Listed(tb2, h, j)
                        /\ NameAt(tb2[h], i) = NameAt(tb2[h], j) => i = j
    PROVE  Tree(tb2, pt)
<1>1. TreeForm(tb, pt)
  BY TreeIs
<1>2. ASSUME NEW h, NEW i
      PROVE  /\ IsDir(tb2, h, i) <=> IsDir(tb, h, i)
             /\ IsDir(tb, h, i) => tb2[h][i] = tb[h][i] /\ Path(tb2, pt, h, i) = Path(tb, pt, h, i)
  <2>1. CASE <<h, i>> \in P
    BY <2>1
  <2>2. CASE <<h, i>> \notin P
    BY <2>2 DEF Alike, IsDir, Path
  <2> QED
    BY <2>1, <2>2
<1>3. ASSUME NEW h, NEW i, NEW j, Listed(tb2, h, i), Listed(tb2, h, j),
             NameAt(tb2[h], i) = NameAt(tb2[h], j)
      PROVE  i = j
  <2>1. CASE <<h, i>> \in P \/ <<h, j>> \in P
    BY <1>3, <2>1
  <2>2. CASE <<h, i>> \notin P /\ <<h, j>> \notin P
    <3>1. Listed(tb, h, i) /\ NameAt(tb2[h], i) = NameAt(tb[h], i)
      BY <1>3, <2>2 DEF Alike
    <3>2. Listed(tb, h, j) /\ NameAt(tb2[h], j) = NameAt(tb[h], j)
      BY <1>3, <2>2 DEF Alike
    <3> QED
      BY <1>1, <1>3, <3>1, <3>2 DEF TreeForm
  <2> QED
    BY <2>1, <2>2
<1>4. /\ Root \in DOMAIN tb2 /\ pt[Root] = <<>> /\ Sane(tb2)
      /\ \A h \in DOMAIN tb2 : IsSeq(pt[h])
      /\ \A g, h \in DOMAIN tb2 : pt[g] = pt[h] => g = h
  BY <1>1 DEF TreeForm
<1>5. ASSUME NEW h, NEW i, IsDir(tb2, h, i)
      PROVE  /\ tb2[h][i].clust \in DOMAIN tb2 /\ tb2[h][i].clust # Root
             /\ pt[tb2[h][i].clust] = Path(tb2, pt, h, i)
  <2>1. IsDir(tb, h, i) /\ tb2[h][i] = tb[h][i] /\ Path(tb2, pt, h, i) = Path(tb, pt, h, i)
    BY <1>2, <1>5
  <2>2. /\ tb[h][i].clust \in DOMAIN tb /\ tb[h][i].clust # Root
        /\ pt[tb[h][i].clust] = Path(tb, pt, h, i)
    BY <1>1, <2>1 DEF TreeForm
  <2> QED
    BY <2>1, <2>2
<1>6. ASSUME NEW c \in DOMAIN tb2, c # Root PROVE \E h, i : IsDir(tb2, h, i) /\ tb2[h][i].clust = c
  <2>1. PICK h, i : IsDir(tb, h, i) /\ tb[h][i].clust = c
    BY <1>1, <1>6 DEF TreeForm
  <2> QED
    BY <1>2, <2>1
<1>7. TreeForm(tb2, pt)
  BY <1>3, <1>4, <1>5, <1>6 DEF TreeForm
<1> QED
  BY <1>7, TreeIs

\* The tables tb and tb2 have the same object, if any, at the position i of h.
SameSpot(tb, tb2, h, i) ==
    /\ Listed(tb2, h, i) <=> Listed(tb, h, i)
    /\ Listed(tb, h, i) => tb2[h][i] = tb[h][i] /\ NameAt(tb2[h], i) = NameAt(tb[h], i)
    /\ IsDir(tb2, h, i) <=> IsDir(tb, h, i)
    /\ IsFile(tb2, h, i) <=> IsFile(tb, h, i)

\* What Alike says of a slot.
LEMMA SameNames ==
    ASSUME NEW tb, NEW tb2, NEW P, Alike(tb, tb2, P)
    PROVE  \A h, i : <<h, i>> \notin P => SameSpot(tb, tb2, h, i)
BY DEF Alike, IsDir, IsFile, SameSpot

\* The same, where one slot differs.
LEMMA SameOthers ==
    ASSUME NEW tb, NEW tb2, NEW h, NEW i, Alike(tb, tb2, {<<h, i>>})
    PROVE  \A a, k : ~(a = h /\ k = i) => SameSpot(tb, tb2, a, k)
BY DEF Alike, IsDir, IsFile, SameSpot

\* The path of a directory is that of its entry.
LEMMA NoneThere ==
    ASSUME NEW tb, NEW pt, Tree(tb, pt), NEW h \in DOMAIN tb, NEW n,
           \A j : Listed(tb, h, j) => NameAt(tb[h], j) # n, NEW g \in DOMAIN tb
    PROVE  pt[g] # Append(pt[h], n)
<1> SUFFICES ASSUME pt[g] = Append(pt[h], n) PROVE FALSE
  OBVIOUS
<1>1. TreeForm(tb, pt)
  BY TreeIs
<1>2. IsSeq(pt[h])
  BY <1>1 DEF TreeForm
<1>3. g # Root
  <2>1. IsSeq(<<>>) /\ Len(<<>>) = 0
    BY DEF IsSeq
  <2>2. Len(Append(pt[h], n)) = Len(pt[h]) + 1 /\ Len(pt[h]) \in Nat
    BY <1>2, AppendIs
  <2>3. Len(Append(pt[h], n)) # 0
    BY <2>2
  <2>4. Append(pt[h], n) # <<>>
    BY <2>1, <2>3
  <2> QED
    BY <1>1, <2>4 DEF TreeForm
<1>4. PICK a, k : IsDir(tb, a, k) /\ tb[a][k].clust = g
  BY <1>1, <1>3 DEF TreeForm
<1> DEFINE x == NameAt(tb[a], k)
           p == pt[a]
           q == pt[h]
<1>5. Listed(tb, a, k) /\ pt[g] = Append(p, x) /\ a \in DOMAIN tb /\ IsSeq(p) /\ IsSeq(q)
  BY <1>1, <1>4 DEF TreeForm, IsDir, Listed, Path
<1>6. Append(p, x) = Append(q, n)
  BY <1>5
<1> HIDE DEF p, q, x
<1>7. p = q /\ x = n
  BY <1>5, <1>6, AppendBoth
<1>8. a = h
  BY <1>1, <1>5, <1>7 DEF TreeForm, p, q
<1> QED
  BY <1>5, <1>7, <1>8 DEF x

\* A new directory: its entry has a path nothing else has, its table has no objects.
LEMMA TreeGrows ==
    ASSUME NEW tb, NEW pt, Tree(tb, pt), NEW h, NEW i, h \in DOMAIN tb, ~Listed(tb, h, i),
           NEW tb2, NEW c, c \notin DOMAIN tb, DOMAIN tb2 = DOMAIN tb \cup {c}, Sane(tb2),
           Alike(tb, tb2, {<<h, i>>}), IsDir(tb2, h, i), tb2[h][i].clust = c,
           \A j : ~Listed(tb2, c, j),
           \A j : Listed(tb, h, j) => NameAt(tb[h], j) # NameAt(tb2[h], i),
           NEW pt2, \A g \in DOMAIN tb : pt2[g] = pt[g], pt2[c] = Append(pt[h], NameAt(tb2[h], i))
    PROVE  Tree(tb2, pt2)
<1> DEFINE n == NameAt(tb2[h], i)
<1>0. \A a, k : ~(a = h /\ k = i) => SameSpot(tb, tb2, a, k)
  BY DEF Alike, IsDir, IsFile, SameSpot
<1>1. TreeForm(tb, pt)
  BY TreeIs
<1>2. IsSeq(pt[h]) /\ IsSeq(pt2[c]) /\ c # Root /\ pt2[Root] = <<>>
  BY <1>1, AppendIs DEF TreeForm
<1>3. ASSUME NEW g \in DOMAIN tb PROVE pt2[g] # pt2[c]
  <2>1. \A j : Listed(tb, h, j) => NameAt(tb[h], j) # n
    OBVIOUS
  <2>2. pt2[g] = pt[g] /\ pt2[c] = Append(pt[h], n)
    OBVIOUS
  <2> HIDE DEF n
  <2>3. pt[g] # Append(pt[h], n)
    BY <2>1, NoneThere
  <2> QED
    BY <2>2, <2>3
<1>4. ASSUME NEW a, NEW k, Listed(tb2, a, k)
      PROVE  \/ a = h /\ k = i
             \/ ~(a = h /\ k = i) /\ SameSpot(tb, tb2, a, k) /\ Listed(tb, a, k) /\ a \in DOMAIN tb
  BY <1>0, <1>4 DEF SameSpot, Listed
<1>5. ASSUME NEW a, NEW j, NEW k, Listed(tb2, a, j), Listed(tb2, a, k), NameAt(tb2[a], j) = NameAt(tb2[a], k)
      PROVE  j = k
  <2>1. ASSUME NEW x, NEW y, Listed(tb2, h, x), x = i, Listed(tb2, h, y), y # i,
               NameAt(tb2[h], x) = NameAt(tb2[h], y)
        PROVE  FALSE
    <3>1. SameSpot(tb, tb2, h, y) /\ Listed(tb, h, y)
      BY <1>4, <2>1
    <3>2. NameAt(tb2[h], y) = NameAt(tb[h], y)
      BY <3>1 DEF SameSpot
    <3> QED
      BY <2>1, <3>1, <3>2
  <2>2. CASE a = h /\ (j = i \/ k = i)
    BY <1>5, <2>1, <2>2
  <2>3. CASE ~(a = h /\ (j = i \/ k = i))
    <3>1. /\ SameSpot(tb, tb2, a, j) /\ Listed(tb, a, j)
          /\ SameSpot(tb, tb2, a, k) /\ Listed(tb, a, k)
      BY <1>4, <1>5, <2>3
    <3>2. NameAt(tb2[a], j) = NameAt(tb[a], j)
      BY <3>1 DEF SameSpot
    <3>3. NameAt(tb2[a], k) = NameAt(tb[a], k)
      BY <3>1 DEF SameSpot
    <3> QED
      BY <1>1, <1>5, <3>1, <3>2, <3>3 DEF TreeForm
  <2> QED
    BY <2>2, <2>3
<1>6. ASSUME NEW a, NEW k, IsDir(tb2, a, k)
      PROVE  /\ tb2[a][k].clust \in DOMAIN tb2 /\ tb2[a][k].clust # Root
             /\ pt2[tb2[a][k].clust] = Path(tb2, pt2, a, k)
  <2>1. CASE a = h /\ k = i
    <3>1. pt2[h] = pt[h]
      OBVIOUS
    <3> QED
      BY <1>2, <2>1, <3>1 DEF Path
  <2>2. CASE ~(a = h /\ k = i)
    <3>1. SameSpot(tb, tb2, a, k) /\ Listed(tb, a, k) /\ a \in DOMAIN tb
      BY <1>4, <1>6, <2>2 DEF IsDir
    <3>2. IsDir(tb, a, k) /\ tb2[a][k] = tb[a][k] /\ NameAt(tb2[a], k) = NameAt(tb[a], k)
      BY <1>6, <3>1 DEF SameSpot
    <3>3. /\ tb[a][k].clust \in DOMAIN tb /\ tb[a][k].clust # Root
          /\ pt[tb[a][k].clust] = Path(tb, pt, a, k)
      BY <1>1, <3>2 DEF TreeForm
    <3> QED
      BY <3>1, <3>2, <3>3 DEF Path
  <2> QED
    BY <2>1, <2>2
<1>7. ASSUME NEW g \in DOMAIN tb2, g # Root PROVE \E a, k : IsDir(tb2, a, k) /\ tb2[a][k].clust = g
  <2>1. CASE g = c
    BY <2>1
  <2>2. CASE g # c
    <3>1. PICK a, k : IsDir(tb, a, k) /\ tb[a][k].clust = g
      BY <1>1, <1>7, <2>2 DEF TreeForm
    <3>2. SameSpot(tb, tb2, a, k)
      BY <1>0, <3>1 DEF IsDir
    <3>3. IsDir(tb2, a, k) /\ tb2[a][k] = tb[a][k]
      BY <3>1, <3>2 DEF IsDir, SameSpot
    <3> QED
      BY <3>1, <3>3
  <2> QED
    BY <2>1, <2>2
<1>8. /\ Root \in DOMAIN tb2 /\ pt2[Root] = <<>> /\ Sane(tb2)
      /\ \A g \in DOMAIN tb2 : IsSeq(pt2[g])
      /\ \A a, g \in DOMAIN tb2 : pt2[a] = pt2[g] => a = g
  BY <1>1, <1>2, <1>3 DEF TreeForm
<1>9. TreeForm(tb2, pt2)
  BY <1>5, <1>6, <1>7, <1>8 DEF TreeForm
<1> QED
  BY <1>9, TreeIs

\* A directory without objects goes with its entry.
LEMMA TreeShrinks ==
    ASSUME NEW tb, NEW pt, Tree(tb, pt), NEW h, NEW i, IsDir(tb, h, i),
           NEW c, c = tb[h][i].clust, \A j : ~Listed(tb, c, j),
           NEW tb2, DOMAIN tb2 = DOMAIN tb \ {c}, Sane(tb2),
           Alike(tb, tb2, {<<h, i>>}), ~Listed(tb2, h, i)
    PROVE  Tree(tb2, pt)
<1>0. \A a, k : ~(a = h /\ k = i) => SameSpot(tb, tb2, a, k)
  BY DEF Alike, IsDir, IsFile, SameSpot
<1>1. TreeForm(tb, pt)
  BY TreeIs
<1>2. c \in DOMAIN tb /\ c # Root
  BY <1>1 DEF TreeForm
<1>3. ASSUME NEW a, NEW k, Listed(tb2, a, k)
      PROVE  /\ ~(a = h /\ k = i) /\ Listed(tb, a, k) /\ a \in DOMAIN tb2
             /\ tb2[a][k] = tb[a][k] /\ NameAt(tb2[a], k) = NameAt(tb[a], k)
             /\ IsDir(tb2, a, k) <=> IsDir(tb, a, k)
  <2>1. ~(a = h /\ k = i) /\ SameSpot(tb, tb2, a, k)
    BY <1>0, <1>3
  <2> QED
    BY <1>3, <2>1 DEF Listed, SameSpot
<1>4. ASSUME NEW a, NEW j, NEW k, Listed(tb2, a, j), Listed(tb2, a, k), NameAt(tb2[a], j) = NameAt(tb2[a], k)
      PROVE  j = k
  <2>1. Listed(tb, a, j) /\ NameAt(tb2[a], j) = NameAt(tb[a], j)
    BY <1>3, <1>4
  <2>2. Listed(tb, a, k) /\ NameAt(tb2[a], k) = NameAt(tb[a], k)
    BY <1>3, <1>4
  <2> QED
    BY <1>1, <1>4, <2>1, <2>2 DEF TreeForm
<1>5. ASSUME NEW a, NEW k, IsDir(tb2, a, k)
      PROVE  /\ tb2[a][k].clust \in DOMAIN tb2 /\ tb2[a][k].clust # Root
             /\ pt[tb2[a][k].clust] = Path(tb2, pt, a, k)
  <2>1. Listed(tb2, a, k)
    BY <1>5 DEF IsDir
  <2>2. /\ ~(a = h /\ k = i) /\ IsDir(tb, a, k)
        /\ tb2[a][k] = tb[a][k] /\ Path(tb2, pt, a, k) = Path(tb, pt, a, k)
    BY <1>3, <1>5, <2>1 DEF Path
  <2>3. /\ tb[a][k].clust \in DOMAIN tb /\ tb[a][k].clust # Root
        /\ pt[tb[a][k].clust] = Path(tb, pt, a, k)
    BY <1>1, <2>2 DEF TreeForm
  <2>4. tb[a][k].clust # c
    <3> SUFFICES ASSUME tb[a][k].clust = c PROVE FALSE
      OBVIOUS
    <3>1. Path(tb, pt, a, k) = Path(tb, pt, h, i)
      BY <1>1, <2>3 DEF TreeForm
    <3>2. Listed(tb, a, k) /\ Listed(tb, h, i)
      BY <2>2 DEF IsDir
    <3>3. a = h /\ k = i
      BY <3>1, <3>2, PathsApart
    <3> QED
      BY <2>2, <3>3
  <2> QED
    BY <2>2, <2>3, <2>4
<1>6. ASSUME NEW g \in DOMAIN tb2, g # Root PROVE \E a, k : IsDir(tb2, a, k) /\ tb2[a][k].clust = g
  <2>1. PICK a, k : IsDir(tb, a, k) /\ tb[a][k].clust = g
    BY <1>1, <1>6 DEF TreeForm
  <2>2. SameSpot(tb, tb2, a, k)
    BY <1>0, <1>6, <2>1
  <2>3. IsDir(tb2, a, k) /\ tb2[a][k] = tb[a][k]
    BY <2>1, <2>2 DEF IsDir, SameSpot
  <2> QED
    BY <2>1, <2>3
<1>7. /\ Root \in DOMAIN tb2 /\ pt[Root] = <<>> /\ Sane(tb2)
      /\ \A g \in DOMAIN tb2 : IsSeq(pt[g])
      /\ \A a, g \in DOMAIN tb2 : pt[a] = pt[g] => a = g
  BY <1>1, <1>2 DEF TreeForm
<1>8. TreeForm(tb2, pt)
  BY <1>4, <1>5, <1>6, <1>7 DEF TreeForm
<1> QED
  BY <1>8, TreeIs

\* What IsPrefix means for the elements.
LEMMA PrefixIs ==
    ASSUME NEW s, IsSeq(s), NEW t, IsSeq(t)
    PROVE  IsPrefix(s, t) <=> Len(s) <= Len(t) /\ \A k \in 1 .. Len(s) : t[k] = s[k]
<1>1. Len(s) \in Nat /\ Len(t) \in Nat /\ Len(s) \in 0 .. Len(s)
  BY DEF IsSeq
<1>2. IsPrefix(s, t) <=> Len(s) <= Len(t) /\ SubSeq(s, 1, Len(s)) = SubSeq(t, 1, Len(s))
  BY DEF IsPrefix
<1>3. /\ IsSeq(SubSeq(s, 1, Len(s))) /\ Len(SubSeq(s, 1, Len(s))) = Len(s)
      /\ \A j \in 1 .. Len(s) : SubSeq(s, 1, Len(s))[j] = s[j]
  BY <1>1, StartIs
<1>4. CASE Len(s) <= Len(t)
  <2>1. Len(s) \in 0 .. Len(t)
    BY <1>1, <1>4
  <2>2. /\ IsSeq(SubSeq(t, 1, Len(s))) /\ Len(SubSeq(t, 1, Len(s))) = Len(s)
        /\ \A j \in 1 .. Len(s) : SubSeq(t, 1, Len(s))[j] = t[j]
    BY <2>1, StartIs
  <2> DEFINE a == SubSeq(s, 1, Len(s))
             b == SubSeq(t, 1, Len(s))
  <2>3. /\ IsSeq(a) /\ Len(a) = Len(s) /\ \A j \in 1 .. Len(s) : a[j] = s[j]
        /\ IsSeq(b) /\ Len(b) = Len(s) /\ \A j \in 1 .. Len(s) : b[j] = t[j]
        /\ IsPrefix(s, t) <=> a = b
    BY <1>2, <1>3, <1>4, <2>2
  <2> HIDE DEF a, b
  <2>4. a = b <=> \A j \in 1 .. Len(s) : a[j] = b[j]
    BY <2>3, SameSeq
  <2>5. (\A j \in 1 .. Len(s) : a[j] = b[j]) <=> \A j \in 1 .. Len(s) : t[j] = s[j]
    BY <2>3
  <2> QED
    BY <1>4, <2>3, <2>4, <2>5
<1>5. CASE ~(Len(s) <= Len(t))
  BY <1>2, <1>5
<1> QED
  BY <1>4, <1>5

\* The path e is q where old gave way to new.
Shifted(e, q, old, new) ==
    /\ IsSeq(e) /\ Len(e) = Len(new) + (Len(q) - Len(old))
    /\ \A k \in 1 .. Len(new) : e[k] = new[k]
    /\ \A k \in 1 .. Len(q) - Len(old) : e[Len(new) + k] = q[Len(old) + k]

\* What Moved does to the elements of a path.
LEMMA MovedIs ==
    ASSUME NEW q, IsSeq(q), NEW old, IsSeq(old), NEW new, IsSeq(new), Len(old) <= Len(q)
    PROVE  Shifted(Moved(q, old, new), q, old, new)
<1> DEFINE S == {q[k] : k \in 1 .. Len(q)} \cup {new[k] : k \in 1 .. Len(new)}
           m == Len(old)
           r == SubSeq(q, m + 1, Len(q))
           e == new \o r
<1>1. q \in Seq(S) /\ new \in Seq(S) /\ m \in Nat /\ Len(q) \in Nat /\ m <= Len(q)
  BY InSeq DEF IsSeq
<1>2. Moved(q, old, new) = e
  BY DEF Moved
<1> HIDE DEF S, m
<1>3. /\ r \in Seq(S) /\ Len(r) = Len(q) - m
      /\ \A k \in 1 .. Len(q) - m : r[k] = q[m + k]
  BY <1>1
<1> HIDE DEF r
<1>4. /\ e \in Seq(S) /\ Len(e) = Len(new) + Len(r)
      /\ \A k \in 1 .. Len(new) : e[k] = new[k]
      /\ \A k \in 1 .. Len(r) : e[Len(new) + k] = r[k]
  <2>1. e \in Seq(S) /\ Len(e) = Len(new) + Len(r)
    BY <1>1, <1>3
  <2>2. \A k \in 1 .. Len(new) : e[k] = new[k]
    BY <1>1, <1>3
  <2>3. ASSUME NEW k \in 1 .. Len(r) PROVE e[Len(new) + k] = r[k]
    <3>1. Len(new) \in Nat /\ Len(r) \in Nat
      BY <1>1, <1>3
    <3>2. Len(new) + k \in 1 .. Len(new) + Len(r) /\ ~(Len(new) + k <= Len(new)) /\ Len(new) + k - Len(new) = k
      BY <3>1
    <3> QED
      BY <1>1, <1>3, <3>1, <3>2
  <2> QED
    BY <2>1, <2>2, <2>3
<1>5. IsSeq(e)
  BY <1>4, SeqIs
<1> HIDE DEF e
<1> QED
  BY <1>2, <1>3, <1>4, <1>5 DEF m, Shifted

\* What is moved gets the new path.
LEMMA MovedSelf ==
    ASSUME NEW old, IsSeq(old), NEW new, IsSeq(new)
    PROVE  Moved(old, old, new) = new
<1> DEFINE m == Moved(old, old, new)
<1>1. Len(old) \in Nat /\ Len(new) \in Nat
  BY DEF IsSeq
<1>2. /\ IsSeq(m) /\ Len(m) = Len(new) + (Len(old) - Len(old))
      /\ \A k \in 1 .. Len(new) : m[k] = new[k]
  <2>1. Shifted(m, old, old, new)
    BY <1>1, MovedIs
  <2> HIDE DEF m
  <2> QED
    BY <2>1 DEF Shifted
<1> HIDE DEF m
<1>3. Len(m) = Len(new)
  BY <1>1, <1>2
<1> QED
  BY <1>2, <1>3, SameSeq DEF m

\* Whether old begins a path, one name further.
LEMMA PrefixNext ==
    ASSUME NEW old, IsSeq(old), NEW p, IsSeq(p), NEW x
    PROVE  /\ IsPrefix(old, Append(p, x)) <=> IsPrefix(old, p) \/ old = Append(p, x)
           /\ IsSeq(Append(p, x)) /\ ~IsPrefix(Append(p, x), p)
<1> DEFINE q == Append(p, x)
<1>1. /\ IsSeq(q) /\ Len(q) = Len(p) + 1 /\ Len(p) \in Nat /\ q[Len(p) + 1] = x
      /\ \A k \in 1 .. Len(p) : q[k] = p[k]
  BY AppendIs
<1> HIDE DEF q
<1>2. Len(old) \in Nat
  BY DEF IsSeq
<1>3. ~IsPrefix(q, p)
  BY <1>1, PrefixIs
<1>4. ASSUME IsPrefix(old, p) PROVE IsPrefix(old, q)
  <2>1. Len(old) <= Len(p) /\ \A k \in 1 .. Len(old) : p[k] = old[k]
    BY <1>4, PrefixIs
  <2>2. Len(old) <= Len(q) /\ \A k \in 1 .. Len(old) : q[k] = old[k]
    BY <1>1, <1>2, <2>1
  <2> QED
    BY <1>1, <2>2, PrefixIs
<1>5. ASSUME old = q PROVE IsPrefix(old, q)
  <2>1. Len(old) <= Len(q) /\ \A k \in 1 .. Len(old) : q[k] = old[k]
    BY <1>2, <1>5
  <2> QED
    BY <1>1, <2>1, PrefixIs
<1>6. ASSUME IsPrefix(old, q) PROVE IsPrefix(old, p) \/ old = q
  <2>1. Len(old) <= Len(q) /\ \A k \in 1 .. Len(old) : q[k] = old[k]
    BY <1>1, <1>6, PrefixIs
  <2>2. CASE Len(old) = Len(q)
    BY <1>1, <2>1, <2>2, SameSeq
  <2>3. CASE Len(old) # Len(q)
    <3>1. Len(old) <= Len(p) /\ \A k \in 1 .. Len(old) : p[k] = old[k]
      BY <1>1, <1>2, <2>1, <2>3
    <3> QED
      BY <3>1, PrefixIs
  <2> QED
    BY <2>2, <2>3
<1>7. /\ IsPrefix(old, q) <=> IsPrefix(old, p) \/ old = q
      /\ IsSeq(q) /\ ~IsPrefix(q, p)
  BY <1>1, <1>3, <1>4, <1>5, <1>6
<1> QED
  BY <1>7 DEF q

\* What lies in a moved directory moves with it.
LEMMA MovedNext ==
    ASSUME NEW old, IsSeq(old), NEW new, IsSeq(new), NEW p, IsSeq(p), IsPrefix(old, p), NEW x
    PROVE  Moved(Append(p, x), old, new) = Append(Moved(p, old, new), x)
<1> DEFINE q == Append(p, x)
           a == Moved(q, old, new)
           m == Moved(p, old, new)
           b == Append(m, x)
<1>1. /\ IsSeq(q) /\ Len(q) = Len(p) + 1 /\ Len(p) \in Nat /\ q[Len(p) + 1] = x
      /\ \A k \in 1 .. Len(p) : q[k] = p[k]
  BY AppendIs
<1> HIDE DEF q
<1>2. Len(old) \in Nat /\ Len(new) \in Nat /\ Len(old) <= Len(p) /\ Len(old) <= Len(q)
  <2>1. Len(old) \in Nat /\ Len(new) \in Nat
    BY DEF IsSeq
  <2>2. Len(old) <= Len(p)
    BY PrefixIs
  <2> QED
    BY <1>1, <2>1, <2>2
<1>3. /\ IsSeq(a) /\ Len(a) = Len(new) + (Len(q) - Len(old))
      /\ \A k \in 1 .. Len(new) : a[k] = new[k]
      /\ \A k \in 1 .. Len(q) - Len(old) : a[Len(new) + k] = q[Len(old) + k]
  <2>1. Shifted(a, q, old, new)
    BY <1>1, <1>2, MovedIs
  <2> HIDE DEF a
  <2> QED
    BY <2>1 DEF Shifted
<1>4. /\ IsSeq(m) /\ Len(m) = Len(new) + (Len(p) - Len(old))
      /\ \A k \in 1 .. Len(new) : m[k] = new[k]
      /\ \A k \in 1 .. Len(p) - Len(old) : m[Len(new) + k] = p[Len(old) + k]
  <2>1. Shifted(m, p, old, new)
    BY <1>2, MovedIs
  <2> HIDE DEF m
  <2> QED
    BY <2>1 DEF Shifted
<1> HIDE DEF a, m
<1>5. /\ IsSeq(b) /\ Len(b) = Len(m) + 1 /\ b[Len(m) + 1] = x
      /\ \A k \in 1 .. Len(m) : b[k] = m[k]
  BY <1>4, AppendIs
<1> HIDE DEF b
<1>6. Len(a) = Len(b)
  BY <1>1, <1>2, <1>3, <1>4, <1>5
<1>7. ASSUME NEW k \in 1 .. Len(a) PROVE a[k] = b[k]
  <2>1. CASE k <= Len(new)
    <3>1. k \in 1 .. Len(new) /\ k \in 1 .. Len(m)
      BY <1>2, <1>4, <2>1
    <3> QED
      BY <1>3, <1>4, <1>5, <3>1
  <2>2. CASE k > Len(new)
    <3> DEFINE j == k - Len(new)
    <3>1. j \in 1 .. Len(q) - Len(old) /\ k = Len(new) + j /\ Len(old) + j \in 1 .. Len(q)
      BY <1>1, <1>2, <1>3, <2>2
    <3>2. a[k] = q[Len(old) + j]
      BY <1>3, <3>1
    <3>3. CASE Len(old) + j = Len(p) + 1
      <4>1. k = Len(m) + 1
        BY <1>1, <1>2, <1>4, <3>1, <3>3
      <4> QED
        BY <1>1, <1>5, <3>2, <3>3, <4>1
    <3>4. CASE Len(old) + j # Len(p) + 1
      <4>1. j \in 1 .. Len(p) - Len(old) /\ k \in 1 .. Len(m) /\ Len(old) + j \in 1 .. Len(p)
        BY <1>1, <1>2, <1>4, <3>1, <3>4
      <4>2. m[Len(new) + j] = p[Len(old) + j]
        BY <1>4, <4>1
      <4> QED
        BY <1>1, <1>5, <3>1, <3>2, <4>1, <4>2
    <3> QED
      BY <3>3, <3>4
  <2> QED
    BY <1>2, <2>1, <2>2
<1>8. a = b
  BY <1>3, <1>5, <1>6, <1>7, SameSeq
<1> QED
  BY <1>8 DEF a, b, m, q

\* Two paths that old begins do not fall together.
LEMMA MovedApart ==
    ASSUME NEW old, IsSeq(old), NEW new, IsSeq(new), NEW p, IsSeq(p), IsPrefix(old, p),
           NEW q, IsSeq(q), IsPrefix(old, q), Moved(p, old, new) = Moved(q, old, new)
    PROVE  p = q
<1> DEFINE a == Moved(p, old, new)
           b == Moved(q, old, new)
<1>1. /\ Len(old) \in Nat /\ Len(new) \in Nat /\ Len(p) \in Nat /\ Len(q) \in Nat
      /\ Len(old) <= Len(p) /\ \A k \in 1 .. Len(old) : p[k] = old[k]
      /\ Len(old) <= Len(q) /\ \A k \in 1 .. Len(old) : q[k] = old[k]
  <2>1. Len(old) \in Nat /\ Len(new) \in Nat /\ Len(p) \in Nat /\ Len(q) \in Nat
    BY DEF IsSeq
  <2>2. Len(old) <= Len(p) /\ \A k \in 1 .. Len(old) : p[k] = old[k]
    BY PrefixIs
  <2>3. Len(old) <= Len(q) /\ \A k \in 1 .. Len(old) : q[k] = old[k]
    BY PrefixIs
  <2> QED
    BY <2>1, <2>2, <2>3
<1>2. /\ Len(a) = Len(new) + (Len(p) - Len(old))
      /\ \A k \in 1 .. Len(p) - Len(old) : a[Len(new) + k] = p[Len(old) + k]
  <2>1. Shifted(a, p, old, new)
    BY <1>1, MovedIs
  <2> HIDE DEF a
  <2> QED
    BY <2>1 DEF Shifted
<1>3. /\ Len(b) = Len(new) + (Len(q) - Len(old))
      /\ \A k \in 1 .. Len(q) - Len(old) : b[Len(new) + k] = q[Len(old) + k]
  <2>1. Shifted(b, q, old, new)
    BY <1>1, MovedIs
  <2> HIDE DEF b
  <2> QED
    BY <2>1 DEF Shifted
<1>4. a = b
  OBVIOUS
<1> HIDE DEF a, b
<1>5. Len(p) = Len(q)
  BY <1>1, <1>2, <1>3, <1>4
<1>6. ASSUME NEW k \in 1 .. Len(p) PROVE p[k] = q[k]
  <2>1. CASE k <= Len(old)
    BY <1>1, <2>1
  <2>2. CASE k > Len(old)
    <3> DEFINE j == k - Len(old)
    <3>1. j \in 1 .. Len(p) - Len(old) /\ k = Len(old) + j
      BY <1>1, <2>2
    <3>2. a[Len(new) + j] = p[Len(old) + j]
      BY <1>2, <3>1
    <3>3. b[Len(new) + j] = q[Len(old) + j]
      BY <1>3, <1>5, <3>1
    <3> QED
      BY <1>4, <3>1, <3>2, <3>3
  <2> QED
    BY <1>1, <2>1, <2>2
<1> QED
  BY <1>5, <1>6, SameSeq

\* The directory at position i of h is now at position j of g, under a free name.
Moves(tb, tb2, pt, h, i, g, j) ==
    /\ IsDir(tb, h, i) /\ IsDir(tb2, g, j) /\ tb2[g][j].clust = tb[h][i].clust
    /\ ~Listed(tb, g, j) /\ ~Listed(tb2, h, i)
    /\ DOMAIN tb2 = DOMAIN tb /\ Sane(tb2)
    /\ \A a, k : ~(a = h /\ k = i) /\ ~(a = g /\ k = j) => SameSpot(tb, tb2, a, k)
    /\ \A k : Listed(tb, g, k) /\ NameAt(tb[g], k) = NameAt(tb2[g], j) => g = h /\ k = i
    /\ ~IsPrefix(Path(tb, pt, h, i), pt[g])

Repath(tb, pt, pt2, old, new) ==
    \A k \in DOMAIN tb : pt2[k] = IF IsPrefix(old, pt[k]) THEN Moved(pt[k], old, new) ELSE pt[k]

\* A prefix is a start.
LEMMA PrefixStart ==
    ASSUME NEW s, IsSeq(s), NEW p, IsSeq(p), IsPrefix(s, p)
    PROVE  Len(s) \in 0 .. Len(p) /\ SubSeq(p, 1, Len(s)) = s
<1>1. Len(p) \in Nat /\ Len(s) \in Nat
  BY DEF IsSeq
<1>2. Len(s) <= Len(p) /\ \A k \in 1 .. Len(s) : p[k] = s[k]
  BY PrefixIs
<1>3. Len(s) \in 0 .. Len(p)
  BY <1>1, <1>2
<1>4. /\ IsSeq(SubSeq(p, 1, Len(s))) /\ Len(SubSeq(p, 1, Len(s))) = Len(s)
      /\ \A k \in 1 .. Len(s) : SubSeq(p, 1, Len(s))[k] = p[k]
  BY <1>3, StartIs
<1>5. SubSeq(p, 1, Len(s)) = s
  BY <1>2, <1>4, SameSeq
<1> QED
  BY <1>3, <1>5

\* What is where an entry can be in the new tables was there or is the one that moved.
LEMMA MovesIs ==
    ASSUME NEW tb, NEW tb2, NEW pt, NEW h, NEW i, NEW g, NEW j, Moves(tb, tb2, pt, h, i, g, j),
           NEW a, NEW k, Listed(tb2, a, k)
    PROVE  \/ a = g /\ k = j
           \/ /\ ~(a = h /\ k = i) /\ ~(a = g /\ k = j) /\ Listed(tb, a, k) /\ SameSpot(tb, tb2, a, k)
              /\ NameAt(tb2[a], k) = NameAt(tb[a], k)
BY DEF Moves, SameSpot

\* No directory lies where the one that moves will.
LEMMA NoneBelow ==
    ASSUME NEW tb, NEW tb2, NEW pt, Tree(tb, pt), NEW h, NEW i, NEW g, NEW j,
           Moves(tb, tb2, pt, h, i, g, j),
           NEW old, old = Path(tb, pt, h, i), NEW new, new = Append(pt[g], NameAt(tb2[g], j)),
           NEW b \in DOMAIN tb, ~IsPrefix(old, pt[b]), IsSeq(new), IsSeq(old)
    PROVE  ~IsPrefix(new, pt[b])
<1> SUFFICES ASSUME IsPrefix(new, pt[b]) PROVE FALSE
  OBVIOUS
<1>1. TreeForm(tb, pt) /\ IsSeq(pt[b]) /\ g \in DOMAIN tb /\ IsSeq(pt[g])
  <2>1. TreeForm(tb, pt)
    BY TreeIs
  <2>2. g \in DOMAIN tb
    BY DEF Moves, IsDir, Listed
  <2> QED
    BY <2>1, <2>2 DEF TreeForm
<1> DEFINE p == pt[b]
           q == pt[g]
           n == NameAt(tb2[g], j)
<1>2. Len(new) \in 0 .. Len(p) /\ SubSeq(p, 1, Len(new)) = new
  BY <1>1, PrefixStart
<1>3. PICK e \in DOMAIN tb : pt[e] = SubSeq(p, 1, Len(new))
  BY <1>2, StartsToo
<1>5. pt[e] = new
  BY <1>2, <1>3
<1>6. PICK k : Listed(tb, g, k) /\ NameAt(tb[g], k) = n
  <2> SUFFICES ASSUME \A k : Listed(tb, g, k) => NameAt(tb[g], k) # n PROVE FALSE
    OBVIOUS
  <2>1. new = Append(pt[g], n)
    OBVIOUS
  <2> HIDE DEF n
  <2>2. pt[e] # Append(pt[g], n)
    BY <1>1, NoneThere
  <2> QED
    BY <1>5, <2>1, <2>2
<1>7. g = h /\ k = i
  BY <1>6 DEF Moves
<1>8. new = old
  BY <1>6, <1>7 DEF Path
<1> QED
  BY <1>8

\* A directory that moves takes the paths of what is below it along.
LEMMA TreeMoves ==
    ASSUME NEW tb, NEW tb2, NEW pt, Tree(tb, pt), NEW h, NEW i, NEW g, NEW j,
           Moves(tb, tb2, pt, h, i, g, j),
           NEW old, old = Path(tb, pt, h, i), NEW new, new = Append(pt[g], NameAt(tb2[g], j)),
           NEW pt2, Repath(tb, pt, pt2, old, new)
    PROVE  Tree(tb2, pt2) /\ IsSeq(old) /\ IsSeq(new)
<1> DEFINE c == tb[h][i].clust
           Below(k) == IsPrefix(old, pt[k])
           n == NameAt(tb2[g], j)
<1>1. /\ TreeForm(tb, pt) /\ \A k \in DOMAIN tb : IsSeq(pt[k])
      /\ g \in DOMAIN tb /\ h \in DOMAIN tb /\ DOMAIN tb2 = DOMAIN tb /\ Listed(tb, h, i)
      /\ c \in DOMAIN tb /\ c # Root /\ pt[c] = old
  <2>1. TreeForm(tb, pt)
    BY TreeIs
  <2>2. g \in DOMAIN tb /\ h \in DOMAIN tb /\ DOMAIN tb2 = DOMAIN tb /\ Listed(tb, h, i)
    BY DEF Moves, IsDir, Listed
  <2>3. IsDir(tb, h, i)
    BY DEF Moves
  <2> QED
    BY <2>1, <2>2, <2>3 DEF TreeForm
<1>2. /\ IsSeq(old) /\ IsSeq(new) /\ Len(old) \in Nat /\ Len(old) # 0
  <2>1. IsSeq(old) /\ Len(old) = Len(pt[h]) + 1 /\ Len(pt[h]) \in Nat
    BY <1>1, PathIs
  <2>2. IsSeq(new)
    <3>1. new = Append(pt[g], n)
      OBVIOUS
    <3> HIDE DEF n
    <3> QED
      BY <1>1, <3>1, AppendIs
  <2> QED
    BY <2>1, <2>2
<1>3. ASSUME NEW k \in DOMAIN tb
      PROVE  /\ Below(k) => /\ pt2[k] = Moved(pt[k], old, new) /\ IsSeq(pt2[k]) /\ IsPrefix(new, pt2[k])
             /\ ~Below(k) => pt2[k] = pt[k]
  <2>1. pt2[k] = IF Below(k) THEN Moved(pt[k], old, new) ELSE pt[k]
    BY DEF Repath
  <2>2. ASSUME Below(k) PROVE IsSeq(Moved(pt[k], old, new)) /\ IsPrefix(new, Moved(pt[k], old, new))
    <3> DEFINE p == pt[k]
               m == Moved(p, old, new)
    <3>1. IsSeq(p) /\ IsPrefix(old, p) /\ Len(p) \in Nat /\ Len(new) \in Nat
      BY <1>1, <1>2, <2>2 DEF IsSeq
    <3> HIDE DEF p
    <3>2. Len(old) <= Len(p)
      BY <1>2, <3>1, PrefixIs
    <3>3. Shifted(m, p, old, new)
      BY <1>2, <3>1, <3>2, MovedIs
    <3> HIDE DEF m
    <3>4. IsSeq(m) /\ Len(new) <= Len(m) /\ \A x \in 1 .. Len(new) : m[x] = new[x]
      BY <1>2, <3>1, <3>2, <3>3 DEF Shifted
    <3>5. IsPrefix(new, m)
      BY <1>2, <3>4, PrefixIs
    <3> QED
      BY <3>4, <3>5 DEF m, p
  <2> QED
    BY <2>1, <2>2
<1>4. ~Below(Root)
  <2>1. pt[Root] = <<>> /\ Root \in DOMAIN tb /\ IsSeq(pt[Root])
    BY <1>1 DEF TreeForm
  <2>2. Len(pt[Root]) = 0
    BY <2>1
  <2>3. ~(Len(old) <= Len(pt[Root]))
    BY <1>2, <2>2
  <2> QED
    BY <1>2, <2>1, <2>3, PrefixIs
<1>5. pt2[g] = pt[g] /\ pt2[c] = new
  <2>1. ~Below(g)
    BY DEF Moves
  <2>2. Below(c)
    <3>1. Len(old) <= Len(old)
      BY <1>2
    <3> QED
      BY <1>1, <1>2, <3>1, PrefixIs
  <2>3. Moved(old, old, new) = new
    BY <1>2, MovedSelf
  <2> QED
    BY <1>1, <1>3, <2>1, <2>2, <2>3
<1>6. ASSUME NEW a, NEW k, IsDir(tb, a, k), ~(a = h /\ k = i)
      PROVE  pt2[tb[a][k].clust] = Append(pt2[a], NameAt(tb[a], k))
  <2> DEFINE d == tb[a][k].clust
             x == NameAt(tb[a], k)
             p == pt[a]
  <2>1. Listed(tb, a, k) /\ d \in DOMAIN tb /\ a \in DOMAIN tb /\ pt[d] = Append(p, x) /\ pt[d] = Path(tb, pt, a, k)
    BY <1>1, <1>6 DEF TreeForm, IsDir, Listed, Path
  <2>2. old # pt[d]
    <3> SUFFICES ASSUME old = pt[d] PROVE FALSE
      OBVIOUS
    <3>1. Path(tb, pt, a, k) = Path(tb, pt, h, i)
      BY <2>1
    <3> QED
      BY <1>1, <1>6, <2>1, <3>1, PathsApart
  <2>3. IsSeq(p)
    BY <1>1, <2>1
  <2>4. Below(a) <=> IsPrefix(old, p)
    OBVIOUS
  <2>5. Below(d) <=> IsPrefix(old, Append(p, x))
    BY <2>1
  <2> HIDE DEF x, p, d
  <2>6. IsPrefix(old, Append(p, x)) <=> IsPrefix(old, p)
    <3>1. IsPrefix(old, Append(p, x)) <=> IsPrefix(old, p) \/ old = Append(p, x)
      BY <1>2, <2>3, PrefixNext
    <3>2. old # Append(p, x)
      BY <2>1, <2>2
    <3> QED
      BY <3>1, <3>2
  <2>7. CASE Below(a)
    <3>1. pt2[a] = Moved(p, old, new) /\ pt2[d] = Moved(Append(p, x), old, new)
      BY <1>3, <2>1, <2>4, <2>5, <2>6, <2>7 DEF p
    <3>2. Moved(Append(p, x), old, new) = Append(Moved(p, old, new), x)
      BY <1>2, <2>3, <2>4, <2>7, MovedNext
    <3> QED
      BY <3>1, <3>2 DEF d, x
  <2>8. CASE ~Below(a)
    <3>1. pt2[a] = p /\ pt2[d] = Append(p, x)
      BY <1>3, <2>1, <2>4, <2>5, <2>6, <2>8 DEF p
    <3> QED
      BY <3>1 DEF d, x
  <2> QED
    BY <2>7, <2>8
<1> HIDE DEF c, n
<1>7. ASSUME NEW a, NEW k, IsDir(tb2, a, k)
      PROVE  /\ tb2[a][k].clust \in DOMAIN tb2 /\ tb2[a][k].clust # Root
             /\ pt2[tb2[a][k].clust] = Path(tb2, pt2, a, k)
  <2>1. CASE a = g /\ k = j
    <3>1. tb2[a][k].clust = c
      BY <2>1 DEF Moves, c
    <3> QED
      BY <1>1, <1>5, <2>1, <3>1 DEF Path
  <2>2. CASE ~(a = g /\ k = j)
    <3>1. Listed(tb2, a, k)
      BY <1>7 DEF IsDir
    <3>2. ~(a = h /\ k = i) /\ SameSpot(tb, tb2, a, k)
      BY <2>2, <3>1, MovesIs
    <3>3. IsDir(tb, a, k) /\ tb2[a][k] = tb[a][k] /\ NameAt(tb2[a], k) = NameAt(tb[a], k)
      BY <1>7, <3>2 DEF SameSpot, IsDir
    <3>4. tb[a][k].clust \in DOMAIN tb /\ tb[a][k].clust # Root
      BY <1>1, <3>3 DEF TreeForm
    <3> QED
      BY <1>1, <1>6, <3>2, <3>3, <3>4 DEF Path
  <2> QED
    BY <2>1, <2>2
<1>8. ASSUME NEW a, NEW k, NEW l, Listed(tb2, a, k), Listed(tb2, a, l), NameAt(tb2[a], k) = NameAt(tb2[a], l)
      PROVE  k = l
  <2>1. ASSUME NEW l2, Listed(tb2, g, l2), NameAt(tb2[g], l2) = NameAt(tb2[g], j), l2 # j PROVE FALSE
    <3>1. ~(g = h /\ l2 = i) /\ Listed(tb, g, l2) /\ NameAt(tb2[g], l2) = NameAt(tb[g], l2)
      BY <2>1, MovesIs
    <3> QED
      BY <2>1, <3>1 DEF Moves
  <2>2. CASE a = g /\ (k = j \/ l = j)
    BY <1>8, <2>1, <2>2
  <2>3. CASE ~(a = g /\ (k = j \/ l = j))
    <3>1. Listed(tb, a, k) /\ NameAt(tb2[a], k) = NameAt(tb[a], k)
      BY <1>8, <2>3, MovesIs
    <3>2. Listed(tb, a, l) /\ NameAt(tb2[a], l) = NameAt(tb[a], l)
      BY <1>8, <2>3, MovesIs
    <3> QED
      BY <1>1, <1>8, <3>1, <3>2 DEF TreeForm
  <2> QED
    BY <2>2, <2>3
<1>9. ASSUME NEW a \in DOMAIN tb2, a # Root PROVE \E b, k : IsDir(tb2, b, k) /\ tb2[b][k].clust = a
  <2>1. PICK b, k : IsDir(tb, b, k) /\ tb[b][k].clust = a
    BY <1>1, <1>9 DEF TreeForm
  <2>2. CASE b = h /\ k = i
    BY <2>1, <2>2 DEF Moves
  <2>3. CASE ~(b = h /\ k = i)
    <3>1. ~(b = g /\ k = j)
      BY <2>1 DEF Moves, IsDir
    <3>2. SameSpot(tb, tb2, b, k)
      BY <2>3, <3>1 DEF Moves
    <3>3. IsDir(tb2, b, k) /\ tb2[b][k] = tb[b][k]
      BY <2>1, <3>2 DEF SameSpot, IsDir
    <3> QED
      BY <2>1, <3>3
  <2> QED
    BY <2>2, <2>3
<1>10. ASSUME NEW a \in DOMAIN tb, NEW b \in DOMAIN tb, pt2[a] = pt2[b] PROVE a = b
  <2>1. ASSUME NEW e \in DOMAIN tb, NEW f \in DOMAIN tb, Below(e), ~Below(f), pt2[e] = pt2[f] PROVE FALSE
    <3>1. IsPrefix(new, pt[f])
      BY <1>3, <2>1
    <3>2. ~IsPrefix(old, pt[f]) /\ new = Append(pt[g], NameAt(tb2[g], j))
      BY <2>1
    <3>3. ~IsPrefix(new, pt[f])
      BY <1>2, <3>2, NoneBelow
    <3> QED
      BY <3>1, <3>3
  <2>2. CASE Below(a) /\ Below(b)
    <3>1. Moved(pt[a], old, new) = Moved(pt[b], old, new)
      BY <1>3, <1>10, <2>2
    <3>2. pt[a] = pt[b]
      BY <1>1, <1>2, <2>2, <3>1, MovedApart
    <3> QED
      BY <1>1, <3>2 DEF TreeForm
  <2>3. CASE ~Below(a) /\ ~Below(b)
    <3>1. pt[a] = pt[b]
      BY <1>3, <1>10, <2>3
    <3> QED
      BY <1>1, <3>1 DEF TreeForm
  <2> QED
    BY <1>10, <2>1, <2>2, <2>3
<1>11. /\ Root \in DOMAIN tb2 /\ pt2[Root] = <<>> /\ Sane(tb2)
       /\ \A a \in DOMAIN tb2 : IsSeq(pt2[a])
  <2>1. Root \in DOMAIN tb /\ pt[Root] = <<>>
    BY <1>1 DEF TreeForm
  <2>2. Sane(tb2)
    BY DEF Moves
  <2> QED
    BY <1>1, <1>3, <1>4, <2>1, <2>2
<1>12. TreeForm(tb2, pt2)
  BY <1>1, <1>7, <1>8, <1>9, <1>10, <1>11 DEF TreeForm
<1> QED
  BY <1>2, <1>12, TreeIs

-----------------------------------------------------------------------------
(* follow_path.                                                            *)

\* After k names of the path p the search F stands in the directory at h.
FoundAt(F, ch, tb, pt, p, k, h) ==
    /\ h \in DOMAIN tb /\ F.dc = (IF h = Root THEN 0 ELSE h) /\ F.chain = ch[h]
    /\ pt[h] = SubSeq(p, 1, k - 1)
    /\ F.res = "OK" => Hit(tb[h], F.pos, F.blk, p[k])
    /\ F.res = "NO_FILE" => \A i : Listed(tb, h, i) => NameAt(tb[h], i) # p[k]

Follows(vol, ch, tb, pt, p, F, k) ==
    /\ "s" \in DOMAIN F /\ "res" \in DOMAIN F /\ F.s.vol = vol
    /\ F.res \in {"OK", "NO_FILE", "NO_PATH"}
    /\ k = 0 => F.res = "OK"
    /\ F.res = "NO_FILE" => k = Len(p)
    /\ k # 0 /\ F.res # "NO_PATH" => \E h : FoundAt(F, ch, tb, pt, p, k, h)

\* F has found the object of name n in the directory at h.
Reached(F, ch, tb, h, n) ==
    h \in DOMAIN tb /\ F.chain = ch[h] /\ Hit(tb[h], F.pos, F.blk, n)

\* This is what Entry shows.
IsEntry(F, ch, tb, h, n) ==
    /\ Listed(tb, h, F.pos) /\ Entry(F) = tb[h][F.pos] /\ NameAt(tb[h], F.pos) = n
    /\ At(F.pos) \in 1 .. Len(ch[h]) /\ F.pos \in 1 .. Len(tb[h]) /\ F.pos # 0

\* Entry is the object the search has hit.
LEMMA EntryIs ==
    ASSUME NEW F, NEW ch, NEW tb, Stored(F.s.vol, ch, tb), NEW h, NEW n, Reached(F, ch, tb, h, n)
    PROVE  IsEntry(F, ch, tb, h, n)
<1>1. /\ F.pos \in 1 .. Len(tb[h]) /\ tb[h][F.pos].k = "sfn" /\ NameAt(tb[h], F.pos) = n
      /\ h \in DOMAIN tb /\ F.chain = ch[h]
  BY DEF Hit, Reached
<1>2. /\ At(F.pos) \in 1 .. Len(ch[h]) /\ F.pos \in Nat \ {0}
      /\ tb[h][F.pos] = F.s.vol[Data(ch[h][At(F.pos)])].tab[In(F.pos)]
  BY <1>1, TableIs
<1> QED
  BY <1>1, <1>2 DEF Listed, Entry, IsEntry

\* What dir_find finds in the directory at h.
DirFound(D, vol, ch, tb, h, dc, n) ==
    /\ D.s.vol = vol /\ D.dc = dc /\ D.chain = ch[h]
    /\ IF D.pos = 0 THEN \A i \in 1 .. Len(tb[h]) : tb[h][i].k = "sfn" => NameAt(tb[h], i) # n
       ELSE Hit(tb[h], D.pos, D.blk, n)

\* DirFindIs, as one predicate.
LEMMA DirFinds ==
    ASSUME NEW d, NEW gone, NEW S, Window(d, gone, S), NEW ch, NEW tb, Stored(S.vol, ch, tb),
           NEW h \in DOMAIN tb, WellFormed(tb[h]), NEW dc, h = (IF dc = 0 THEN Root ELSE dc), NEW n
    PROVE  DirFound(dir_find(S, dc, n), S.vol, ch, tb, h, dc, n)
<1> DEFINE D == dir_find(S, dc, n)
<1>1. /\ D.s.vol = S.vol /\ D.dc = dc /\ D.chain = ch[h]
      /\ IF D.pos = 0 THEN \A i \in 1 .. Len(tb[h]) : tb[h][i].k = "sfn" => NameAt(tb[h], i) # n
         ELSE Hit(tb[h], D.pos, D.blk, n)
  <2>1. D = dir_find(S, dc, n)
    OBVIOUS
  <2> HIDE DEF D
  <2> QED
    BY <2>1, DirFindIs
<1> QED
  BY <1>1 DEF DirFound

\* One name further.
LEMMA FollowOn ==
    ASSUME NEW d, NEW gone, NEW S, Window(d, gone, S), NEW ch, NEW tb, Stored(S.vol, ch, tb),
           NEW pt, Tree(tb, pt), NEW p, IsSeq(p), NEW k \in 1 .. Len(p),
           NEW h \in DOMAIN tb, pt[h] = SubSeq(p, 1, k - 1),
           NEW dc, dc = (IF h = Root THEN 0 ELSE h),
           NEW D, D = dir_find(S, dc, p[k]), NEW F, F = Found(D, k = Len(p))
    PROVE  Follows(S.vol, ch, tb, pt, p, F, k)
<1>0. TreeForm(tb, pt)
  BY TreeIs
<1>1. Sane(tb) /\ h \in Cluster
  <2>1. h \in DOMAIN ch /\ ch[h] \in Seq(Cluster) /\ ch[h][1] = h /\ Len(ch[h]) \in Nat \ {0}
    BY TableIs
  <2>2. 1 \in 1 .. Len(ch[h])
    BY <2>1
  <2> QED
    BY <1>0, <2>1, <2>2 DEF TreeForm
<1>2. h = (IF dc = 0 THEN Root ELSE dc) /\ WellFormed(tb[h])
  <2>1. h # 0
    BY <1>1 DEF Cluster
  <2> QED
    BY <1>1, <2>1 DEF Sane
<1>3. /\ D.s.vol = S.vol /\ D.dc = dc /\ D.chain = ch[h]
      /\ IF D.pos = 0 THEN \A i \in 1 .. Len(tb[h]) : tb[h][i].k = "sfn" => NameAt(tb[h], i) # p[k]
         ELSE Hit(tb[h], D.pos, D.blk, p[k])
  <2>1. DirFound(D, S.vol, ch, tb, h, dc, p[k])
    BY <1>2, DirFinds
  <2> QED
    BY <2>1 DEF DirFound
<1>4. /\ F.s = D.s /\ F.dc = D.dc /\ F.chain = D.chain /\ F.pos = D.pos /\ F.blk = D.blk
      /\ F.res = (IF D.pos # 0 THEN "OK" ELSE IF k = Len(p) THEN "NO_FILE" ELSE "NO_PATH")
      /\ "s" \in DOMAIN F /\ "res" \in DOMAIN F
  BY DEF Found
<1>5. FoundAt(F, ch, tb, pt, p, k, h)
  <2>1. F.res = "OK" => Hit(tb[h], F.pos, F.blk, p[k])
    BY <1>3, <1>4
  <2>2. ASSUME F.res = "NO_FILE", NEW i, Listed(tb, h, i) PROVE NameAt(tb[h], i) # p[k]
    <3>1. D.pos = 0
      BY <1>4, <2>2
    <3> QED
      BY <1>3, <2>2, <3>1 DEF Listed
  <2> QED
    BY <1>3, <1>4, <2>1, <2>2 DEF FoundAt
<1>6. k # 0 /\ k \in Nat
  BY DEF IsSeq
<1> QED
  BY <1>3, <1>4, <1>5, <1>6 DEF Follows

\* follow_path finds the object of the path, or where it would be.
Ended(d, gone, vol, ch, tb, pt, p, F) ==
    /\ Window(d, gone, F.s) /\ F.s.vol = vol /\ F.res \in {"OK", "NO_FILE", "NO_PATH"}
    /\ F.res # "NO_PATH" => \E h : FoundAt(F, ch, tb, pt, p, Len(p), h)

\* follow_path finds the object that has the path p, or the directory it would be in, or neither
\* exists.
LEMMA FollowIs ==
    ASSUME NEW d, NEW gone, NEW S, Window(d, gone, S), NEW ch, NEW tb, Stored(S.vol, ch, tb),
           NEW pt, Tree(tb, pt), NEW p, IsSeq(p), p # <<>>
    PROVE  Ended(d, gone, S.vol, ch, tb, pt, p, follow_path(S, p))
<1> DEFINE loop == [name |-> "follow_path", p |-> p]
           turns == Len(p)
           s0 == [s |-> S, res |-> "OK"]
           Step(T, k) ==
               Follow(T, k, p)
           G(g) == g = [k \in 0 .. turns |-> IF k = 0 THEN s0 ELSE Step(g[k - 1], k)]
           Good(T, k) == Follows(S.vol, ch, tb, pt, p, T, k) /\ Window(d, gone, T.s)
           Q(g) == {k \in Nat : Good(g[k], k)}
<1>0. TreeForm(tb, pt)
  BY TreeIs
<1>1. turns \in Nat /\ turns # 0
  BY UpIs
<1>2. \A T, k : Turn(loop, T, k) = Step(T, k)
  BY DEF Turn
<1>3. Good(s0, 0)
  <2>1. s0.s = S /\ s0.res = "OK" /\ "s" \in DOMAIN s0 /\ "res" \in DOMAIN s0
    OBVIOUS
  <2> HIDE DEF s0
  <2> QED
    BY <2>1 DEF Follows
<1>4. ASSUME NEW T, NEW k \in 1 .. turns, Good(T, k - 1) PROVE Good(Step(T, k), k)
  <2>0. "s" \in DOMAIN T /\ "res" \in DOMAIN T /\ T.s.vol = S.vol /\ Window(d, gone, T.s)
    BY <1>4 DEF Follows
  <2>1. Window(d, gone, Step(T, k).s)
    BY <2>0, FollowKeeps
  <2>2. CASE T.res # "OK"
    <3>1. Follow(T, k, p) = T /\ T.res \in {"NO_FILE", "NO_PATH"} /\ k - 1 # turns
      BY <1>1, <1>4, <2>2 DEF Follow, Follows
    <3>2. T.res = "NO_PATH" /\ k # 0
      BY <1>1, <1>4, <3>1 DEF Follows
    <3>3. Follows(S.vol, ch, tb, pt, p, T, k)
      BY <2>0, <3>2 DEF Follows
    <3> QED
      BY <2>0, <3>1, <3>3
  <2>3. CASE T.res = "OK" /\ k = 1
    <3>1. Follow(T, k, p) = Found(dir_find(T.s, 0, p[k]), k = Len(p))
      BY <2>3 DEF Follow
    <3>2. Root \in DOMAIN tb /\ pt[Root] = SubSeq(p, 1, k - 1) /\ k - 1 = 0
      <4>1. 1 \in 1 .. Len(p)
        BY <1>1
      <4>2. SubSeq(p, 1, 0) = <<>>
        BY <4>1, NextStart
      <4> QED
        BY <1>0, <2>3, <4>2 DEF TreeForm
    <3>3. Follows(T.s.vol, ch, tb, pt, p, Found(dir_find(T.s, 0, p[k]), k = Len(p)), k)
      <4>1. Stored(T.s.vol, ch, tb)
        BY <2>0
      <4> QED
        BY <2>0, <3>2, <4>1, FollowOn
    <3> QED
      BY <2>0, <2>1, <3>1, <3>3
  <2>4. CASE T.res = "OK" /\ k # 1
    <3>1. PICK h : FoundAt(T, ch, tb, pt, p, k - 1, h)
      BY <1>1, <1>4, <2>4 DEF Follows
    <3>2. k - 1 \in 1 .. Len(p) /\ k \in Nat
      BY <1>1, <2>4
    <3>3. Hit(tb[h], T.pos, T.blk, p[k - 1]) /\ h \in DOMAIN tb /\ T.chain = ch[h]
          /\ pt[h] = SubSeq(p, 1, k - 1 - 1)
      BY <2>4, <3>1 DEF FoundAt
    <3>4. Listed(tb, h, T.pos) /\ Entry(T) = tb[h][T.pos] /\ NameAt(tb[h], T.pos) = p[k - 1]
      <4>1. Reached(T, ch, tb, h, p[k - 1]) /\ Stored(T.s.vol, ch, tb)
        BY <2>0, <3>3 DEF Reached
      <4>2. IsEntry(T, ch, tb, h, p[k - 1])
        BY <4>1, EntryIs
      <4> QED
        BY <4>2 DEF IsEntry
    <3>5. CASE ~Entry(T).dir
      <4> DEFINE R == [T EXCEPT !.res = "NO_PATH"]
      <4>1. Follow(T, k, p) = R
        BY <2>4, <3>5 DEF Follow
      <4>2. R.res = "NO_PATH" /\ R.s = T.s /\ DOMAIN R = DOMAIN T
        BY <2>0
      <4> HIDE DEF R
      <4>3. Follows(S.vol, ch, tb, pt, p, R, k)
        BY <2>0, <3>2, <4>2 DEF Follows
      <4> QED
        BY <2>0, <4>1, <4>2, <4>3
    <3>6. CASE Entry(T).dir
      <4> DEFINE c == Entry(T).clust
      <4>1. Follow(T, k, p) = Found(dir_find(T.s, c, p[k]), k = Len(p))
        BY <2>4, <3>6 DEF Follow
      <4>2. IsDir(tb, h, T.pos) /\ c = tb[h][T.pos].clust
        BY <3>4, <3>6 DEF IsDir
      <4>3. c \in DOMAIN tb /\ c # Root /\ pt[c] = Append(pt[h], p[k - 1])
        BY <1>0, <3>4, <4>2 DEF TreeForm, Path
      <4> HIDE DEF c
      <4>4. pt[c] = SubSeq(p, 1, k - 1)
        <5>1. Append(SubSeq(p, 1, k - 1 - 1), p[k - 1]) = SubSeq(p, 1, k - 1)
          BY <3>2, NextStart
        <5> QED
          BY <3>3, <4>3, <5>1
      <4>5. Follows(T.s.vol, ch, tb, pt, p, Found(dir_find(T.s, c, p[k]), k = Len(p)), k)
        <5>1. Stored(T.s.vol, ch, tb)
          BY <2>0
        <5>2. c = (IF c = Root THEN 0 ELSE c)
          BY <4>3
        <5> QED
          BY <2>0, <4>3, <4>4, <5>1, <5>2, FollowOn
      <4> QED
        BY <2>0, <2>1, <4>1, <4>5
    <3> QED
      BY <3>5, <3>6
  <2> QED
    BY <2>2, <2>3, <2>4
<1>5. follow_path(S, p) = (CHOOSE g : G(g))[turns]
  BY Zenon DEF follow_path, Loop
<1> HIDE DEF Step, s0, loop, turns, Good
<1>6. \E g : G(g)
  <2>1. PICK g : Run(loop, s0, turns, g)
    BY <1>1, RunExists
  <2>2. G(g)
    BY <2>1, <1>2 DEF Run
  <2> QED
    BY <2>2
<1>7. PICK g : G(g) /\ follow_path(S, p) = g[turns]
  BY <1>5, <1>6
<1>8. 0 \in Q(g)
  BY <1>1, <1>3, <1>7
<1>9. ASSUME NEW k \in 1 .. turns, k - 1 \in Q(g) PROVE k \in Q(g)
  <2>1. g[k] = Step(g[k - 1], k) /\ k \in Nat
    BY <1>1, <1>7
  <2>2. Good(g[k - 1], k - 1)
    BY <1>9
  <2> QED
    BY <2>1, <2>2, <1>4
<1>10. turns \in Q(g)
  <2> HIDE DEF Q
  <2> QED
    BY <1>1, <1>8, <1>9, Turns
<1> DEFINE F == follow_path(S, p)
<1>11. Good(F, turns)
  BY <1>7, <1>10
<1> HIDE DEF F
<1>12. Follows(S.vol, ch, tb, pt, p, F, Len(p)) /\ Window(d, gone, F.s) /\ Len(p) # 0
  BY <1>1, <1>11 DEF Good, turns
<1>13. Ended(d, gone, S.vol, ch, tb, pt, p, F)
  BY <1>12 DEF Follows, Ended
<1> QED
  BY <1>13 DEF F

-----------------------------------------------------------------------------
(* What the library leaves alone: the data of the clusters it does not write. *)

\* Only the sectors of the clusters X may have other data in w than in v.
Only(v, w, X) == \A c \in Cluster : c \notin X => w[Data(c)] = v[Data(c)]
OnIt(s) == {s[j] : j \in 1 .. Len(s)}

\* Changes add up.
LEMMA OnlyBoth ==
    ASSUME NEW u, NEW v, NEW w, NEW X, Only(u, v, X), Only(v, w, X)
    PROVE  Only(u, w, X)
BY DEF Only

\* What changes on X only changes on no more than a larger set.
LEMMA OnlyMore ==
    ASSUME NEW v, NEW w, NEW X, Only(v, w, X), NEW Y, X \subseteq Y
    PROVE  Only(v, w, Y)
BY DEF Only

\* What is not in the data area changes no data.
LEMMA OnlyAside ==
    ASSUME NEW v, NEW w, Aside(v, w), NEW X
    PROVE  Only(v, w, X)
BY DEF Only, Aside

\* create_chain changes the FAT, whatever cluster it is called with.
LEMMA CreateAside ==
    ASSUME NEW d, NEW gone, NEW S, Window(d, gone, S), Entries(S.vol), NEW c
    PROVE  Entries(create_chain(S, c).s.vol) /\ Aside(S.vol, create_chain(S, c).s.vol)
<1> DEFINE T == get_fat(S, c)
<1>0. \A v, w : w = v => Aside(v, w)
  BY DEF Aside
<1>1. Window(d, gone, T) /\ T.vol = S.vol
  BY GetFat
<1>2. ASSUME NEW U, Window(d, gone, U), U.vol = S.vol, c = 0 \/ (c \in Cluster /\ FatOf(U.vol, c) # 0)
      PROVE  Entries(Stretched(U, c).s.vol) /\ Aside(S.vol, Stretched(U, c).s.vol)
  <2> DEFINE R == Stretched(U, c)
  <2>1. R = Stretched(U, c) /\ Entries(U.vol)
    BY <1>2
  <2> HIDE DEF R
  <2>2. \/ R.n = 0 /\ R.s.vol = U.vol
        \/ Entries(R.s.vol) /\ Aside(U.vol, R.s.vol)
    BY <1>2, <2>1, StretchedIs
  <2> QED
    BY <1>0, <1>2, <2>1, <2>2
<1>3. CASE c = 0
  <2>1. create_chain(S, c).s = Stretched(S, c).s
    BY <1>3 DEF create_chain
  <2> QED
    BY <1>2, <1>3, <2>1
<1>4. CASE c # 0 /\ FatOf(S.vol, c) \notin {0, 1} \cup Cluster
  <2>1. create_chain(S, c).s = Stretched(T, c).s
    BY <1>4 DEF create_chain
  <2>2. c \in Cluster
    BY <1>4 DEF FatOf
  <2> HIDE DEF T
  <2> QED
    BY <1>1, <1>2, <1>4, <2>1, <2>2
<1>5. CASE c # 0 /\ FatOf(S.vol, c) \in {0, 1} \cup Cluster
  <2>1. create_chain(S, c).s = T
    BY <1>5 DEF create_chain
  <2> QED
    BY <1>0, <1>1, <2>1
<1> QED
  BY <1>3, <1>4, <1>5

\* PutSlot changes the cluster of its slot.
LEMMA PutOnly ==
    ASSUME NEW d, NEW gone, NEW S, Window(d, gone, S), NEW s, NEW i, NEW x
    PROVE  Only(S.vol, PutSlot(S, s, i, x).vol, {s[At(i)]})
<1> DEFINE c == s[At(i)]
           T == move_window(S, Data(c))
           y == [T.vol[T.sect] EXCEPT !.tab[In(i)] = x]
<1>1. PutSlot(S, s, i, x) = Dirty(T, y)
  BY DEF PutSlot
<1>2. Window(d, gone, T) /\ T.sect = Data(c) /\ T.vol = S.vol
  BY MoveWindow
<1>3. DOMAIN T = Fields /\ DOMAIN T.vol = Sector
  BY <1>2 DEF Window, Through
<1> HIDE DEF T, y
<1>4. Dirty(T, y).vol = [T.vol EXCEPT ![T.sect] = y]
  BY <1>3 DEF Dirty, Fields
<1> HIDE DEF c
<1>5. \A b \in Cluster : b # c => Data(b) # Data(c) /\ Data(b) \in Sector
  BY DEF Data, Sector
<1>6. \A b \in Cluster : b # c => [T.vol EXCEPT ![T.sect] = y][Data(b)] = T.vol[Data(b)]
  BY <1>2, <1>3, <1>5
<1>7. Only(S.vol, Dirty(T, y).vol, {c})
  BY <1>2, <1>4, <1>6 DEF Only
<1> QED
  BY <1>1, <1>7 DEF c

\* dir_remove changes the clusters of its slots.
LEMMA RemoveOnly ==
    ASSUME NEW d, NEW gone, NEW S, Window(d, gone, S), NEW D
    PROVE  Only(S.vol, dir_remove(S, D).vol, {D.chain[At(D.blk)], D.chain[At(D.pos)]})
<1> DEFINE X == {D.chain[At(D.blk)], D.chain[At(D.pos)]}
           del == [k |-> "del"]
           sdi == dir_sdi(S, D.chain, D.blk)
           first == PutSlot(sdi, D.chain, D.blk, del)
           next == IF In(D.pos) = 1 THEN get_fat(first, D.chain[At(D.blk)]) ELSE first
<1>1. dir_remove(S, D) = IF D.blk = D.pos THEN PutSlot(S, D.chain, D.pos, del)
                         ELSE PutSlot(next, D.chain, D.pos, del)
  BY DEF dir_remove
<1>2. Window(d, gone, sdi) /\ sdi.vol = S.vol
  BY DirSdi, WalkedKeeps DEF dir_sdi
<1>3. Window(d, gone, first) /\ Only(sdi.vol, first.vol, {D.chain[At(D.blk)]})
  <2> HIDE DEF sdi, del
  <2> QED
    BY <1>2, PutOnly, PutSlotKeeps
<1>4. Window(d, gone, next) /\ next.vol = first.vol
  <2> HIDE DEF first
  <2>1. Window(d, gone, get_fat(first, D.chain[At(D.blk)])) /\ get_fat(first, D.chain[At(D.blk)]).vol = first.vol
    BY <1>3, GetFat
  <2> QED
    BY <2>1, <1>3
<1> HIDE DEF next, first, sdi, del
<1>5. Only(next.vol, PutSlot(next, D.chain, D.pos, del).vol, {D.chain[At(D.pos)]})
  BY <1>4, PutOnly
<1>6. Only(S.vol, PutSlot(S, D.chain, D.pos, del).vol, {D.chain[At(D.pos)]})
  BY PutOnly
<1> QED
  BY <1>1, <1>2, <1>3, <1>4, <1>5, <1>6 DEF Only

\* dir_clear changes its cluster.
LEMMA ClearOnly ==
    ASSUME NEW d, NEW gone, NEW S, Window(d, gone, S), NEW c \in Cluster, Entries(S.vol)
    PROVE  Only(S.vol, dir_clear(S, c).vol, {c}) /\ Entries(dir_clear(S, c).vol)
<1>1. /\ dir_clear(S, c).vol = [S.vol EXCEPT ![Data(c)] = EmptyTable]
      /\ Data(c) \in DOMAIN S.vol
  BY ClearIs
<1>2. \A b \in Cluster : b # c => Data(b) # Data(c)
  BY DEF Data
<1>3. \A b \in Cluster : FatSec(b) # Data(c)
  BY Apart
<1>4. \A b \in Cluster : dir_clear(S, c).vol[FatSec(b)] = S.vol[FatSec(b)]
  BY <1>1, <1>3
<1> QED
  BY <1>1, <1>2, <1>4 DEF Only, Entries

\* What dir_alloc has done so far to a volume v.
Allocating(d, gone, v, A) ==
    /\ DOMAIN A = Places /\ Window(d, gone, A.s) /\ Entries(A.s.vol)
    /\ A.chain \in Seq(Cluster) /\ Only(v, A.s.vol, OnIt(A.chain))

\* A chain with one more cluster at its end.
LEMMA OnLonger ==
    ASSUME NEW s \in Seq(Cluster), NEW c \in Cluster
    PROVE  /\ Append(s, c) \in Seq(Cluster) /\ OnIt(s) \subseteq OnIt(Append(s, c)) /\ c \in OnIt(Append(s, c))
<1>1. /\ Len(s) \in Nat /\ Append(s, c) \in Seq(Cluster) /\ Len(Append(s, c)) = Len(s) + 1
      /\ Append(s, c)[Len(s) + 1] = c /\ \A j \in 1 .. Len(s) : Append(s, c)[j] = s[j]
  OBVIOUS
<1>2. \A j \in 1 .. Len(s) : j \in 1 .. Len(s) + 1
  BY <1>1
<1>3. Len(s) + 1 \in 1 .. Len(s) + 1
  BY <1>1
<1> QED
  BY <1>1, <1>2, <1>3, Zenon DEF OnIt

\* A step of dir_next keeps what dir_alloc has reached so far.
LEMMA NextAllocates ==
    ASSUME NEW d, NEW gone, NEW v, NEW A, Allocating(d, gone, v, A), NEW i
    PROVE  Allocating(d, gone, v, dir_next(A, i))
<1> DEFINE c == A.chain[At(i) - 1]
           T == get_fat(A.s, c)
           C == create_chain(T, c)
           M == [A EXCEPT !.s = T]
           N == [A EXCEPT !.s = C.s, !.full = TRUE]
           O == [A EXCEPT !.s = dir_clear(C.s, C.n), !.chain = Append(@, C.n), !.grown = TRUE]
<1>1. dir_next(A, i) \in {A, M, N} \/ (dir_next(A, i) = O /\ C.n \in Cluster)
  BY DEF dir_next, Stretch
<1>2. /\ DOMAIN A = Places /\ Window(d, gone, A.s) /\ Entries(A.s.vol)
      /\ A.chain \in Seq(Cluster) /\ Only(v, A.s.vol, OnIt(A.chain))
  BY DEF Allocating
<1>3. Window(d, gone, T) /\ T.vol = A.s.vol
  BY <1>2, GetFat
<1> HIDE DEF c, T
<1>4. Window(d, gone, C.s) /\ Entries(C.s.vol) /\ Aside(T.vol, C.s.vol)
  BY <1>2, <1>3, CreateChain, CreateAside
<1>5. Only(v, C.s.vol, OnIt(A.chain))
  BY <1>2, <1>3, <1>4, OnlyAside, OnlyBoth
<1> HIDE DEF C
<1>6. CASE dir_next(A, i) = A
  BY <1>6
<1>7. CASE dir_next(A, i) = M
  <2>1. DOMAIN M = Places /\ M.s = T /\ M.chain = A.chain
    BY <1>2 DEF Places
  <2> HIDE DEF M
  <2> QED
    BY <1>2, <1>3, <1>7, <2>1 DEF Allocating
<1>8. CASE dir_next(A, i) = N
  <2>1. DOMAIN N = Places /\ N.s = C.s /\ N.chain = A.chain
    BY <1>2 DEF Places
  <2> HIDE DEF N
  <2> QED
    BY <1>2, <1>4, <1>5, <1>8, <2>1 DEF Allocating
<1>9. CASE dir_next(A, i) = O /\ C.n \in Cluster
  <2>1. DOMAIN O = Places /\ O.s = dir_clear(C.s, C.n) /\ O.chain = Append(A.chain, C.n)
    BY <1>2 DEF Places
  <2> HIDE DEF O
  <2>2. /\ Append(A.chain, C.n) \in Seq(Cluster) /\ OnIt(A.chain) \subseteq OnIt(Append(A.chain, C.n))
        /\ C.n \in OnIt(Append(A.chain, C.n))
    BY <1>2, <1>9, OnLonger
  <2>3. Window(d, gone, dir_clear(C.s, C.n))
    BY <1>4, DirClear
  <2>4. Only(C.s.vol, dir_clear(C.s, C.n).vol, {C.n}) /\ Entries(dir_clear(C.s, C.n).vol)
    BY <1>4, <1>9, ClearOnly
  <2>5. Only(v, dir_clear(C.s, C.n).vol, OnIt(Append(A.chain, C.n)))
    BY <1>5, <2>2, <2>4 DEF Only
  <2> QED
    BY <1>9, <2>1, <2>2, <2>3, <2>4, <2>5 DEF Allocating
<1> QED
  BY <1>1, <1>6, <1>7, <1>8, <1>9

\* So does a look at one slot.
LEMMA ExaminedAllocates ==
    ASSUME NEW d, NEW gone, NEW v, NEW A, Allocating(d, gone, v, A), NEW i, NEW n
    PROVE  Allocating(d, gone, v, Examined(A, i, n))
<1> DEFINE S == move_window(A.s, Data(A.chain[At(i)]))
           run == IF S.vol[S.sect].tab[In(i)] \in Free THEN A.run + 1 ELSE 0
           N == [A EXCEPT !.s = S, !.run = run, !.pos = IF run = n THEN i ELSE 0]
<1>1. Examined(A, i, n) = IF A.full THEN A ELSE N
  BY DEF Examined
<1>2. DOMAIN A = Places /\ Window(d, gone, A.s)
  BY DEF Allocating
<1>3. Window(d, gone, S) /\ S.vol = A.s.vol
  BY <1>2, MoveWindow
<1> HIDE DEF S, run
<1>4. DOMAIN N = Places /\ N.s = S /\ N.chain = A.chain
  BY <1>2 DEF Places
<1> HIDE DEF N
<1>5. Allocating(d, gone, v, N)
  BY <1>3, <1>4 DEF Allocating
<1> QED
  BY <1>1, <1>5

\* dir_alloc changes the clusters of its table.
LEMMA AllocOnly ==
    ASSUME NEW d, NEW gone, NEW S, Window(d, gone, S), Entries(S.vol), NEW chain \in Seq(Cluster), NEW n,
           NEW A, A = dir_alloc(S, chain, n)
    PROVE  Allocating(d, gone, S.vol, A)
<1> DEFINE loop == [name |-> "dir_alloc", n |-> n]
           turns == Top * SPS
           s0 == [s |-> S, chain |-> chain, run |-> 0, pos |-> 0, grown |-> FALSE, full |-> FALSE]
           F(T, k) ==
               IF T.full \/ T.pos # 0 THEN T ELSE Examined(dir_next(T, k), k, n)
           G(g) == g = [k \in 0 .. turns |-> IF k = 0 THEN s0 ELSE F(g[k - 1], k)]
           Fine(T) == Allocating(d, gone, S.vol, T)
           Q(g) == {k \in Nat : Fine(g[k])}
<1>1. turns \in Nat
  BY Sizes
<1>2. \A T, k : Turn(loop, T, k) = F(T, k)
  BY DEF Turn
<1>3. Fine(s0)
  BY DEF Places, Allocating, Only
<1>4. ASSUME NEW T, NEW k, Fine(T) PROVE Fine(F(T, k))
  <2>1. Fine(Examined(dir_next(T, k), k, n))
    <3> HIDE DEF F
    <3> QED
      BY <1>4, NextAllocates, ExaminedAllocates
  <2> HIDE DEF Fine
  <2> QED
    BY <1>4, <2>1
<1>5. A = (CHOOSE g : G(g))[turns]
  BY Zenon DEF dir_alloc, Loop
<1> HIDE DEF F, s0, loop, turns, Fine
<1>6. \E g : G(g)
  <2>1. PICK g : Run(loop, s0, turns, g)
    BY <1>1, RunExists
  <2>2. G(g)
    BY <2>1, <1>2 DEF Run
  <2> QED
    BY <2>2
<1>7. PICK g : G(g) /\ A = g[turns]
  BY <1>5, <1>6
<1>8. 0 \in Q(g)
  BY <1>1, <1>3, <1>7
<1>9. ASSUME NEW k \in 1 .. turns, k - 1 \in Q(g) PROVE k \in Q(g)
  <2>1. g[k] = F(g[k - 1], k) /\ k \in Nat
    BY <1>1, <1>7
  <2> QED
    BY <2>1, <1>4, <1>9
<1>10. \A k \in 0 .. turns : k \in Q(g)
  <2> DEFINE q == Q(g)
  <2>1. 0 \in q /\ \A k \in 1 .. turns : k - 1 \in q => k \in q
    BY <1>8, <1>9
  <2> HIDE DEF q
  <2>2. \A k \in 0 .. turns : k \in q
    BY <1>1, <2>1, Turns
  <2> QED
    BY <2>2 DEF q
<1>11. turns \in Q(g)
  BY <1>1, <1>10
<1> QED
  BY <1>7, <1>11 DEF Fine

\* dir_register changes the clusters of its table.
LEMMA RegisterOnly ==
    ASSUME NEW d, NEW gone, NEW S, Window(d, gone, S), NEW ch, NEW tb, Stored(S.vol, ch, tb),
           NEW h \in DOMAIN tb, WellFormed(tb[h]), NEW dc, h = (IF dc = 0 THEN Root ELSE dc), NEW n
    PROVE  Only(S.vol, dir_register(S, dc, n).s.vol, OnIt(dir_register(S, dc, n).chain))
<1> DEFINE D == dir_register(S, dc, n)
<1>0. D = dir_register(S, dc, n)
  OBVIOUS
<1> HIDE DEF D
<1> SUFFICES Only(S.vol, D.s.vol, OnIt(D.chain))
  BY <1>0
<1> DEFINE T == tb[h]
           long == n \in DOMAIN Alias
           R == IF long THEN Scanned(S, ch[h], End(T)) ELSE S
           few == IF long THEN 2 ELSE 1
           A == dir_alloc(R, ch[h], few)
           sfn == IF long THEN NumName(T, n) ELSE <<n, 0>>
           first == A.pos - 1
           lfn == [k |-> "lfn", name |-> n, sfn |-> sfn]
           sdi == dir_sdi(A.s, A.chain, first)
           L == PutSlot(sdi, A.chain, first, lfn)
           next == IF In(A.pos) = 1 THEN get_fat(L, A.chain[At(first)]) ELSE L
           B == IF long THEN next ELSE A.s
           P == PutSlot(B, A.chain, A.pos, Blank(sfn))
<1>1. /\ Chain(S.vol, IF dc = 0 THEN Root ELSE dc) = ch[h] /\ Slots(S.vol, ch[h]) = T
  BY TableOf
<1>2. D.s = (IF A.pos = 0 THEN A.s ELSE P) /\ D.chain = A.chain
  <2> HIDE DEF T
  <2> QED
    BY <1>0, <1>1 DEF dir_register
<1>3. Window(d, gone, R) /\ Stored(R.vol, ch, tb) /\ few \in Nat \ {0} /\ R.vol = S.vol
  <2>1. Window(d, gone, Scanned(S, ch[h], End(T))) /\ Scanned(S, ch[h], End(T)).vol = S.vol
    BY ScannedKeeps
  <2> QED
    BY <2>1
<1> HIDE DEF R
<1>4. /\ Spread(A.s.vol, ch, tb, h, A.chain) /\ A.pos \in Nat
      /\ A.pos # 0 => At(A.pos) <= Len(A.chain) /\ Fits(tb[h], A.pos, few)
  <2> HIDE DEF few
  <2>1. A = dir_alloc(R, ch[h], few)
    OBVIOUS
  <2> HIDE DEF A
  <2> QED
    BY <1>3, <2>1, AllocIs
<1>5. Allocating(d, gone, R.vol, A)
  <2>1. A = dir_alloc(R, ch[h], few)
    OBVIOUS
  <2> HIDE DEF few, A
  <2>2. ch[h] \in Seq(Cluster)
    BY TableIs
  <2>3. Entries(R.vol)
    BY <1>3 DEF Stored, Chains
  <2> QED
    BY <1>3, <2>1, <2>2, <2>3, AllocOnly
<1> HIDE DEF A
<1>6. /\ Window(d, gone, A.s) /\ Only(R.vol, A.s.vol, OnIt(A.chain)) /\ A.chain \in Seq(Cluster)
  BY <1>5 DEF Allocating
<1>7. CASE A.pos = 0
  BY <1>2, <1>3, <1>6, <1>7
<1>8. CASE A.pos # 0
  <2> HIDE DEF T
  <2>1. A.pos \in Nat \ {0} /\ few <= A.pos /\ At(A.pos) <= Len(A.chain) /\ Len(A.chain) \in Nat
    BY <1>4, <1>6, <1>8 DEF Fits
  <2>2. \A i \in 1 .. A.pos : A.chain[At(i)] \in OnIt(A.chain)
    <3> SUFFICES ASSUME NEW i \in 1 .. A.pos PROVE A.chain[At(i)] \in OnIt(A.chain)
      OBVIOUS
    <3>1. i \in Nat \ {0} /\ i <= A.pos
      BY <2>1
    <3>2. At(i) \in Nat \ {0} /\ At(A.pos) \in Nat \ {0}
      BY <2>1, <3>1, PositionIs
    <3>3. A.pos <= Len(A.chain) * SPS /\ Len(A.chain) * SPS \in Nat
      BY <2>1, PositionUpto
    <3>4. i <= Len(A.chain) * SPS
      BY <3>1, <3>3, <2>1
    <3>5. At(i) <= Len(A.chain)
      BY <3>1, <3>4, <2>1, PositionUpto
    <3>6. At(i) \in 1 .. Len(A.chain)
      BY <3>2, <3>5, <2>1
    <3> QED
      BY <3>6 DEF OnIt
  <2>3. Window(d, gone, B) /\ Only(A.s.vol, B.vol, OnIt(A.chain))
    <3>1. CASE long
      <4>1. first \in 1 .. A.pos
        BY <2>1, <3>1
      <4>2. Window(d, gone, sdi) /\ sdi.vol = A.s.vol
        BY <1>6, DirSdi, WalkedKeeps DEF dir_sdi
      <4> HIDE DEF sdi, lfn
      <4>3. Window(d, gone, L) /\ Only(sdi.vol, L.vol, {A.chain[At(first)]})
        BY <4>2, PutOnly, PutSlotKeeps
      <4> HIDE DEF L
      <4>4. A.chain[At(first)] \in OnIt(A.chain)
        BY <2>2, <4>1
      <4> HIDE DEF first
      <4>5. Window(d, gone, get_fat(L, A.chain[At(first)])) /\ get_fat(L, A.chain[At(first)]).vol = L.vol
        BY <4>3, GetFat
      <4>6. Window(d, gone, next) /\ next.vol = L.vol
        BY <4>3, <4>5
      <4> HIDE DEF next
      <4>7. B = next
        BY <3>1
      <4> QED
        BY <4>2, <4>3, <4>4, <4>6, <4>7 DEF Only
    <3>2. CASE ~long
      <4>1. B = A.s
        BY <3>2
      <4> QED
        BY <1>6, <4>1 DEF Only
    <3> QED
      BY <3>1, <3>2
  <2> HIDE DEF B, sfn
  <2>4. Only(B.vol, P.vol, {A.chain[At(A.pos)]})
    BY <2>3, PutOnly
  <2>5. A.chain[At(A.pos)] \in OnIt(A.chain)
    BY <2>1, <2>2
  <2> HIDE DEF P
  <2>6. Only(R.vol, P.vol, OnIt(A.chain))
    BY <1>6, <2>3, <2>4, <2>5 DEF Only
  <2> QED
    BY <1>2, <1>3, <1>8, <2>6
<1> QED
  BY <1>7, <1>8

-----------------------------------------------------------------------------
(* Files.                                                                  *)

\* The chains of files; E are clusters a call has in hand.
Held(ch, tb, E) == (DOMAIN ch \ DOMAIN tb) \ E

Owner(F, tb, pt, h, i, c) == IsFile(tb, h, i) /\ FirstAt(F, tb, pt, h, i) = c

HasFile(F, ch, tb, pt, f, h, i) ==
    /\ IsFile(tb, h, i) /\ OpenAt(F, f, Path(tb, pt, h, i))
    /\ Handle(F[f], ch, tb[h][i], ch[h][At(i)], In(i))

\* Files without the bounds that Listed has anyway, while a call has the clusters E in hand.
FilesForm(F, ch, tb, pt, E) ==
    /\ \A f \in Fil : F[f].open => \E h, i : HasFile(F, ch, tb, pt, f, h, i)
    /\ \A f, g \in Fil : F[f].open /\ F[g].open /\ F[g].path = F[f].path => f = g
    /\ \A h, i : IsFile(tb, h, i) =>
          /\ FirstAt(F, tb, pt, h, i) \in {0} \cup Held(ch, tb, E)
          /\ Busy(F, Path(tb, pt, h, i)) \/ Reaches(ch, tb[h][i].clust, tb[h][i].size)
    /\ \A c \in Held(ch, tb, E) : \E h, i : Owner(F, tb, pt, h, i, c)
    /\ \A c, g, h, i, j : c # 0 /\ Owner(F, tb, pt, g, i, c) /\ Owner(F, tb, pt, h, j, c) => g = h /\ i = j

\* The two forms say the same.
LEMMA FilesIs ==
    ASSUME NEW F, NEW ch, NEW tb, NEW pt
    PROVE  Files(F, ch, tb, pt) <=> FilesForm(F, ch, tb, pt, {})
<1>1. Held(ch, tb, {}) = DOMAIN ch \ DOMAIN tb
  BY DEF Held
<1>2. \A h, i : IsFile(tb, h, i) => h \in DOMAIN tb /\ i \in 1 .. Len(tb[h])
  BY DEF IsFile, Listed
<1>3. ASSUME Files(F, ch, tb, pt) PROVE FilesForm(F, ch, tb, pt, {})
  <2>1. ASSUME NEW f \in Fil, F[f].open PROVE \E h, i : HasFile(F, ch, tb, pt, f, h, i)
    BY <1>3, <2>1 DEF Files, HasFile, OpenAt
  <2>2. \A f, g \in Fil : F[f].open /\ F[g].open /\ F[g].path = F[f].path => f = g
    BY <1>3 DEF Files
  <2>3. ASSUME NEW h, NEW i, IsFile(tb, h, i)
        PROVE  /\ FirstAt(F, tb, pt, h, i) \in {0} \cup Held(ch, tb, {})
               /\ Busy(F, Path(tb, pt, h, i)) \/ Reaches(ch, tb[h][i].clust, tb[h][i].size)
    BY <1>1, <1>2, <1>3, <2>3 DEF Files
  <2>4. ASSUME NEW c \in Held(ch, tb, {}) PROVE \E h, i : Owner(F, tb, pt, h, i, c)
    BY <1>1, <1>3 DEF Files, Owner
  <2>5. ASSUME NEW c, NEW g, NEW h, NEW i, NEW j, c # 0, Owner(F, tb, pt, g, i, c), Owner(F, tb, pt, h, j, c)
        PROVE  g = h /\ i = j
    <3>1. /\ IsFile(tb, g, i) /\ IsFile(tb, h, j) /\ g \in DOMAIN tb /\ h \in DOMAIN tb
          /\ i \in 1 .. Len(tb[g]) /\ j \in 1 .. Len(tb[h])
          /\ FirstAt(F, tb, pt, g, i) = c /\ FirstAt(F, tb, pt, h, j) = c
      BY <1>2, <2>5 DEF Owner
    <3> QED
      BY <1>3, <2>5, <3>1 DEF Files
  <2> QED
    BY <2>1, <2>2, <2>3, <2>4, <2>5 DEF FilesForm
<1>4. ASSUME FilesForm(F, ch, tb, pt, {}) PROVE Files(F, ch, tb, pt)
  <2>1. ASSUME NEW f \in Fil, F[f].open
        PROVE  /\ \E h \in DOMAIN tb : \E i \in 1 .. Len(tb[h]) :
                     /\ IsFile(tb, h, i) /\ F[f].path = Path(tb, pt, h, i)
                     /\ Handle(F[f], ch, tb[h][i], ch[h][At(i)], In(i))
               /\ \A g \in Fil : F[g].open /\ F[g].path = F[f].path => f = g
    <3>1. PICK h, i : HasFile(F, ch, tb, pt, f, h, i)
      BY <1>4, <2>1 DEF FilesForm
    <3>2. /\ h \in DOMAIN tb /\ i \in 1 .. Len(tb[h])
          /\ IsFile(tb, h, i) /\ F[f].path = Path(tb, pt, h, i)
          /\ Handle(F[f], ch, tb[h][i], ch[h][At(i)], In(i))
      BY <1>2, <3>1 DEF HasFile, OpenAt
    <3>3. \A g \in Fil : F[g].open /\ F[g].path = F[f].path => f = g
      BY <1>4, <2>1 DEF FilesForm
    <3> QED
      BY <3>2, <3>3
  <2>2. \A h \in DOMAIN tb : \A i \in 1 .. Len(tb[h]) : IsFile(tb, h, i) =>
          /\ FirstAt(F, tb, pt, h, i) \in {0} \cup (DOMAIN ch \ DOMAIN tb)
          /\ Busy(F, Path(tb, pt, h, i)) \/ Reaches(ch, tb[h][i].clust, tb[h][i].size)
    BY <1>1, <1>4 DEF FilesForm
  <2>3. ASSUME NEW c \in DOMAIN ch \ DOMAIN tb
        PROVE  \E h \in DOMAIN tb : \E i \in 1 .. Len(tb[h]) :
                  IsFile(tb, h, i) /\ FirstAt(F, tb, pt, h, i) = c
    <3>1. PICK h, i : Owner(F, tb, pt, h, i, c)
      BY <1>1, <1>4 DEF FilesForm
    <3> QED
      BY <1>2, <3>1 DEF Owner
  <2>4. \A g, h \in DOMAIN tb : \A i \in 1 .. Len(tb[g]), j \in 1 .. Len(tb[h]) :
          /\ IsFile(tb, g, i) /\ IsFile(tb, h, j)
          /\ FirstAt(F, tb, pt, g, i) = FirstAt(F, tb, pt, h, j) /\ FirstAt(F, tb, pt, g, i) # 0
          => g = h /\ i = j
    <3> SUFFICES ASSUME NEW g \in DOMAIN tb, NEW h \in DOMAIN tb, NEW i \in 1 .. Len(tb[g]),
                        NEW j \in 1 .. Len(tb[h]), IsFile(tb, g, i), IsFile(tb, h, j),
                        FirstAt(F, tb, pt, g, i) = FirstAt(F, tb, pt, h, j), FirstAt(F, tb, pt, g, i) # 0
                 PROVE  g = h /\ i = j
      OBVIOUS
    <3> DEFINE c == FirstAt(F, tb, pt, g, i)
    <3>1. c # 0 /\ Owner(F, tb, pt, g, i, c) /\ Owner(F, tb, pt, h, j, c)
      BY DEF Owner
    <3> HIDE DEF c
    <3> QED
      BY <1>4, <3>1 DEF FilesForm
  <2> QED
    BY <2>1, <2>2, <2>3, <2>4 DEF Files
<1> QED
  BY <1>3, <1>4

\* The first cluster of a file is what its file object says, if it has one.
LEMMA FirstIs ==
    ASSUME NEW F, \A f, g \in Fil : F[f].open /\ F[g].open /\ F[g].path = F[f].path => f = g,
           NEW p, NEW x
    PROVE  /\ \A f \in Fil : OpenAt(F, f, p) => Busy(F, p) /\ First(F, p, x) = F[f].sclust
           /\ ~Busy(F, p) => First(F, p, x) = x.clust
<1>1. ASSUME NEW f \in Fil, OpenAt(F, f, p) PROVE Busy(F, p) /\ First(F, p, x) = F[f].sclust
  <2>1. Busy(F, p)
    BY <1>1 DEF Busy
  <2> DEFINE g == CHOOSE g \in Fil : OpenAt(F, g, p)
  <2>2. g \in Fil /\ OpenAt(F, g, p)
    BY <1>1
  <2>3. First(F, p, x) = F[g].sclust
    BY <2>1 DEF First
  <2> HIDE DEF g
  <2>4. g = f
    BY <1>1, <2>2 DEF OpenAt
  <2> QED
    BY <2>1, <2>3, <2>4
<1>2. ASSUME ~Busy(F, p) PROVE First(F, p, x) = x.clust
  BY <1>2 DEF First
<1> QED
  BY <1>1, <1>2

\* From one state of the files to another: only the files at the spots P differ, one of
\* which had the chain c and one of which has the chain b.
Passes(F, ch, tb, pt, E, G, ch2, tb2, pt2, D, P, c, b) ==
    /\ \A h, i : <<h, i>> \notin P => SameSpot(tb, tb2, h, i)
    /\ \A h, i : <<h, i>> \notin P /\ IsFile(tb, h, i) =>
          /\ ch2[h][At(i)] = ch[h][At(i)]
          /\ \A f \in Fil : /\ OpenAt(G, f, Path(tb2, pt2, h, i)) <=> OpenAt(F, f, Path(tb, pt, h, i))
                            /\ OpenAt(F, f, Path(tb, pt, h, i)) => G[f] = F[f]
    /\ \A e : e # c /\ e # b => /\ e \in Held(ch2, tb2, D) <=> e \in Held(ch, tb, E)
                                /\ e \in Held(ch, tb, E) => ch2[e] = ch[e]
    /\ \A h, i : <<h, i>> \in P /\ IsFile(tb, h, i) => Owner(F, tb, pt, h, i, c)
    /\ c # 0 => \E h, i : <<h, i>> \in P /\ Owner(F, tb, pt, h, i, c)
    /\ c \in Held(ch2, tb2, D) => c = b
    /\ b \in Held(ch, tb, E) => c = b
    /\ b # 0 => b \in Held(ch2, tb2, D) /\ \E h, i : <<h, i>> \in P /\ Owner(G, tb2, pt2, h, i, b)
    /\ \A f \in Fil : G[f].open =>
          \E h, i : IF <<h, i>> \in P THEN HasFile(G, ch2, tb2, pt2, f, h, i)
                    ELSE IsFile(tb, h, i) /\ OpenAt(G, f, Path(tb2, pt2, h, i))
    /\ \A h, i : <<h, i>> \in P /\ IsFile(tb2, h, i) =>
          /\ Owner(G, tb2, pt2, h, i, b)
          /\ Busy(G, Path(tb2, pt2, h, i)) \/ Reaches(ch2, tb2[h][i].clust, tb2[h][i].size)
          /\ \A f, g \in Fil : OpenAt(G, f, Path(tb2, pt2, h, i)) /\ OpenAt(G, g, Path(tb2, pt2, h, i)) => f = g
          /\ \A g, j : <<g, j>> \in P /\ IsFile(tb2, g, j) => g = h /\ j = i

\* A step that touches what is at the spots P, one file before and after, keeps the files.
LEMMA FilesPass ==
    ASSUME NEW F, NEW ch, NEW tb, NEW pt, NEW E, Tree(tb, pt), FilesForm(F, ch, tb, pt, E),
           NEW G, NEW ch2, NEW tb2, NEW pt2, NEW D, Tree(tb2, pt2), 0 \notin DOMAIN ch,
           0 \notin DOMAIN ch2, NEW P, NEW c, NEW b, Passes(F, ch, tb, pt, E, G, ch2, tb2, pt2, D, P, c, b)
    PROVE  FilesForm(G, ch2, tb2, pt2, D)
<1> DEFINE old == Held(ch, tb, E)
           new == Held(ch2, tb2, D)
           path(h, i) == Path(tb, pt, h, i)
           path2(h, i) == Path(tb2, pt2, h, i)
<1>1. \A h, i : <<h, i>> \notin P => SameSpot(tb, tb2, h, i)
  BY DEF Passes
<1>2. \A h, i : <<h, i>> \notin P /\ IsFile(tb, h, i) =>
          /\ ch2[h][At(i)] = ch[h][At(i)]
          /\ \A f \in Fil : /\ OpenAt(G, f, path2(h, i)) <=> OpenAt(F, f, path(h, i))
                            /\ OpenAt(F, f, path(h, i)) => G[f] = F[f]
  BY DEF Passes
<1>3. \A e : e # c /\ e # b => (e \in new <=> e \in old) /\ (e \in old => ch2[e] = ch[e])
  BY DEF Passes
<1>4. /\ c # 0 => \E h, i : <<h, i>> \in P /\ Owner(F, tb, pt, h, i, c)
      /\ c \in new => c = b
      /\ b \in old => c = b
      /\ b # 0 => b \in new /\ \E h, i : <<h, i>> \in P /\ Owner(G, tb2, pt2, h, i, b)
  BY DEF Passes
<1>5. \A f \in Fil : G[f].open =>
          \E h, i : IF <<h, i>> \in P THEN HasFile(G, ch2, tb2, pt2, f, h, i)
                    ELSE IsFile(tb, h, i) /\ OpenAt(G, f, path2(h, i))
  BY DEF Passes
<1>6. \A h, i : <<h, i>> \in P /\ IsFile(tb2, h, i) =>
          /\ Owner(G, tb2, pt2, h, i, b)
          /\ Busy(G, path2(h, i)) \/ Reaches(ch2, tb2[h][i].clust, tb2[h][i].size)
          /\ \A f, g \in Fil : OpenAt(G, f, path2(h, i)) /\ OpenAt(G, g, path2(h, i)) => f = g
          /\ \A g, j : <<g, j>> \in P /\ IsFile(tb2, g, j) => g = h /\ j = i
  BY DEF Passes
<1>7. 0 \notin old /\ 0 \notin new /\ old \subseteq DOMAIN ch /\ new \subseteq DOMAIN ch2
  BY DEF Held
<1>8. \A f \in Fil : F[f].open => \E h, i : HasFile(F, ch, tb, pt, f, h, i)
  BY DEF FilesForm
<1>9. \A f, g \in Fil : F[f].open /\ F[g].open /\ F[g].path = F[f].path => f = g
  BY DEF FilesForm
<1>10. \A h, i : IsFile(tb, h, i) => /\ FirstAt(F, tb, pt, h, i) \in {0} \cup old
                                     /\ Busy(F, path(h, i)) \/ Reaches(ch, tb[h][i].clust, tb[h][i].size)
  BY DEF FilesForm
<1>11. \A e \in old : \E h, i : Owner(F, tb, pt, h, i, e)
  BY DEF FilesForm
<1>12. \A e, g, h, i, j : e # 0 /\ Owner(F, tb, pt, g, i, e) /\ Owner(F, tb, pt, h, j, e) => g = h /\ i = j
  BY DEF FilesForm
<1>13. ASSUME NEW h, NEW i, IsFile(tb, h, i) PROVE Listed(tb, h, i)
  BY <1>13 DEF IsFile
<1>14. ASSUME NEW h, NEW i, IsFile(tb2, h, i) PROVE Listed(tb2, h, i)
  BY <1>14 DEF IsFile
<1> HIDE DEF old, new, path, path2
\* Two file objects of G are not of one path.
<1>15. ASSUME NEW f \in Fil, G[f].open
       PROVE  \E h, i : /\ IsFile(tb2, h, i) /\ OpenAt(G, f, path2(h, i))
                        /\ \A g \in Fil : OpenAt(G, g, path2(h, i)) => g = f
  <2>1. PICK h, i : IF <<h, i>> \in P THEN HasFile(G, ch2, tb2, pt2, f, h, i)
                    ELSE IsFile(tb, h, i) /\ OpenAt(G, f, path2(h, i))
    BY <1>5, <1>15
  <2>2. CASE <<h, i>> \in P
    <3>1. IsFile(tb2, h, i) /\ OpenAt(G, f, path2(h, i))
      BY <2>1, <2>2 DEF HasFile, path2
    <3> QED
      BY <1>6, <2>2, <3>1
  <2>3. CASE <<h, i>> \notin P
    <3>1. IsFile(tb, h, i) /\ OpenAt(G, f, path2(h, i)) /\ IsFile(tb2, h, i)
      BY <1>1, <2>1, <2>3 DEF SameSpot
    <3>2. ASSUME NEW g \in Fil, OpenAt(G, g, path2(h, i)) PROVE g = f
      <4>1. OpenAt(F, g, path(h, i)) /\ OpenAt(F, f, path(h, i))
        BY <1>2, <2>3, <3>1, <3>2
      <4> QED
        BY <1>9, <4>1 DEF OpenAt
    <3> QED
      BY <3>1, <3>2
  <2> QED
    BY <2>2, <2>3
<1>16. \A f, g \in Fil : G[f].open /\ G[g].open /\ G[g].path = G[f].path => f = g
  <2> SUFFICES ASSUME NEW f \in Fil, NEW g \in Fil, G[f].open, G[g].open, G[g].path = G[f].path
               PROVE  f = g
    OBVIOUS
  <2>1. PICK h, i : OpenAt(G, f, path2(h, i)) /\ \A e \in Fil : OpenAt(G, e, path2(h, i)) => e = f
    BY <1>15
  <2>2. OpenAt(G, g, path2(h, i))
    BY <2>1 DEF OpenAt
  <2> QED
    BY <2>1, <2>2
\* A file at another spot has the chain it had.
<1>17. ASSUME NEW h, NEW i, <<h, i>> \notin P, IsFile(tb, h, i)
       PROVE  LET e == FirstAt(F, tb, pt, h, i)
              IN  /\ FirstAt(G, tb2, pt2, h, i) = e
                  /\ e = 0 \/ (e # c /\ e # b /\ e \in old /\ e \in new /\ ch2[e] = ch[e])
                  /\ Busy(G, path2(h, i)) <=> Busy(F, path(h, i))
                  /\ IsFile(tb2, h, i) /\ tb2[h][i] = tb[h][i]
  <2> DEFINE e == FirstAt(F, tb, pt, h, i)
             x == tb[h][i]
  <2>1. IsFile(tb2, h, i) /\ tb2[h][i] = x
    BY <1>1, <1>13, <1>17 DEF SameSpot
  <2>2. Busy(G, path2(h, i)) <=> Busy(F, path(h, i))
    BY <1>2, <1>17 DEF Busy
  <2>3. First(G, path2(h, i), x) = First(F, path(h, i), x)
    <3>1. CASE Busy(F, path(h, i))
      <4>1. PICK f \in Fil : OpenAt(F, f, path(h, i))
        BY <3>1 DEF Busy
      <4>2. OpenAt(G, f, path2(h, i)) /\ G[f] = F[f]
        BY <1>2, <1>17, <4>1
      <4>3. First(F, path(h, i), x) = F[f].sclust
        BY <1>9, <4>1, FirstIs
      <4>4. First(G, path2(h, i), x) = G[f].sclust
        BY <1>16, <4>2, FirstIs
      <4> QED
        BY <4>2, <4>3, <4>4
    <3>2. CASE ~Busy(F, path(h, i))
      BY <2>2, <3>2 DEF First
    <3> QED
      BY <3>1, <3>2
  <2>4. FirstAt(G, tb2, pt2, h, i) = e
    BY <2>1, <2>3 DEF FirstAt, path, path2
  <2>5. e \in {0} \cup old
    BY <1>10, <1>17
  <2>6. e # 0 => e # c
    <3> SUFFICES ASSUME e # 0, e = c PROVE FALSE
      OBVIOUS
    <3>1. PICK g, j : <<g, j>> \in P /\ Owner(F, tb, pt, g, j, e)
      BY <1>4
    <3>2. Owner(F, tb, pt, h, i, e)
      BY <1>17 DEF Owner
    <3> HIDE DEF e
    <3>3. g = h /\ j = i
      BY <1>12, <3>1, <3>2
    <3> QED
      BY <1>17, <3>1, <3>3
  <2> HIDE DEF e
  <2>7. e # 0 => e # b
    BY <1>4, <2>5, <2>6
  <2>8. e = 0 \/ (e # c /\ e # b /\ e \in old /\ e \in new /\ ch2[e] = ch[e])
    BY <1>3, <2>5, <2>6, <2>7
  <2> QED
    BY <2>1, <2>2, <2>4, <2>8 DEF e
<1>18. ASSUME NEW h, NEW i, <<h, i>> \notin P
       PROVE  IsFile(tb2, h, i) <=> IsFile(tb, h, i)
  BY <1>1, <1>18 DEF SameSpot
<1>19. ASSUME NEW f \in Fil, G[f].open PROVE \E h, i : HasFile(G, ch2, tb2, pt2, f, h, i)
  <2>1. PICK h, i : IF <<h, i>> \in P THEN HasFile(G, ch2, tb2, pt2, f, h, i)
                    ELSE IsFile(tb, h, i) /\ OpenAt(G, f, path2(h, i))
    BY <1>5, <1>19
  <2>2. CASE <<h, i>> \in P
    BY <2>1, <2>2
  <2>3. CASE <<h, i>> \notin P
    <3>1. IsFile(tb, h, i) /\ OpenAt(F, f, path(h, i)) /\ G[f] = F[f] /\ ch2[h][At(i)] = ch[h][At(i)]
          /\ OpenAt(G, f, path2(h, i))
      BY <1>2, <2>1, <2>3
    <3>2. PICK g, j : HasFile(F, ch, tb, pt, f, g, j)
      BY <1>8, <3>1 DEF OpenAt
    <3>3. g = h /\ j = i
      <4>1. Path(tb, pt, g, j) = Path(tb, pt, h, i) /\ Listed(tb, g, j) /\ Listed(tb, h, i)
        BY <1>13, <3>1, <3>2 DEF HasFile, OpenAt, path
      <4> QED
        BY <4>1, PathsApart
    <3> DEFINE e == F[f].sclust
    <3>4. Handle(F[f], ch, tb[h][i], ch[h][At(i)], In(i))
      BY <3>2, <3>3 DEF HasFile
    <3>5. FirstAt(F, tb, pt, h, i) = e
      <4>1. First(F, path(h, i), tb[h][i]) = e
        BY <1>9, <3>1, FirstIs
      <4> QED
        BY <4>1 DEF FirstAt, path
    <3>6. (e = 0 \/ (e \in DOMAIN ch /\ e \in DOMAIN ch2 /\ ch2[e] = ch[e]))
          /\ IsFile(tb2, h, i) /\ tb2[h][i] = tb[h][i]
      BY <1>7, <1>17, <2>3, <3>1, <3>5
    <3>7. Handle(F[f], ch2, tb[h][i], ch[h][At(i)], In(i))
      <4>1. \A n : Reaches(ch, e, n) => Reaches(ch2, e, n)
        BY <3>6 DEF Reaches
      <4>2. F[f].fptr > 0 => F[f].clust = ch2[e][F[f].fptr]
        <5> SUFFICES ASSUME F[f].fptr > 0 PROVE F[f].clust = ch2[e][F[f].fptr]
          OBVIOUS
        <5>1. F[f].clust = ch[e][F[f].fptr] /\ F[f].objsize \in Nat /\ F[f].fptr \in 0 .. F[f].objsize
              /\ Reaches(ch, e, F[f].objsize)
          BY <3>4 DEF Handle
        <5>2. F[f].objsize # 0
          BY <5>1
        <5>3. e # 0
          BY <5>1, <5>2 DEF Reaches
        <5> QED
          BY <3>6, <5>1, <5>3
      <4> HIDE DEF e
      <4> QED
        BY <3>4, <4>1, <4>2 DEF Handle, e
    <3>8. HasFile(G, ch2, tb2, pt2, f, h, i)
      BY <3>1, <3>6, <3>7 DEF HasFile, path2
    <3> QED
      BY <3>8
  <2> QED
    BY <2>2, <2>3
<1>20. ASSUME NEW h, NEW i, IsFile(tb2, h, i)
       PROVE  /\ FirstAt(G, tb2, pt2, h, i) \in {0} \cup new
              /\ Busy(G, path2(h, i)) \/ Reaches(ch2, tb2[h][i].clust, tb2[h][i].size)
  <2>1. CASE <<h, i>> \in P
    <3>1. Owner(G, tb2, pt2, h, i, b)
      BY <1>6, <1>20, <2>1
    <3> QED
      BY <1>4, <1>6, <1>20, <2>1, <3>1 DEF Owner
  <2>2. CASE <<h, i>> \notin P
    <3> DEFINE e == FirstAt(F, tb, pt, h, i)
    <3>1. IsFile(tb, h, i)
      BY <1>18, <1>20, <2>2
    <3>2. /\ FirstAt(G, tb2, pt2, h, i) = e
          /\ e = 0 \/ (e \in old /\ e \in new /\ ch2[e] = ch[e])
          /\ Busy(G, path2(h, i)) <=> Busy(F, path(h, i))
          /\ tb2[h][i] = tb[h][i]
      BY <1>17, <2>2, <3>1
    <3>3. ASSUME ~Busy(F, path(h, i)) PROVE Reaches(ch2, tb[h][i].clust, tb[h][i].size)
      <4>1. Reaches(ch, tb[h][i].clust, tb[h][i].size)
        BY <1>10, <3>1, <3>3
      <4>2. e = tb[h][i].clust
        BY <1>9, <3>3, FirstIs DEF FirstAt, path
      <4> HIDE DEF e
      <4> QED
        BY <1>7, <3>2, <4>1, <4>2 DEF Reaches
    <3> HIDE DEF e
    <3> QED
      BY <3>2, <3>3
  <2> QED
    BY <2>1, <2>2
<1>23. \A h, i : <<h, i>> \in P /\ IsFile(tb, h, i) => Owner(F, tb, pt, h, i, c)
  BY DEF Passes
<1>21. ASSUME NEW e \in new PROVE \E h, i : Owner(G, tb2, pt2, h, i, e)
  <2>1. CASE e = b
    <3>1. b # 0
      BY <1>7, <2>1
    <3> QED
      BY <1>4, <2>1, <3>1
  <2>2. CASE e # b
    <3>1. e # c
      BY <1>4, <2>2
    <3>2. e \in old /\ e # 0
      BY <1>3, <1>7, <2>2, <3>1
    <3>3. PICK h, i : Owner(F, tb, pt, h, i, e)
      BY <1>11, <3>2
    <3>4. IsFile(tb, h, i) /\ FirstAt(F, tb, pt, h, i) = e
      BY <3>3 DEF Owner
    <3>5. <<h, i>> \notin P
      BY <2>2, <3>1, <3>4, <1>23 DEF Owner
    <3>6. Owner(G, tb2, pt2, h, i, e)
      BY <1>17, <3>4, <3>5 DEF Owner
    <3> QED
      BY <3>6
  <2> QED
    BY <2>1, <2>2
<1>22. ASSUME NEW e, NEW g, NEW h, NEW i, NEW j, e # 0,
              Owner(G, tb2, pt2, g, i, e), Owner(G, tb2, pt2, h, j, e)
       PROVE  g = h /\ i = j
  <2>1. IsFile(tb2, g, i) /\ FirstAt(G, tb2, pt2, g, i) = e /\ IsFile(tb2, h, j) /\ FirstAt(G, tb2, pt2, h, j) = e
    BY <1>22 DEF Owner
  <2>2. ASSUME NEW a, NEW k, <<a, k>> \in P, IsFile(tb2, a, k), FirstAt(G, tb2, pt2, a, k) = e PROVE e = b
    BY <1>6, <2>2 DEF Owner
  <2>3. ASSUME NEW a, NEW k, <<a, k>> \notin P, IsFile(tb2, a, k), FirstAt(G, tb2, pt2, a, k) = e
        PROVE  e # b /\ Owner(F, tb, pt, a, k, e)
    <3>1. IsFile(tb, a, k)
      BY <1>18, <2>3
    <3>2. FirstAt(F, tb, pt, a, k) = e /\ e # b
      BY <1>17, <1>22, <2>3, <3>1
    <3> QED
      BY <3>1, <3>2 DEF Owner
  <2>4. CASE <<g, i>> \in P /\ <<h, j>> \in P
    BY <1>6, <2>1, <2>4
  <2>5. CASE <<g, i>> \notin P /\ <<h, j>> \notin P
    <3>1. Owner(F, tb, pt, g, i, e) /\ Owner(F, tb, pt, h, j, e)
      BY <2>1, <2>3, <2>5
    <3> QED
      BY <1>12, <1>22, <3>1
  <2> QED
    BY <2>1, <2>2, <2>3, <2>4, <2>5
<1>24. FilesForm(G, ch2, tb2, pt2, D) <=>
          /\ \A f \in Fil : G[f].open => \E h, i : HasFile(G, ch2, tb2, pt2, f, h, i)
          /\ \A f, g \in Fil : G[f].open /\ G[g].open /\ G[g].path = G[f].path => f = g
          /\ \A h, i : IsFile(tb2, h, i) =>
                /\ FirstAt(G, tb2, pt2, h, i) \in {0} \cup new
                /\ Busy(G, path2(h, i)) \/ Reaches(ch2, tb2[h][i].clust, tb2[h][i].size)
          /\ \A e \in new : \E h, i : Owner(G, tb2, pt2, h, i, e)
          /\ \A e, g, h, i, j : e # 0 /\ Owner(G, tb2, pt2, g, i, e) /\ Owner(G, tb2, pt2, h, j, e)
                => g = h /\ i = j
  BY DEF FilesForm, new, path2
<1> QED
  BY <1>16, <1>19, <1>20, <1>21, <1>22, <1>24

\* Only the file at position i of the table at h differs, and the file objects X, one
\* or none, which are its own.  Its chain begins at c before and at b after.
SpotChanges(F, ch, tb, pt, E, G, ch2, tb2, pt2, D, h, i, X, c, b) ==
    /\ \A a, k : ~(a = h /\ k = i) => SameSpot(tb, tb2, a, k)
    /\ \A a, k : ~(a = h /\ k = i) /\ IsFile(tb, a, k) => ch2[a][At(k)] = ch[a][At(k)] /\ pt2[a] = pt[a]
    /\ \A e : e # c /\ e # b => /\ e \in Held(ch2, tb2, D) <=> e \in Held(ch, tb, E)
                                /\ e \in Held(ch, tb, E) => ch2[e] = ch[e]
    /\ c \in Held(ch2, tb2, D) => c = b
    /\ b \in Held(ch, tb, E) => c = b
    /\ X \subseteq Fil /\ \A f, g \in X : f = g
    /\ \A f \in Fil : f \notin X =>
          /\ G[f] = F[f]
          /\ IsFile(tb, h, i) => ~OpenAt(F, f, Path(tb, pt, h, i))
          /\ IsFile(tb2, h, i) => ~OpenAt(G, f, Path(tb2, pt2, h, i))
    /\ \A f \in X : /\ F[f].open => IsFile(tb, h, i) /\ OpenAt(F, f, Path(tb, pt, h, i))
                    /\ G[f].open => HasFile(G, ch2, tb2, pt2, f, h, i)
    /\ IsFile(tb, h, i) => FirstAt(F, tb, pt, h, i) = c
    /\ c # 0 => IsFile(tb, h, i)
    /\ IsFile(tb2, h, i) => /\ FirstAt(G, tb2, pt2, h, i) = b
                            /\ Busy(G, Path(tb2, pt2, h, i)) \/ Reaches(ch2, tb2[h][i].clust, tb2[h][i].size)
    /\ b # 0 => IsFile(tb2, h, i) /\ b \in Held(ch2, tb2, D)

\* The same for one spot.
LEMMA SpotPasses ==
    ASSUME NEW F, NEW ch, NEW tb, NEW pt, NEW E, Tree(tb, pt), FilesForm(F, ch, tb, pt, E),
           NEW G, NEW ch2, NEW tb2, NEW pt2, NEW D, Tree(tb2, pt2), 0 \notin DOMAIN ch,
           0 \notin DOMAIN ch2, NEW h, NEW i, NEW X, NEW c, NEW b,
           SpotChanges(F, ch, tb, pt, E, G, ch2, tb2, pt2, D, h, i, X, c, b)
    PROVE  FilesForm(G, ch2, tb2, pt2, D)
<1> DEFINE P == {<<h, i>>}
           p == Path(tb, pt, h, i)
           q == Path(tb2, pt2, h, i)
<1>1. \A a, k : <<a, k>> \in P <=> a = h /\ k = i
  OBVIOUS
<1> HIDE DEF P
<1>2. \A a, k : <<a, k>> \notin P => SameSpot(tb, tb2, a, k)
  BY <1>1 DEF SpotChanges
<1>3. \A f, g \in Fil : F[f].open /\ F[g].open /\ F[g].path = F[f].path => f = g
  BY DEF FilesForm
<1>4. \A f \in Fil : F[f].open => \E a, k : HasFile(F, ch, tb, pt, f, a, k)
  BY DEF FilesForm
<1>5. /\ X \subseteq Fil /\ \A f, g \in X : f = g
      /\ \A f \in Fil : f \notin X =>
          /\ G[f] = F[f]
          /\ IsFile(tb, h, i) => ~OpenAt(F, f, p)
          /\ IsFile(tb2, h, i) => ~OpenAt(G, f, q)
      /\ \A f \in X : /\ F[f].open => IsFile(tb, h, i) /\ OpenAt(F, f, p)
                      /\ G[f].open => HasFile(G, ch2, tb2, pt2, f, h, i)
  BY DEF SpotChanges
<1>6. \A a, k : IsFile(tb, a, k) => Listed(tb, a, k)
  BY DEF IsFile
<1>7. \A a, k : IsFile(tb2, a, k) => Listed(tb2, a, k)
  BY DEF IsFile
<1>8. \A f \in X : G[f].open => IsFile(tb2, h, i) /\ OpenAt(G, f, q)
  BY <1>5 DEF HasFile
<1> HIDE DEF p, q
<1>9. ASSUME NEW a, NEW k, <<a, k>> \notin P, IsFile(tb, a, k)
      PROVE  /\ ch2[a][At(k)] = ch[a][At(k)]
             /\ IsFile(tb2, a, k)
             /\ Path(tb2, pt2, a, k) = Path(tb, pt, a, k)
             /\ \A f \in Fil : /\ OpenAt(G, f, Path(tb2, pt2, a, k)) <=> OpenAt(F, f, Path(tb, pt, a, k))
                               /\ OpenAt(F, f, Path(tb, pt, a, k)) => G[f] = F[f]
  <2>1. ~(a = h /\ k = i)
    BY <1>1, <1>9
  <2>2. ch2[a][At(k)] = ch[a][At(k)] /\ pt2[a] = pt[a]
    BY <1>9, <2>1 DEF SpotChanges
  <2>3. IsFile(tb2, a, k) /\ NameAt(tb2[a], k) = NameAt(tb[a], k)
    BY <1>2, <1>6, <1>9 DEF SameSpot
  <2>4. Path(tb2, pt2, a, k) = Path(tb, pt, a, k)
    BY <2>2, <2>3 DEF Path
  <2> DEFINE r == Path(tb, pt, a, k)
  <2>5. ASSUME NEW f \in X, IsFile(tb, h, i), OpenAt(F, f, p) PROVE ~OpenAt(F, f, r)
    <3>1. p # r
      BY <1>6, <1>9, <2>1, <2>5, PathsApart DEF p
    <3> QED
      BY <2>5, <3>1 DEF OpenAt
  <2>6. ASSUME NEW f \in X, IsFile(tb2, h, i), OpenAt(G, f, q) PROVE ~OpenAt(G, f, r)
    <3>1. q # r
      BY <1>7, <2>1, <2>3, <2>4, <2>6, PathsApart DEF q
    <3> QED
      BY <2>6, <3>1 DEF OpenAt
  <2> HIDE DEF r
  <2>7. ASSUME NEW f \in Fil
        PROVE  /\ OpenAt(G, f, r) <=> OpenAt(F, f, r)
               /\ OpenAt(F, f, r) => G[f] = F[f]
    <3>1. CASE f \notin X
      BY <1>5, <3>1 DEF OpenAt
    <3>2. CASE f \in X
      <4>1. ~OpenAt(F, f, r)
        BY <1>5, <2>5, <3>2 DEF OpenAt
      <4>2. ~OpenAt(G, f, r)
        BY <1>8, <2>6, <3>2 DEF OpenAt
      <4> QED
        BY <4>1, <4>2
    <3> QED
      BY <3>1, <3>2
  <2> QED
    BY <2>2, <2>3, <2>4, <2>7 DEF r
<1>10. ASSUME NEW f \in Fil, G[f].open
       PROVE  \E a, k : IF <<a, k>> \in P THEN HasFile(G, ch2, tb2, pt2, f, a, k)
                        ELSE IsFile(tb, a, k) /\ OpenAt(G, f, Path(tb2, pt2, a, k))
  <2>1. CASE f \in X
    <3>1. HasFile(G, ch2, tb2, pt2, f, h, i) /\ <<h, i>> \in P
      BY <1>1, <1>5, <1>10, <2>1
    <3> QED
      BY <3>1
  <2>2. CASE f \notin X
    <3>1. F[f].open /\ G[f] = F[f]
      BY <1>5, <1>10, <2>2
    <3>2. PICK a, k : HasFile(F, ch, tb, pt, f, a, k)
      BY <1>4, <3>1
    <3>3. IsFile(tb, a, k) /\ OpenAt(F, f, Path(tb, pt, a, k))
      BY <3>2 DEF HasFile
    <3>4. <<a, k>> \notin P
      BY <1>1, <1>5, <2>2, <3>3 DEF p
    <3> QED
      BY <1>9, <3>3, <3>4
  <2> QED
    BY <2>1, <2>2
<1>11. ASSUME NEW a, NEW k, <<a, k>> \in P, IsFile(tb2, a, k)
       PROVE  /\ Owner(G, tb2, pt2, a, k, b)
              /\ Busy(G, Path(tb2, pt2, a, k)) \/ Reaches(ch2, tb2[a][k].clust, tb2[a][k].size)
              /\ \A f, g \in Fil : OpenAt(G, f, Path(tb2, pt2, a, k)) /\ OpenAt(G, g, Path(tb2, pt2, a, k)) => f = g
              /\ \A g, j : <<g, j>> \in P /\ IsFile(tb2, g, j) => g = a /\ j = k
  <2>1. a = h /\ k = i
    BY <1>1, <1>11
  <2>2. /\ Owner(G, tb2, pt2, h, i, b)
        /\ Busy(G, q) \/ Reaches(ch2, tb2[h][i].clust, tb2[h][i].size)
    BY <1>11, <2>1 DEF SpotChanges, Owner, q
  <2>3. \A f, g \in Fil : OpenAt(G, f, q) /\ OpenAt(G, g, q) => f = g
    BY <1>5, <1>11, <2>1
  <2> QED
    BY <1>1, <2>1, <2>2, <2>3 DEF q
<1>12. /\ \A a, k : <<a, k>> \in P /\ IsFile(tb, a, k) => Owner(F, tb, pt, a, k, c)
       /\ c # 0 => \E a, k : <<a, k>> \in P /\ Owner(F, tb, pt, a, k, c)
       /\ b # 0 => b \in Held(ch2, tb2, D) /\ \E a, k : <<a, k>> \in P /\ Owner(G, tb2, pt2, a, k, b)
  BY <1>1 DEF SpotChanges, Owner
<1>13. /\ \A e : e # c /\ e # b => /\ e \in Held(ch2, tb2, D) <=> e \in Held(ch, tb, E)
                                   /\ e \in Held(ch, tb, E) => ch2[e] = ch[e]
       /\ c \in Held(ch2, tb2, D) => c = b
       /\ b \in Held(ch, tb, E) => c = b
  BY DEF SpotChanges
<1>14. Passes(F, ch, tb, pt, E, G, ch2, tb2, pt2, D, P, c, b)
  BY <1>2, <1>9, <1>10, <1>11, <1>12, <1>13 DEF Passes
<1> QED
  BY <1>14, FilesPass

\* Chains begin at clusters.
LEMMA HeadsAre ==
    ASSUME NEW vol, NEW ch, Chains(vol, ch)
    PROVE  DOMAIN ch \subseteq Cluster /\ 0 \notin DOMAIN ch /\ 1 \notin DOMAIN ch
<1>1. ASSUME NEW h \in DOMAIN ch PROVE h \in Cluster
  <2>1. ch[h] \in Seq(Cluster) /\ ch[h] # <<>> /\ ch[h][1] = h
    BY DEF Chains, Linked
  <2> DEFINE s == ch[h]
  <2>2. s \in Seq(Cluster) /\ s # <<>> /\ s[1] = h
    BY <2>1
  <2> HIDE DEF s
  <2>3. 1 \in 1 .. Len(s)
    BY <2>2
  <2> QED
    BY <2>2, <2>3
<1> QED
  BY <1>1 DEF Cluster, Top

\* From the chains ch to ch2 only that at c goes and that at b comes or changes.
Rechained(ch, ch2, c, b) ==
    /\ \A e : e # c /\ e # b => /\ e \in DOMAIN ch2 <=> e \in DOMAIN ch
                                /\ e \in DOMAIN ch => ch2[e] = ch[e]
    /\ c \in DOMAIN ch2 => c = b
    /\ b \in DOMAIN ch => c = b
    /\ b # 0 => b \in DOMAIN ch2

\* The file at position i of the table at h is used through f alone, which becomes o.
Takes(F, ch, tb, pt, ch2, h, i, f, o) ==
    /\ f \in Fil /\ IsFile(tb, h, i) /\ o.open /\ o.path = Path(tb, pt, h, i)
    /\ \A g \in Fil : g # f => ~OpenAt(F, g, Path(tb, pt, h, i))
    /\ F[f].open => F[f].path = Path(tb, pt, h, i)
    /\ Rechained(ch, ch2, FirstAt(F, tb, pt, h, i), o.sclust)
    /\ Handle(o, ch2, tb[h][i], ch[h][At(i)], In(i))

\* Nothing has changed.
LEMMA SameItself ==
    ASSUME NEW tb
    PROVE  \A a, k : SameSpot(tb, tb, a, k)
BY DEF SameSpot

\* What a file object knows of its chain.
LEMMA HandleReaches ==
    ASSUME NEW o, NEW ch, NEW x, NEW c, NEW k, Handle(o, ch, x, c, k)
    PROVE  /\ Reaches(ch, o.sclust, o.objsize) /\ o.objsize \in Nat /\ o.fptr \in 0 .. o.objsize
           /\ o.sclust = 0 => o.objsize = 0 /\ o.fptr = 0
           /\ o.sclust # 0 => o.sclust \in DOMAIN ch /\ o.objsize <= Len(ch[o.sclust])
BY DEF Handle, Reaches

\* A file object may change with its chain, as long as it fits the file.
LEMMA FileChanges ==
    ASSUME NEW F, DOMAIN F = Fil, NEW vol, NEW ch, NEW tb, NEW pt, Stored(vol, ch, tb), Tree(tb, pt),
           FilesForm(F, ch, tb, pt, {}), NEW ch2, NEW h, NEW i, NEW f, NEW o,
           Takes(F, ch, tb, pt, ch2, h, i, f, o), 0 \notin DOMAIN ch2
    PROVE  FilesForm([F EXCEPT ![f] = o], ch2, tb, pt, {})
<1> DEFINE G == [F EXCEPT ![f] = o]
           p == Path(tb, pt, h, i)
           c == FirstAt(F, tb, pt, h, i)
           b == o.sclust
           X == {f}
<1>1. /\ f \in Fil /\ IsFile(tb, h, i) /\ o.open /\ o.path = p
      /\ \A g \in Fil : g # f => ~OpenAt(F, g, p)
      /\ F[f].open => F[f].path = p
      /\ Rechained(ch, ch2, c, b)
      /\ Handle(o, ch2, tb[h][i], ch[h][At(i)], In(i))
  BY DEF Takes
<1>2. DOMAIN tb \subseteq DOMAIN ch /\ 0 \notin DOMAIN ch /\ \A e : Held(ch, tb, {}) = DOMAIN ch \ DOMAIN tb
                                                       /\ Held(ch2, tb, {}) = DOMAIN ch2 \ DOMAIN tb
  BY HeadsAre DEF Stored, Held
<1>3. c \in {0} \cup (DOMAIN ch \ DOMAIN tb)
  BY <1>1, <1>2 DEF FilesForm
<1>4. G[f] = o /\ \A g \in Fil : g # f => G[g] = F[g]
  BY <1>1
<1> HIDE DEF G, p, c, b, X
<1>5. /\ \A e : e # c /\ e # b => /\ e \in DOMAIN ch2 <=> e \in DOMAIN ch
                                  /\ e \in DOMAIN ch => ch2[e] = ch[e]
      /\ c \in DOMAIN ch2 => c = b
      /\ b \in DOMAIN ch => c = b
      /\ b # 0 => b \in DOMAIN ch2
  BY <1>1 DEF Rechained
<1>6. b \notin DOMAIN tb
  BY <1>2, <1>3, <1>5
<1>7. \A a \in DOMAIN tb : ch2[a] = ch[a]
  BY <1>2, <1>3, <1>5, <1>6
<1>8. HasFile(G, ch2, tb, pt, f, h, i)
  <2>1. h \in DOMAIN tb
    BY <1>1 DEF IsFile, Listed
  <2>2. ch2[h] = ch[h]
    BY <1>7, <2>1
  <2>3. Handle(G[f], ch2, tb[h][i], ch2[h][At(i)], In(i))
    BY <1>1, <1>4, <2>2
  <2> QED
    BY <1>1, <1>4, <2>3 DEF HasFile, OpenAt, p
<1>9. Busy(G, p) /\ First(G, p, tb[h][i]) = b
  <2>1. OpenAt(G, f, p)
    BY <1>1, <1>4 DEF OpenAt
  <2>2. \A g \in Fil : OpenAt(G, g, p) => g = f
    BY <1>1, <1>4 DEF OpenAt
  <2>3. (CHOOSE g \in Fil : OpenAt(G, g, p)) = f
    BY <1>1, <2>1, <2>2
  <2>4. Busy(G, p)
    BY <1>1, <2>1 DEF Busy
  <2> QED
    BY <1>4, <2>3, <2>4 DEF First, b
<1>10. FirstAt(G, tb, pt, h, i) = b
  BY <1>9 DEF FirstAt, p
<1>11. /\ \A a, k : ~(a = h /\ k = i) => SameSpot(tb, tb, a, k)
       /\ \A a, k : ~(a = h /\ k = i) /\ IsFile(tb, a, k) => ch2[a][At(k)] = ch[a][At(k)] /\ pt[a] = pt[a]
  BY <1>7, SameItself DEF IsFile, Listed
<1>12. /\ \A e : e # c /\ e # b => /\ e \in Held(ch2, tb, {}) <=> e \in Held(ch, tb, {})
                                   /\ e \in Held(ch, tb, {}) => ch2[e] = ch[e]
       /\ c \in Held(ch2, tb, {}) => c = b
       /\ b \in Held(ch, tb, {}) => c = b
  BY <1>2, <1>5
<1>13. /\ X \subseteq Fil /\ \A g, e \in X : g = e
       /\ \A g \in Fil : g \notin X => /\ G[g] = F[g]
                                       /\ IsFile(tb, h, i) => ~OpenAt(F, g, p)
                                       /\ IsFile(tb, h, i) => ~OpenAt(G, g, p)
       /\ \A g \in X : /\ F[g].open => IsFile(tb, h, i) /\ OpenAt(F, g, p)
                       /\ G[g].open => HasFile(G, ch2, tb, pt, g, h, i)
  BY <1>1, <1>4, <1>8 DEF X, OpenAt
<1>14. SpotChanges(F, ch, tb, pt, {}, G, ch2, tb, pt, {}, h, i, X, c, b)
  <2>1. IsFile(tb, h, i) /\ FirstAt(F, tb, pt, h, i) = c
    BY <1>1 DEF c
  <2>2. Busy(G, Path(tb, pt, h, i))
    BY <1>9 DEF p
  <2>3. b # 0 => b \in Held(ch2, tb, {})
    BY <1>2, <1>5, <1>6
  <2> QED
    BY <1>10, <1>11, <1>12, <1>13, <2>1, <2>2, <2>3 DEF SpotChanges, p
<1> QED
  BY <1>2, <1>14, SpotPasses DEF G

Unused(F, tb, pt, h, i) == \A f \in Fil : ~OpenAt(F, f, Path(tb, pt, h, i))

\* f is the one file object of the file at position i of the table at h.
Mine(F, ch, tb, pt, f, h, i) ==
    /\ HasFile(F, ch, tb, pt, f, h, i) /\ FirstAt(F, tb, pt, h, i) = F[f].sclust
    /\ \A g \in Fil : g # f => ~OpenAt(F, g, Path(tb, pt, h, i))

\* An open file has an entry and no other file object.
LEMMA MineIs ==
    ASSUME NEW F, NEW ch, NEW tb, NEW pt, NEW E, FilesForm(F, ch, tb, pt, E), NEW f \in Fil, F[f].open
    PROVE  \E h, i : Mine(F, ch, tb, pt, f, h, i)
<1>1. PICK h, i : HasFile(F, ch, tb, pt, f, h, i)
  BY DEF FilesForm
<1>2. \A g, e \in Fil : F[g].open /\ F[e].open /\ F[e].path = F[g].path => g = e
  BY DEF FilesForm
<1>3. OpenAt(F, f, Path(tb, pt, h, i))
  BY <1>1 DEF HasFile
<1>4. FirstAt(F, tb, pt, h, i) = F[f].sclust
  BY <1>2, <1>3, FirstIs DEF FirstAt
<1>5. \A g \in Fil : g # f => ~OpenAt(F, g, Path(tb, pt, h, i))
  BY <1>2, <1>3 DEF OpenAt
<1> QED
  BY <1>1, <1>4, <1>5 DEF Mine

\* The data of a file that is not open begin where its entry says.
LEMMA UnusedFirst ==
    ASSUME NEW F, NEW tb, NEW pt, NEW h, NEW i, Unused(F, tb, pt, h, i)
    PROVE  FirstAt(F, tb, pt, h, i) = tb[h][i].clust /\ ~Busy(F, Path(tb, pt, h, i))
BY DEF Unused, FirstAt, First, Busy

\* Nobody uses the object at position i of the table at h, before or after, and
\* afterwards it has no data; what it had is in hand or has gone.
UnusedChanges(F, ch, tb, pt, E, ch2, tb2, pt2, D, h, i, c) ==
    /\ \A a, k : ~(a = h /\ k = i) => SameSpot(tb, tb2, a, k)
    /\ \A a, k : ~(a = h /\ k = i) /\ IsFile(tb, a, k) => ch2[a][At(k)] = ch[a][At(k)] /\ pt2[a] = pt[a]
    /\ IsFile(tb, h, i) => Unused(F, tb, pt, h, i)
    /\ IsFile(tb2, h, i) => Unused(F, tb2, pt2, h, i) /\ tb2[h][i].clust = 0 /\ tb2[h][i].size = 0
    /\ IF IsFile(tb, h, i) THEN c = tb[h][i].clust ELSE c = 0
    /\ \A e : e # c => /\ e \in Held(ch2, tb2, D) <=> e \in Held(ch, tb, E)
                       /\ e \in Held(ch, tb, E) => ch2[e] = ch[e]
    /\ c \notin Held(ch2, tb2, D)

\* A file that is not open comes without data, goes or is emptied.
LEMMA UnusedPasses ==
    ASSUME NEW F, NEW ch, NEW tb, NEW pt, NEW E, Tree(tb, pt), FilesForm(F, ch, tb, pt, E),
           NEW ch2, NEW tb2, NEW pt2, NEW D, Tree(tb2, pt2), 0 \notin DOMAIN ch,
           0 \notin DOMAIN ch2, NEW h, NEW i, NEW c,
           UnusedChanges(F, ch, tb, pt, E, ch2, tb2, pt2, D, h, i, c)
    PROVE  FilesForm(F, ch2, tb2, pt2, D)
<1>1. 0 \notin Held(ch, tb, E) /\ 0 \notin Held(ch2, tb2, D)
  BY DEF Held
<1>2. IsFile(tb, h, i) => FirstAt(F, tb, pt, h, i) = c
  BY UnusedFirst DEF UnusedChanges
<1>3. IsFile(tb2, h, i) => FirstAt(F, tb2, pt2, h, i) = 0 /\ Reaches(ch2, tb2[h][i].clust, tb2[h][i].size)
  BY UnusedFirst DEF UnusedChanges, Reaches
<1>4. c # 0 => IsFile(tb, h, i)
  BY DEF UnusedChanges
<1> DEFINE X == {}
<1>5. /\ X \subseteq Fil /\ \A g, e \in X : g = e
      /\ \A g \in Fil : g \notin X => /\ F[g] = F[g]
                                      /\ IsFile(tb, h, i) => ~OpenAt(F, g, Path(tb, pt, h, i))
                                      /\ IsFile(tb2, h, i) => ~OpenAt(F, g, Path(tb2, pt2, h, i))
      /\ \A g \in X : /\ F[g].open => IsFile(tb, h, i) /\ OpenAt(F, g, Path(tb, pt, h, i))
                      /\ F[g].open => HasFile(F, ch2, tb2, pt2, g, h, i)
  BY DEF UnusedChanges, Unused
<1> HIDE DEF X
<1>6. SpotChanges(F, ch, tb, pt, E, F, ch2, tb2, pt2, D, h, i, X, c, 0)
  <2>1. /\ \A a, k : ~(a = h /\ k = i) => SameSpot(tb, tb2, a, k)
        /\ \A a, k : ~(a = h /\ k = i) /\ IsFile(tb, a, k) => ch2[a][At(k)] = ch[a][At(k)] /\ pt2[a] = pt[a]
        /\ \A e : e # c => /\ e \in Held(ch2, tb2, D) <=> e \in Held(ch, tb, E)
                           /\ e \in Held(ch, tb, E) => ch2[e] = ch[e]
        /\ c \notin Held(ch2, tb2, D)
    BY DEF UnusedChanges
  <2> QED
    BY <1>1, <1>2, <1>3, <1>4, <1>5, <2>1 DEF SpotChanges
<1> QED
  BY <1>6, SpotPasses

\* Only clusters in hand, or the tables behind what they held, change.
HandChanges(ch, tb, pt, E, ch2, tb2, pt2, D) ==
    /\ \A a, k : SameSpot(tb, tb2, a, k)
    /\ \A a, k : IsFile(tb, a, k) => ch2[a][At(k)] = ch[a][At(k)] /\ pt2[a] = pt[a]
    /\ \A e : e # 0 => /\ e \in Held(ch2, tb2, D) <=> e \in Held(ch, tb, E)
                       /\ e \in Held(ch, tb, E) => ch2[e] = ch[e]

\* Clusters a call has in hand come and go.
LEMMA HandPasses ==
    ASSUME NEW F, NEW ch, NEW tb, NEW pt, NEW E, Tree(tb, pt), FilesForm(F, ch, tb, pt, E),
           NEW ch2, NEW tb2, NEW pt2, NEW D, Tree(tb2, pt2), 0 \notin DOMAIN ch,
           0 \notin DOMAIN ch2, 0 \notin DOMAIN tb, HandChanges(ch, tb, pt, E, ch2, tb2, pt2, D)
    PROVE  FilesForm(F, ch2, tb2, pt2, D)
<1>1. ~IsFile(tb, 0, 0)
  BY DEF IsFile, Listed
<1>2. ~IsFile(tb2, 0, 0)
  BY <1>1 DEF HandChanges, SameSpot
<1>3. 0 \notin Held(ch2, tb2, D)
  BY DEF Held
<1>4. UnusedChanges(F, ch, tb, pt, E, ch2, tb2, pt2, D, 0, 0, 0)
  BY <1>1, <1>2, <1>3 DEF UnusedChanges, HandChanges
<1> QED
  BY <1>4, UnusedPasses

\* The entry of an open file is written, or its file object closed, or both.
LEMMA EntryPasses ==
    ASSUME NEW F, DOMAIN F = Fil, NEW ch, NEW tb, NEW pt, Tree(tb, pt), FilesForm(F, ch, tb, pt, {}),
           0 \notin DOMAIN ch, NEW h, NEW i, NEW f \in Fil, Mine(F, ch, tb, pt, f, h, i),
           NEW tb2, Tree(tb2, pt), DOMAIN tb2 = DOMAIN tb, IsFile(tb2, h, i), NameAt(tb2[h], i) = NameAt(tb[h], i),
           \A a, k : ~(a = h /\ k = i) => SameSpot(tb, tb2, a, k),
           NEW after,
           after.open => after = F[f] /\ HasFile(F, ch, tb2, pt, f, h, i),
           ~after.open => tb2[h][i].clust = F[f].sclust /\ tb2[h][i].size = F[f].objsize
    PROVE  FilesForm([F EXCEPT ![f] = after], ch, tb2, pt, {})
<1> DEFINE G == [F EXCEPT ![f] = after]
           p == Path(tb, pt, h, i)
           b == F[f].sclust
           X == {f}
           H == Held(ch, tb, {})
<1>1. G[f] = after /\ \A g \in Fil : g # f => G[g] = F[g]
  OBVIOUS
<1>2. Path(tb2, pt, h, i) = p
  BY DEF Path
<1>3. /\ IsFile(tb, h, i) /\ OpenAt(F, f, p) /\ FirstAt(F, tb, pt, h, i) = b
      /\ \A g \in Fil : g # f => ~OpenAt(F, g, p)
      /\ Handle(F[f], ch, tb[h][i], ch[h][At(i)], In(i))
  BY DEF Mine, HasFile
<1>4. b \in {0} \cup H
  BY <1>3 DEF FilesForm
<1>5. Held(ch, tb2, {}) = H
  BY DEF Held
<1> HIDE DEF G, p, b, X, H
<1>6. FirstAt(G, tb2, pt, h, i) = b /\ (Busy(G, p) \/ Reaches(ch, tb2[h][i].clust, tb2[h][i].size))
  <2>1. CASE after.open
    <3>1. OpenAt(G, f, p) /\ \A g \in Fil : OpenAt(G, g, p) => g = f
      BY <1>1, <1>3, <2>1 DEF OpenAt
    <3>2. (CHOOSE g \in Fil : OpenAt(G, g, p)) = f
      BY <3>1
    <3>3. Busy(G, p)
      BY <3>1 DEF Busy
    <3> QED
      BY <1>1, <1>2, <2>1, <3>2, <3>3 DEF FirstAt, First, b
  <2>2. CASE ~after.open
    <3>1. ~Busy(G, p)
      BY <1>1, <1>3, <2>2 DEF Busy, OpenAt
    <3>2. FirstAt(G, tb2, pt, h, i) = tb2[h][i].clust
      BY <1>2, <3>1 DEF FirstAt, First
    <3>3. Reaches(ch, F[f].sclust, F[f].objsize)
      BY <1>3 DEF Handle
    <3> QED
      BY <2>2, <3>2, <3>3 DEF b
  <2> QED
    BY <2>1, <2>2
<1>7. /\ X \subseteq Fil /\ \A g, e \in X : g = e
      /\ \A g \in Fil : g \notin X => /\ G[g] = F[g]
                                      /\ IsFile(tb, h, i) => ~OpenAt(F, g, p)
                                      /\ IsFile(tb2, h, i) => ~OpenAt(G, g, p)
      /\ \A g \in X : /\ F[g].open => IsFile(tb, h, i) /\ OpenAt(F, g, p)
                      /\ G[g].open => HasFile(G, ch, tb2, pt, g, h, i)
  <2>1. G[f].open => HasFile(G, ch, tb2, pt, f, h, i)
    BY <1>1 DEF HasFile, OpenAt
  <2> QED
    BY <1>1, <1>3, <2>1 DEF X, OpenAt
<1>8. SpotChanges(F, ch, tb, pt, {}, G, ch, tb2, pt, {}, h, i, X, b, b)
  BY <1>2, <1>3, <1>4, <1>5, <1>6, <1>7 DEF SpotChanges, p, H
<1> QED
  BY <1>8, SpotPasses DEF G

-----------------------------------------------------------------------------
(* The shape of the volume, and what a step has to show; f_read.           *)

Whole(vol, F, ch, tb, pt) == Stored(vol, ch, tb) /\ Tree(tb, pt) /\ FilesForm(F, ch, tb, pt, {})
Good(vol, F) == \E ch, tb, pt : Whole(vol, F, ch, tb, pt)

FilFields == {"open", "path", "dir_sect", "dir_slot", "sclust", "objsize", "fptr", "clust",
            "write", "read", "modified", "cut", "err"}

\* File objects have their fields.
Typed(F) == DOMAIN F = Fil /\ F = [f \in Fil |-> F[f]] /\ \A f \in Fil : F[f].open => DOMAIN F[f] = FilFields

\* File objects keep their fields.
LEMMA TypedStays ==
    ASSUME NEW F, Typed(F), NEW f \in Fil, NEW o, o.open => DOMAIN o = FilFields
    PROVE  Typed([F EXCEPT ![f] = o])
BY DEF Typed

\* What Chains says of one chain.
LEMMA ChainHas ==
    ASSUME NEW vol, NEW ch, Chains(vol, ch), NEW h \in DOMAIN ch
    PROVE  /\ ch[h] \in Seq(Cluster) /\ Len(ch[h]) \in Nat \ {0} /\ ch[h][1] = h
           /\ \A j \in 1 .. Len(ch[h]) : ch[h][j] \in Cluster
           /\ \A j \in 1 .. Len(ch[h]) - 1 : FatOf(vol, ch[h][j]) = ch[h][j + 1]
           /\ FatOf(vol, ch[h][Len(ch[h])]) = Eoc
<1>1. Linked(vol, ch[h]) /\ ch[h][1] = h
  BY DEF Chains
<1> DEFINE s == ch[h]
<1>2. /\ s \in Seq(Cluster) /\ s # <<>> /\ \A j \in 1 .. Len(s) - 1 : FatOf(vol, s[j]) = s[j + 1]
      /\ FatOf(vol, s[Len(s)]) = Eoc
  BY <1>1 DEF Linked
<1> HIDE DEF s
<1>3. Len(s) \in Nat \ {0} /\ \A j \in 1 .. Len(s) : s[j] \in Cluster
  BY <1>2
<1> QED
  BY <1>1, <1>2, <1>3 DEF s

\* The next cluster of a file object that is not at its end is on its chain.
LEMMA NextIs ==
    ASSUME NEW vol, NEW ch, Chains(vol, ch), NEW o, NEW x, NEW c, NEW k, Handle(o, ch, x, c, k),
           o.fptr < o.objsize
    PROVE  /\ o.sclust \in DOMAIN ch /\ o.fptr + 1 \in 1 .. Len(ch[o.sclust]) /\ o.fptr \in Nat
           /\ ch[o.sclust][o.fptr + 1] \in Cluster
           /\ o.fptr = 0 => o.sclust = ch[o.sclust][o.fptr + 1]
           /\ o.fptr # 0 => /\ o.fptr \in 1 .. Len(ch[o.sclust]) - 1 /\ o.clust = ch[o.sclust][o.fptr]
                            /\ FatOf(vol, o.clust) = ch[o.sclust][o.fptr + 1]
<1>1. /\ o.objsize \in Nat /\ o.fptr \in 0 .. o.objsize
      /\ o.sclust # 0 /\ o.sclust \in DOMAIN ch /\ o.objsize <= Len(ch[o.sclust])
  BY HandleReaches
<1>2. o.fptr > 0 => o.clust = ch[o.sclust][o.fptr]
  BY DEF Handle
<1> DEFINE s == ch[o.sclust]
<1>3. /\ Len(s) \in Nat \ {0} /\ s[1] = o.sclust /\ \A j \in 1 .. Len(s) : s[j] \in Cluster
      /\ \A j \in 1 .. Len(s) - 1 : FatOf(vol, s[j]) = s[j + 1]
  BY <1>1, ChainHas
<1> HIDE DEF s
<1>4. o.fptr + 1 \in 1 .. Len(s) /\ o.fptr \in Nat /\ (o.fptr # 0 => o.fptr \in 1 .. Len(s) - 1)
  BY <1>1, <1>3 DEF s
<1> QED
  BY <1>1, <1>2, <1>3, <1>4 DEF s

\* What an operation on an open file has to leave behind.
Leaves(F, ch, tb, pt, f, h, i, ch2, o) ==
    /\ Mine(F, ch, tb, pt, f, h, i) /\ o.open /\ o.path = F[f].path
    /\ Rechained(ch, ch2, F[f].sclust, o.sclust)
    /\ Handle(o, ch2, tb[h][i], ch[h][At(i)], In(i))

\* FileChanges for the whole volume.
LEMMA FileUsed ==
    ASSUME NEW F, Typed(F), NEW v, NEW ch, NEW tb, NEW pt, Whole(v, F, ch, tb, pt), NEW f \in Fil,
           NEW w, NEW ch2, Stored(w, ch2, tb), NEW h, NEW i, NEW o, Leaves(F, ch, tb, pt, f, h, i, ch2, o)
    PROVE  Whole(w, [F EXCEPT ![f] = o], ch2, tb, pt)
<1>1. 0 \notin DOMAIN ch2
  BY HeadsAre DEF Stored
<1>2. DOMAIN F = Fil
  BY DEF Typed
<1>3. Takes(F, ch, tb, pt, ch2, h, i, f, o)
  <2>1. /\ IsFile(tb, h, i) /\ F[f].path = Path(tb, pt, h, i) /\ FirstAt(F, tb, pt, h, i) = F[f].sclust
        /\ \A g \in Fil : g # f => ~OpenAt(F, g, Path(tb, pt, h, i))
    BY DEF Leaves, Mine, HasFile, OpenAt
  <2> QED
    BY <2>1 DEF Leaves, Takes
<1>4. FilesForm([F EXCEPT ![f] = o], ch2, tb, pt, {})
  BY <1>1, <1>2, <1>3, FileChanges DEF Whole
<1> QED
  BY <1>4 DEF Whole

\* No chain has changed.
LEMMA SameChained ==
    ASSUME NEW ch, NEW b, b = 0 \/ b \in DOMAIN ch
    PROVE  Rechained(ch, ch, b, b)
BY DEF Rechained

-----------------------------------------------------------------------------
(* What lies in the files.                                                 *)

\* The length of the file with the entry x at the path p, as First has its first cluster.
Long(F, p, x) == IF Busy(F, p) THEN F[CHOOSE f \in Fil : OpenAt(F, f, p)].objsize ELSE x.size
LongAt(F, tb, pt, h, i) == Long(F, Path(tb, pt, h, i), tb[h][i])

\* The data D lies on the first n clusters of s, but for what was never written.
Holds(vol, s, n, D) ==
    /\ Len(D) = n /\ D = [j \in 1 .. n |-> D[j]]
    /\ \A j \in 1 .. n : D[j] \in {[dat |-> "?"], vol[Data(s[j])]}

HasData(vol, F, ch, tb, pt, h, i, y) ==
    y = File(y.data) /\ Holds(vol, ch[FirstAt(F, tb, pt, h, i)], LongAt(F, tb, pt, h, i), y.data)

\* What the callers put at the path of a spot is there.
ShownAt(vol, F, ch, tb, pt, W, h, i) ==
    /\ Path(tb, pt, h, i) \in DOMAIN W
    /\ IsDir(tb, h, i) => W[Path(tb, pt, h, i)] = Directory
    /\ IsFile(tb, h, i) => HasData(vol, F, ch, tb, pt, h, i, W[Path(tb, pt, h, i)])

Matches(vol, F, ch, tb, pt, W) ==
    /\ \A h, i : Listed(tb, h, i) => ShownAt(vol, F, ch, tb, pt, W, h, i)
    /\ \A q \in DOMAIN W : \E h, i : Listed(tb, h, i) /\ Path(tb, pt, h, i) = q

\* The file objects of the file at a spot are the same in F and G.
Steady(F, tb, pt, G, tb2, pt2, h, i) ==
    \A f \in Fil : /\ OpenAt(G, f, Path(tb2, pt2, h, i)) <=> OpenAt(F, f, Path(tb, pt, h, i))
                   /\ OpenAt(F, f, Path(tb, pt, h, i)) => G[f] = F[f]

\* The chain at c and the data on it are the same.
CarriesOn(v, ch, w, ch2, c) ==
    ch2[c] = ch[c] /\ \A j \in 1 .. Len(ch[c]) : w[Data(ch[c][j])] = v[Data(ch[c][j])]

\* An open file is as long as its file object says, another one as its entry does.
LEMMA LongIs ==
    ASSUME NEW F, \A f, g \in Fil : F[f].open /\ F[g].open /\ F[g].path = F[f].path => f = g,
           NEW p, NEW x
    PROVE  /\ \A f \in Fil : OpenAt(F, f, p) => Busy(F, p) /\ Long(F, p, x) = F[f].objsize
           /\ ~Busy(F, p) => Long(F, p, x) = x.size
<1>1. ASSUME NEW f \in Fil, OpenAt(F, f, p) PROVE Busy(F, p) /\ Long(F, p, x) = F[f].objsize
  <2>1. Busy(F, p)
    BY <1>1 DEF Busy
  <2>2. \A g \in Fil : OpenAt(F, g, p) => g = f
    BY <1>1 DEF OpenAt
  <2>3. (CHOOSE g \in Fil : OpenAt(F, g, p)) = f
    BY <1>1, <2>2
  <2> QED
    BY <2>1, <2>3 DEF Long
<1> QED
  BY <1>1 DEF Long

\* The same file objects and the same entry: the same data.
LEMMA SteadyFirst ==
    ASSUME NEW F, \A f, g \in Fil : F[f].open /\ F[g].open /\ F[g].path = F[f].path => f = g,
           NEW tb, NEW pt, NEW G, NEW tb2, NEW pt2, NEW h, NEW i,
           Steady(F, tb, pt, G, tb2, pt2, h, i), tb2[h][i] = tb[h][i]
    PROVE  /\ FirstAt(G, tb2, pt2, h, i) = FirstAt(F, tb, pt, h, i)
           /\ LongAt(G, tb2, pt2, h, i) = LongAt(F, tb, pt, h, i)
<1> DEFINE p == Path(tb, pt, h, i)
           p2 == Path(tb2, pt2, h, i)
           x == tb[h][i]
<1>1. \A f \in Fil : (OpenAt(G, f, p2) <=> OpenAt(F, f, p)) /\ (OpenAt(F, f, p) => G[f] = F[f])
  BY DEF Steady
<1> HIDE DEF p, p2, x
<1>2. First(G, p2, x) = First(F, p, x) /\ Long(G, p2, x) = Long(F, p, x)
  <2>1. CASE Busy(F, p)
    <3>1. PICK f \in Fil : OpenAt(F, f, p)
      BY <2>1 DEF Busy
    <3>2. OpenAt(G, f, p2) /\ G[f] = F[f]
      BY <1>1, <3>1
    <3>3. First(F, p, x) = F[f].sclust /\ Long(F, p, x) = F[f].objsize
      BY <3>1, FirstIs, LongIs
    <3>4. \A g \in Fil : OpenAt(G, g, p2) => g = f
      BY <1>1, <3>1 DEF OpenAt
    <3>5. (CHOOSE g \in Fil : OpenAt(G, g, p2)) = f
      BY <3>2, <3>4
    <3>6. Busy(G, p2)
      BY <3>2 DEF Busy
    <3>7. First(G, p2, x) = G[f].sclust /\ Long(G, p2, x) = G[f].objsize
      BY <3>5, <3>6 DEF First, Long
    <3> QED
      BY <3>2, <3>3, <3>7
  <2>2. CASE ~Busy(F, p)
    <3>1. ~Busy(G, p2)
      BY <1>1, <2>2 DEF Busy
    <3> QED
      BY <2>2, <3>1 DEF First, Long
  <2> QED
    BY <2>1, <2>2
<1> QED
  BY <1>2 DEF FirstAt, LongAt, p, p2, x

\* A file has a chain long enough.
LEMMA LongFits ==
    ASSUME NEW F, NEW ch, NEW tb, NEW pt, NEW E, FilesForm(F, ch, tb, pt, E), Tree(tb, pt),
           NEW h, NEW i, IsFile(tb, h, i), NEW c, c = FirstAt(F, tb, pt, h, i)
    PROVE  /\ LongAt(F, tb, pt, h, i) \in Nat
           /\ c = 0 => LongAt(F, tb, pt, h, i) = 0
           /\ c # 0 => c \in Held(ch, tb, E) /\ LongAt(F, tb, pt, h, i) <= Len(ch[c])
<1> DEFINE p == Path(tb, pt, h, i)
           x == tb[h][i]
           n == LongAt(F, tb, pt, h, i)
<1>1. \A f, g \in Fil : F[f].open /\ F[g].open /\ F[g].path = F[f].path => f = g
  BY DEF FilesForm
<1>2. c \in {0} \cup Held(ch, tb, E)
  BY DEF FilesForm
<1>3. n \in Nat /\ Reaches(ch, c, n)
  <2>1. CASE Busy(F, p)
    <3>1. PICK f \in Fil : OpenAt(F, f, p)
      BY <2>1 DEF Busy
    <3>2. PICK a, k : Mine(F, ch, tb, pt, f, a, k)
      BY <3>1, MineIs DEF OpenAt
    <3>3. a = h /\ k = i
      <4>1. IsFile(tb, a, k) /\ OpenAt(F, f, Path(tb, pt, a, k))
        BY <3>2 DEF Mine, HasFile
      <4>2. Path(tb, pt, a, k) = p
        BY <3>1, <4>1 DEF OpenAt
      <4> QED
        BY <4>1, <4>2, PathsApart DEF IsFile
    <3>4. Handle(F[f], ch, x, ch[h][At(i)], In(i)) /\ c = F[f].sclust
      BY <3>2, <3>3 DEF Mine, HasFile
    <3>5. n = F[f].objsize
      BY <1>1, <3>1, LongIs DEF LongAt
    <3> QED
      BY <3>4, <3>5 DEF Handle
  <2>2. CASE ~Busy(F, p)
    <3>1. n = x.size /\ c = x.clust
      BY <1>1, <2>2, LongIs, FirstIs DEF LongAt, FirstAt
    <3>2. Reaches(ch, x.clust, x.size)
      BY <2>2 DEF FilesForm
    <3>3. x.size \in Nat
      BY DEF Tree, IsFile, Listed, WellFormed, IsObject
    <3> QED
      BY <3>1, <3>2, <3>3
  <2> QED
    BY <2>1, <2>2
<1> HIDE DEF n
<1> QED
  BY <1>2, <1>3 DEF Reaches, n

\* Data that nothing has touched is still there.
LEMMA DataCarried ==
    ASSUME NEW F, NEW ch, NEW tb, NEW pt, NEW E, FilesForm(F, ch, tb, pt, E), Tree(tb, pt),
           NEW h, NEW i, IsFile(tb, h, i), NEW v, NEW y, HasData(v, F, ch, tb, pt, h, i, y),
           NEW G, NEW tb2, NEW pt2, Steady(F, tb, pt, G, tb2, pt2, h, i), tb2[h][i] = tb[h][i],
           NEW w, NEW ch2, NEW c, c = FirstAt(F, tb, pt, h, i), c = 0 \/ CarriesOn(v, ch, w, ch2, c)
    PROVE  HasData(w, G, ch2, tb2, pt2, h, i, y)
<1> DEFINE n == LongAt(F, tb, pt, h, i)
           D == y.data
<1>1. \A f, g \in Fil : F[f].open /\ F[g].open /\ F[g].path = F[f].path => f = g
  BY DEF FilesForm
<1>2. FirstAt(G, tb2, pt2, h, i) = c /\ LongAt(G, tb2, pt2, h, i) = n
  BY <1>1, SteadyFirst
<1>3. n \in Nat /\ (c = 0 => n = 0) /\ (c # 0 => n <= Len(ch[c]))
  BY LongFits
<1>4. y = File(D) /\ Holds(v, ch[c], n, D)
  BY DEF HasData
<1>5. c # 0 => Len(ch[c]) \in Nat
  OBVIOUS
<1> HIDE DEF n, D
<1>6. Holds(w, ch2[c], n, D)
  <2>1. \A j \in 1 .. n : w[Data(ch2[c][j])] = v[Data(ch[c][j])]
    BY <1>3, <1>5 DEF CarriesOn
  <2> QED
    BY <1>4, <2>1 DEF Holds
<1> QED
  BY <1>2, <1>4, <1>6 DEF HasData, D

\* A spot whose file nobody touched shows the same at its path, which may be another one.
Carries(v, F, ch, tb, pt, W, w, G, ch2, tb2, pt2, W2, h, i) ==
    /\ SameSpot(tb, tb2, h, i)
    /\ Listed(tb, h, i) => /\ Path(tb2, pt2, h, i) \in DOMAIN W2
                           /\ W2[Path(tb2, pt2, h, i)] = W[Path(tb, pt, h, i)]
    /\ IsFile(tb, h, i) => /\ Steady(F, tb, pt, G, tb2, pt2, h, i)
                           /\ LET c == FirstAt(F, tb, pt, h, i) IN c = 0 \/ CarriesOn(v, ch, w, ch2, c)

\* The volume matches what was written again, if every place outside P carries over and
\* every object of P is shown as it should be.
LEMMA MatchesPass ==
    ASSUME NEW F, NEW ch, NEW tb, NEW pt, NEW E, FilesForm(F, ch, tb, pt, E), Tree(tb, pt),
           NEW v, NEW W, Matches(v, F, ch, tb, pt, W),
           NEW w, NEW G, NEW ch2, NEW tb2, NEW pt2, NEW W2, NEW P,
           \A h, i : <<h, i>> \notin P => Carries(v, F, ch, tb, pt, W, w, G, ch2, tb2, pt2, W2, h, i),
           \A h, i : <<h, i>> \in P /\ Listed(tb2, h, i) => ShownAt(w, G, ch2, tb2, pt2, W2, h, i),
           \A q \in DOMAIN W2 : \E h, i : Listed(tb2, h, i) /\ Path(tb2, pt2, h, i) = q
    PROVE  Matches(w, G, ch2, tb2, pt2, W2)
<1>1. ASSUME NEW h, NEW i, <<h, i>> \notin P, Listed(tb2, h, i) PROVE ShownAt(w, G, ch2, tb2, pt2, W2, h, i)
  <2>1. Carries(v, F, ch, tb, pt, W, w, G, ch2, tb2, pt2, W2, h, i)
    BY <1>1
  <2>2. /\ Listed(tb, h, i) /\ tb2[h][i] = tb[h][i]
        /\ (IsDir(tb2, h, i) <=> IsDir(tb, h, i)) /\ (IsFile(tb2, h, i) <=> IsFile(tb, h, i))
    BY <1>1, <2>1 DEF Carries, SameSpot
  <2>3. /\ Path(tb2, pt2, h, i) \in DOMAIN W2
        /\ W2[Path(tb2, pt2, h, i)] = W[Path(tb, pt, h, i)]
    BY <2>1, <2>2 DEF Carries
  <2>4. ShownAt(v, F, ch, tb, pt, W, h, i)
    BY <2>2 DEF Matches
  <2>5. IsDir(tb2, h, i) => W2[Path(tb2, pt2, h, i)] = Directory
    BY <2>2, <2>3, <2>4 DEF ShownAt
  <2>6. ASSUME IsFile(tb2, h, i) PROVE HasData(w, G, ch2, tb2, pt2, h, i, W2[Path(tb2, pt2, h, i)])
    <3> DEFINE c == FirstAt(F, tb, pt, h, i)
               y == W[Path(tb, pt, h, i)]
    <3>1. IsFile(tb, h, i) /\ HasData(v, F, ch, tb, pt, h, i, y)
      BY <2>2, <2>4, <2>6 DEF ShownAt
    <3>2. Steady(F, tb, pt, G, tb2, pt2, h, i) /\ (c = 0 \/ CarriesOn(v, ch, w, ch2, c))
      BY <2>1, <3>1 DEF Carries
    <3> HIDE DEF y
    <3>3. HasData(w, G, ch2, tb2, pt2, h, i, y)
      BY <2>2, <3>1, <3>2, DataCarried
    <3> QED
      BY <2>3, <3>3 DEF y
  <2> QED
    BY <2>3, <2>5, <2>6 DEF ShownAt
<1> QED
  BY <1>1 DEF Matches

\* A chain of v that w has too, away from the clusters X that were written.
LEMMA AwayFrom ==
    ASSUME NEW v, NEW ch, NEW e, NEW w, NEW ch2, Chains(w, ch2), e \in DOMAIN ch2, ch2[e] = ch[e],
           NEW X, Only(v, w, X), \A x \in X : ~On(ch2[e], x)
    PROVE  CarriesOn(v, ch, w, ch2, e)
<1>1. \A j \in 1 .. Len(ch[e]) : ch2[e][j] \in Cluster /\ On(ch2[e], ch2[e][j])
  BY ChainHas DEF On
<1> QED
  BY <1>1 DEF CarriesOn, Only

\* The same with the chains before.
LEMMA AwayBefore ==
    ASSUME NEW v, NEW ch, Chains(v, ch), NEW e \in DOMAIN ch, NEW w, NEW ch2, ch2[e] = ch[e],
           NEW X, Only(v, w, X), \A x \in X : ~On(ch[e], x)
    PROVE  CarriesOn(v, ch, w, ch2, e)
<1>1. \A j \in 1 .. Len(ch[e]) : ch[e][j] \in Cluster /\ On(ch[e], ch[e][j])
  BY ChainHas DEF On
<1> QED
  BY <1>1 DEF CarriesOn, Only

\* The volume is whole and shows what the callers made.
Intact(vol, F, ch, tb, pt, W) == Whole(vol, F, ch, tb, pt) /\ Matches(vol, F, ch, tb, pt, W)
Faithful(vol, F, W) == \E ch, tb, pt : Intact(vol, F, ch, tb, pt, W)

\* Clusters that have the same data hold the same.
LEMMA HoldsStill ==
    ASSUME NEW v, NEW s, NEW n, NEW D, Holds(v, s, n, D), NEW w, NEW s2,
           \A j \in 1 .. n : w[Data(s2[j])] = v[Data(s[j])]
    PROVE  Holds(w, s2, n, D)
BY DEF Holds

\* What an open file holds.
LEMMA MineHolds ==
    ASSUME NEW v, NEW F, NEW ch, NEW tb, NEW pt, NEW W, Intact(v, F, ch, tb, pt, W),
           NEW f \in Fil, NEW h, NEW i, Mine(F, ch, tb, pt, f, h, i)
    PROVE  /\ F[f].path \in DOMAIN W /\ W[F[f].path] = File(W[F[f].path].data)
           /\ Holds(v, ch[F[f].sclust], F[f].objsize, W[F[f].path].data)
           /\ F[f].objsize \in Nat
<1> DEFINE p == Path(tb, pt, h, i)
<1>1. FilesForm(F, ch, tb, pt, {}) /\ Matches(v, F, ch, tb, pt, W)
  BY DEF Intact, Whole
<1>2. /\ IsFile(tb, h, i) /\ OpenAt(F, f, p) /\ FirstAt(F, tb, pt, h, i) = F[f].sclust
      /\ Handle(F[f], ch, tb[h][i], ch[h][At(i)], In(i))
  BY DEF Mine, HasFile
<1>3. \A g, e \in Fil : F[g].open /\ F[e].open /\ F[e].path = F[g].path => g = e
  BY <1>1 DEF FilesForm
<1>4. LongAt(F, tb, pt, h, i) = F[f].objsize
  BY <1>2, <1>3, LongIs DEF LongAt
<1>5. ShownAt(v, F, ch, tb, pt, W, h, i)
  BY <1>1, <1>2 DEF Matches, IsFile
<1>6. F[f].path = p
  BY <1>2 DEF OpenAt
<1>7. p \in DOMAIN W /\ HasData(v, F, ch, tb, pt, h, i, W[p])
  BY <1>2, <1>5 DEF ShownAt
<1>8. F[f].objsize \in Nat
  BY <1>2 DEF Handle
<1> HIDE DEF p
<1> QED
  BY <1>2, <1>4, <1>6, <1>7, <1>8 DEF HasData

\* Only the file at p is another one.
Turned(W, W2, p, D) ==
    DOMAIN W2 = DOMAIN W /\ W2[p] = File(D) /\ \A q \in DOMAIN W : q # p => W2[q] = W[q]

\* What was written lies on the chain of the file.
Within(ch2, b, X) == \A x \in X : b \in DOMAIN ch2 /\ On(ch2[b], x)

\* One open file has other clusters or other data, and all the rest stays: the volume
\* holds what was written, the file at that path holding D.
LEMMA FileShown ==
    ASSUME NEW F, Typed(F), NEW v, NEW ch, NEW tb, NEW pt, NEW W, Intact(v, F, ch, tb, pt, W), NEW f \in Fil,
           NEW w, NEW ch2, Stored(w, ch2, tb), NEW h, NEW i, NEW o, Leaves(F, ch, tb, pt, f, h, i, ch2, o),
           NEW X, Only(v, w, X), Within(ch2, o.sclust, X),
           NEW D, Holds(w, ch2[o.sclust], o.objsize, D), NEW W2, Turned(W, W2, F[f].path, D)
    PROVE  Intact(w, [F EXCEPT ![f] = o], ch2, tb, pt, W2)
<1> DEFINE G == [F EXCEPT ![f] = o]
           p == Path(tb, pt, h, i)
           b == o.sclust
           s == F[f].sclust
           P == {<<h, i>>}
           z == {}
<1>1. /\ FilesForm(F, ch, tb, pt, {}) /\ Tree(tb, pt) /\ Matches(v, F, ch, tb, pt, W)
      /\ Chains(v, ch) /\ Chains(w, ch2)
  BY DEF Intact, Whole, Stored
<1>2. /\ IsFile(tb, h, i) /\ OpenAt(F, f, p) /\ FirstAt(F, tb, pt, h, i) = s
      /\ \A g \in Fil : g # f => ~OpenAt(F, g, p)
  BY DEF Leaves, Mine, HasFile
<1>3. o.open /\ o.path = p /\ F[f].path = p /\ Rechained(ch, ch2, s, b)
  BY <1>2 DEF Leaves, OpenAt
<1>4. G[f] = o /\ \A g \in Fil : g # f => G[g] = F[g]
  BY DEF Typed
<1>5. Whole(w, G, ch2, tb, pt)
  BY FileUsed DEF Intact
<1>6. DOMAIN W2 = DOMAIN W /\ W2[p] = File(D) /\ \A q \in DOMAIN W : q # p => W2[q] = W[q]
  BY <1>3 DEF Turned
<1>7. Holds(w, ch2[b], o.objsize, D) /\ \A x \in X : b \in DOMAIN ch2 /\ On(ch2[b], x)
  BY DEF Within
<1>8. \A a, k : <<a, k>> \in P <=> a = h /\ k = i
  OBVIOUS
<1>9. Matches(v, F, ch, tb, pt, W) /\ FilesForm(F, ch, tb, pt, z)
  BY <1>1
<1> HIDE DEF G, p, b, s, P, z
<1>10. ASSUME NEW a, NEW k, Listed(tb, a, k) PROVE Path(tb, pt, a, k) \in DOMAIN W
  BY <1>1, <1>10 DEF Matches, ShownAt
<1>11. ASSUME NEW a, NEW k, <<a, k>> \notin P, Listed(tb, a, k) PROVE Path(tb, pt, a, k) # p
  <2>1. Listed(tb, h, i)
    BY <1>2 DEF IsFile
  <2> QED
    BY <1>1, <1>8, <1>11, <2>1, PathsApart DEF p
<1>12. ASSUME NEW a, NEW k, <<a, k>> \notin P
       PROVE  Carries(v, F, ch, tb, pt, W, w, G, ch2, tb, pt, W2, a, k)
  <2>1. SameSpot(tb, tb, a, k)
    BY SameItself
  <2>2. Listed(tb, a, k) => /\ Path(tb, pt, a, k) \in DOMAIN W2
                            /\ W2[Path(tb, pt, a, k)] = W[Path(tb, pt, a, k)]
    BY <1>6, <1>10, <1>11, <1>12
  <2>3. ASSUME IsFile(tb, a, k)
        PROVE  /\ Steady(F, tb, pt, G, tb, pt, a, k)
               /\ LET c == FirstAt(F, tb, pt, a, k) IN c = 0 \/ CarriesOn(v, ch, w, ch2, c)
    <3> DEFINE q == Path(tb, pt, a, k)
               c == FirstAt(F, tb, pt, a, k)
    <3>1. q # p
      BY <1>11, <1>12, <2>3 DEF IsFile
    <3>2. \A g \in Fil : (OpenAt(G, g, q) <=> OpenAt(F, g, q)) /\ (OpenAt(F, g, q) => G[g] = F[g])
      BY <1>3, <1>4, <3>1 DEF OpenAt
    <3>3. ASSUME c # 0 PROVE CarriesOn(v, ch, w, ch2, c)
      <4>1. c \in DOMAIN ch
        BY <1>1, <2>3, <3>3 DEF FilesForm, Held
      <4>2. c # s
        <5>1. Owner(F, tb, pt, a, k, c) /\ Owner(F, tb, pt, h, i, s)
          BY <1>2, <2>3 DEF Owner
        <5> QED
          BY <1>1, <1>8, <1>12, <3>3, <5>1 DEF FilesForm
      <4>3. c # b /\ c \in DOMAIN ch2 /\ ch2[c] = ch[c]
        BY <1>3, <4>1, <4>2 DEF Rechained
      <4>4. \A x \in X : x \in Cluster
        BY <1>1, <1>7, ChainHas DEF On
      <4>5. \A x \in X : ~On(ch2[c], x)
        BY <1>1, <1>7, <4>3, <4>4 DEF Chains
      <4> HIDE DEF c
      <4> QED
        BY <1>1, <4>3, <4>5, AwayFrom
    <3> QED
      BY <3>2, <3>3 DEF Steady
  <2> QED
    BY <2>1, <2>2, <2>3 DEF Carries
<1>13. ASSUME NEW a, NEW k, <<a, k>> \in P, Listed(tb, a, k)
       PROVE  ShownAt(w, G, ch2, tb, pt, W2, a, k)
  <2>1. a = h /\ k = i
    BY <1>8, <1>13
  <2>2. OpenAt(G, f, p) /\ \A g \in Fil : OpenAt(G, g, p) => g = f
    BY <1>2, <1>3, <1>4 DEF OpenAt
  <2>3. (CHOOSE g \in Fil : OpenAt(G, g, p)) = f
    BY <2>2
  <2>4. Busy(G, p)
    BY <2>2 DEF Busy
  <2>5. FirstAt(G, tb, pt, h, i) = b /\ LongAt(G, tb, pt, h, i) = o.objsize
    BY <1>4, <2>3, <2>4 DEF FirstAt, First, LongAt, Long, p, b
  <2>6. p \in DOMAIN W2
    BY <1>6, <1>10, <1>13, <2>1 DEF p
  <2>7. File(D).data = D
    BY DEF File
  <2>8. HasData(w, G, ch2, tb, pt, h, i, W2[p])
    BY <1>6, <1>7, <2>5, <2>7 DEF HasData
  <2>9. ~IsDir(tb, h, i)
    BY <1>2 DEF IsFile, IsDir
  <2> QED
    BY <2>1, <2>6, <2>8, <2>9 DEF ShownAt, p
<1>14. \A q \in DOMAIN W2 : \E a, k : Listed(tb, a, k) /\ Path(tb, pt, a, k) = q
  BY <1>1, <1>6 DEF Matches
<1>15. Matches(w, G, ch2, tb, pt, W2)
  BY <1>1, <1>9, <1>12, <1>13, <1>14, MatchesPass
<1> QED
  BY <1>5, <1>15 DEF Intact, G

-----------------------------------------------------------------------------
(* A call that changes tables: what lies in the files stays.               *)

\* None of the clusters X is on the chain of a file, of those with an owner at least.
Spares(F, ch, tb, pt, X) ==
    \A a, k : IsFile(tb, a, k) /\ FirstAt(F, tb, pt, a, k) # 0 =>
        \A x \in X : ~On(ch[FirstAt(F, tb, pt, a, k)], x)

\* The clusters of tables are not on the chains of files, nor is a cluster of no chain.
LEMMA TableSpares ==
    ASSUME NEW v, NEW ch, Chains(v, ch), NEW F, NEW tb, NEW pt, NEW E, FilesForm(F, ch, tb, pt, E),
           DOMAIN tb \subseteq DOMAIN ch,
           NEW X, \A x \in X : x \in Cluster /\ ((\E h \in DOMAIN tb : On(ch[h], x)) \/ ~\E g \in DOMAIN ch : On(ch[g], x))
    PROVE  Spares(F, ch, tb, pt, X)
<1> SUFFICES ASSUME NEW a, NEW k, IsFile(tb, a, k), FirstAt(F, tb, pt, a, k) # 0, NEW x \in X,
                    On(ch[FirstAt(F, tb, pt, a, k)], x)
             PROVE  FALSE
  BY DEF Spares
<1> DEFINE c == FirstAt(F, tb, pt, a, k)
<1>1. c \in DOMAIN ch /\ c \notin DOMAIN tb
  BY DEF FilesForm, Held
<1> HIDE DEF c
<1>2. On(ch[c], x)
  BY DEF c
<1> QED
  BY <1>1, <1>2 DEF Chains

\* What the call leaves of the spot (h, i), whose data it does not write.
StaysAt(F, ch, tb, pt, W, G, ch2, tb2, pt2, W2, h, i) ==
    /\ SameSpot(tb, tb2, h, i)
    /\ Listed(tb, h, i) => /\ Path(tb2, pt2, h, i) \in DOMAIN W2
                           /\ W2[Path(tb2, pt2, h, i)] = W[Path(tb, pt, h, i)]
    /\ IsFile(tb, h, i) => /\ Steady(F, tb, pt, G, tb2, pt2, h, i)
                           /\ LET c == FirstAt(F, tb, pt, h, i) IN c = 0 \/ ch2[c] = ch[c]

\* MatchesPass, when all that is written lies outside the clusters of the files.
LEMMA AllKept ==
    ASSUME NEW F, NEW ch, NEW tb, NEW pt, NEW E, FilesForm(F, ch, tb, pt, E), Tree(tb, pt),
           NEW v, Chains(v, ch), NEW W, Matches(v, F, ch, tb, pt, W),
           NEW w, NEW X, Only(v, w, X), Spares(F, ch, tb, pt, X),
           NEW G, NEW ch2, NEW tb2, NEW pt2, NEW W2, NEW P,
           \A h, i : <<h, i>> \notin P => StaysAt(F, ch, tb, pt, W, G, ch2, tb2, pt2, W2, h, i),
           \A h, i : <<h, i>> \in P /\ Listed(tb2, h, i) => ShownAt(w, G, ch2, tb2, pt2, W2, h, i),
           \A q \in DOMAIN W2 : \E h, i : Listed(tb2, h, i) /\ Path(tb2, pt2, h, i) = q
    PROVE  Matches(w, G, ch2, tb2, pt2, W2)
<1>1. ASSUME NEW h, NEW i, <<h, i>> \notin P
      PROVE  Carries(v, F, ch, tb, pt, W, w, G, ch2, tb2, pt2, W2, h, i)
  <2>1. StaysAt(F, ch, tb, pt, W, G, ch2, tb2, pt2, W2, h, i)
    BY <1>1
  <2>2. ASSUME IsFile(tb, h, i) PROVE LET c == FirstAt(F, tb, pt, h, i) IN c = 0 \/ CarriesOn(v, ch, w, ch2, c)
    <3> DEFINE c == FirstAt(F, tb, pt, h, i)
    <3>1. c # 0 => c \in DOMAIN ch /\ ch2[c] = ch[c] /\ \A x \in X : ~On(ch[c], x)
      BY <2>1, <2>2 DEF StaysAt, FilesForm, Held, Spares
    <3> HIDE DEF c
    <3>2. c = 0 \/ CarriesOn(v, ch, w, ch2, c)
      BY <3>1, AwayBefore
    <3> QED
      BY <3>2 DEF c
  <2> QED
    BY <2>1, <2>2 DEF StaysAt, Carries
<1>2. Matches(w, G, ch2, tb2, pt2, W2)
  BY <1>1, MatchesPass
<1> QED
  BY <1>2

\* The data of the file at (h, i), from where its data begins.
LEMMA ViewCarried ==
    ASSUME NEW F, NEW ch, NEW tb, NEW pt, NEW E, FilesForm(F, ch, tb, pt, E), Tree(tb, pt),
           NEW h, NEW i, IsFile(tb, h, i), NEW v, NEW y, HasData(v, F, ch, tb, pt, h, i, y),
           NEW G, NEW tb2, NEW pt2, NEW a, NEW k, FirstAt(G, tb2, pt2, a, k) = FirstAt(F, tb, pt, h, i),
           LongAt(G, tb2, pt2, a, k) = LongAt(F, tb, pt, h, i),
           NEW w, NEW ch2, NEW c, c = FirstAt(F, tb, pt, h, i), c = 0 \/ CarriesOn(v, ch, w, ch2, c)
    PROVE  HasData(w, G, ch2, tb2, pt2, a, k, y)
<1> DEFINE n == LongAt(F, tb, pt, h, i)
<1>1. n \in Nat /\ (c = 0 => n = 0) /\ (c # 0 => c \in Held(ch, tb, E) /\ n <= Len(ch[c]))
  BY LongFits
<1>2. y = File(y.data) /\ Holds(v, ch[c], n, y.data)
  BY DEF HasData
<1>3. ASSUME c # 0 PROVE \A j \in 1 .. n : w[Data(ch2[c][j])] = v[Data(ch[c][j])]
  <2>1. CarriesOn(v, ch, w, ch2, c)
    BY <1>3
  <2>2. ch2[c] = ch[c] /\ \A j \in 1 .. Len(ch[c]) : w[Data(ch[c][j])] = v[Data(ch[c][j])]
    BY <2>1 DEF CarriesOn
  <2> HIDE DEF n
  <2>3. \A j \in 1 .. n : n <= Len(ch[c]) => j \in 1 .. Len(ch[c])
    BY <1>1
  <2> QED
    BY <1>1, <1>3, <2>2, <2>3
<1> HIDE DEF n
<1>4. \A j \in 1 .. n : w[Data(ch2[c][j])] = v[Data(ch[c][j])]
  BY <1>1, <1>3
<1>5. Holds(w, ch2[c], n, y.data)
  <2> DEFINE s == ch[c]
             s2 == ch2[c]
             D == y.data
  <2>1. Holds(v, s, n, D) /\ \A j \in 1 .. n : w[Data(s2[j])] = v[Data(s[j])]
    BY <1>2, <1>4
  <2> HIDE DEF s, s2, D
  <2>2. Holds(w, s2, n, D)
    BY <2>1, HoldsStill
  <2> QED
    BY <2>2 DEF s2, D
<1> QED
  BY <1>2, <1>5 DEF HasData, n

-----------------------------------------------------------------------------
(* Paths under a new name.                                                 *)

\* A path that is moved can be moved back.
LEMMA MovedBack ==
    ASSUME NEW old, IsSeq(old), NEW new, IsSeq(new), NEW q, IsSeq(q), IsPrefix(old, q)
    PROVE  /\ IsPrefix(new, Moved(q, old, new)) /\ Moved(Moved(q, old, new), new, old) = q
           /\ IsSeq(Moved(q, old, new))
<1> DEFINE e == Moved(q, old, new)
           r == Moved(e, new, old)
<1>1. /\ Len(old) \in Nat /\ Len(new) \in Nat /\ Len(q) \in Nat
      /\ Len(old) <= Len(q) /\ \A k \in 1 .. Len(old) : q[k] = old[k]
  <2>1. Len(old) \in Nat /\ Len(new) \in Nat /\ Len(q) \in Nat
    BY DEF IsSeq
  <2>2. Len(old) <= Len(q) /\ \A k \in 1 .. Len(old) : q[k] = old[k]
    BY PrefixIs
  <2> QED
    BY <2>1, <2>2
<1>2. Shifted(e, q, old, new)
  BY <1>1, MovedIs
<1>3. r = Moved(e, new, old)
  OBVIOUS
<1> HIDE DEF e, r
<1>4. /\ IsSeq(e) /\ Len(e) = Len(new) + (Len(q) - Len(old))
      /\ \A k \in 1 .. Len(new) : e[k] = new[k]
      /\ \A k \in 1 .. Len(q) - Len(old) : e[Len(new) + k] = q[Len(old) + k]
  BY <1>2 DEF Shifted
<1>5. Len(new) <= Len(e) /\ Len(e) \in Nat
  BY <1>1, <1>4
<1>6. IsPrefix(new, e)
  BY <1>4, <1>5, PrefixIs
<1>7. Shifted(r, e, new, old)
  BY <1>3, <1>4, <1>5, MovedIs
<1>8. /\ IsSeq(r) /\ Len(r) = Len(old) + (Len(e) - Len(new))
      /\ \A k \in 1 .. Len(old) : r[k] = old[k]
      /\ \A k \in 1 .. Len(e) - Len(new) : r[Len(old) + k] = e[Len(new) + k]
  BY <1>7 DEF Shifted
<1>9. Len(r) = Len(q)
  BY <1>1, <1>4, <1>5, <1>8
<1>10. ASSUME NEW k \in 1 .. Len(r) PROVE r[k] = q[k]
  <2>1. CASE k <= Len(old)
    BY <1>1, <1>8, <1>9, <2>1
  <2>2. CASE ~(k <= Len(old))
    <3> DEFINE j == k - Len(old)
    <3>1. j \in 1 .. Len(q) - Len(old) /\ j \in 1 .. Len(e) - Len(new) /\ Len(old) + j = k
      BY <1>1, <1>4, <1>5, <1>9, <2>2
    <3> HIDE DEF j
    <3>2. r[Len(old) + j] = e[Len(new) + j] /\ e[Len(new) + j] = q[Len(old) + j]
      BY <1>4, <1>8, <3>1
    <3> QED
      BY <3>1, <3>2
  <2> QED
    BY <2>1, <2>2
<1>11. r = q
  BY <1>8, <1>9, <1>10, SameSeq
<1> QED
  BY <1>4, <1>6, <1>11 DEF e, r

\* What is said of the path old and those below is said of new and those below.
Retold(W, W2, old, new) ==
    /\ \A q \in DOMAIN W : IF IsPrefix(old, q)
                           THEN Moved(q, old, new) \in DOMAIN W2 /\ W2[Moved(q, old, new)] = W[q]
                           ELSE q \in DOMAIN W2 /\ W2[q] = W[q]
    /\ \A q \in DOMAIN W2 : \E r \in DOMAIN W : q = IF IsPrefix(old, r) THEN Moved(r, old, new) ELSE r

\* Renamed does that.
LEMMA RetoldIs ==
    ASSUME NEW old, IsSeq(old), NEW new, IsSeq(new), \A q \in DOMAIN want : IsSeq(q),
           \A q \in DOMAIN want : IsPrefix(new, q) => IsPrefix(old, q)
    PROVE  Retold(want, Renamed(want, old, new), old, new)
<1> DEFINE D == {Moved(r, old, new) : r \in Under(old)} \cup (DOMAIN want \ Under(old))
           From(q) == IF IsPrefix(new, q) THEN Moved(q, new, old) ELSE q
           W2 == [q \in D |-> want[From(q)]]
<1>1. Renamed(want, old, new) = W2
  BY DEF Renamed
<1>2. ASSUME NEW q \in DOMAIN want, IsPrefix(old, q)
      PROVE  Moved(q, old, new) \in D /\ want[From(Moved(q, old, new))] = want[q]
  <2>1. q \in Under(old)
    BY <1>2 DEF Under
  <2>2. IsPrefix(new, Moved(q, old, new)) /\ Moved(Moved(q, old, new), new, old) = q
    BY <1>2, MovedBack
  <2> QED
    BY <2>1, <2>2
<1>3. ASSUME NEW q \in DOMAIN want, ~IsPrefix(old, q)
      PROVE  q \in D /\ want[From(q)] = want[q]
  <2>1. q \notin Under(old)
    BY <1>3 DEF Under
  <2>2. ~IsPrefix(new, q)
    BY <1>3
  <2> QED
    BY <2>1, <2>2
<1>4. ASSUME NEW q \in D PROVE \E r \in DOMAIN want : q = IF IsPrefix(old, r) THEN Moved(r, old, new) ELSE r
  <2>1. CASE q \in DOMAIN want \ Under(old)
    BY <2>1 DEF Under
  <2>2. CASE q \notin DOMAIN want \ Under(old)
    <3>1. PICK r \in Under(old) : q = Moved(r, old, new)
      BY <2>2
    <3>2. r \in DOMAIN want /\ IsPrefix(old, r)
      BY <3>1 DEF Under
    <3> QED
      BY <3>1, <3>2
  <2> QED
    BY <2>1, <2>2
<1>5. DOMAIN W2 = D /\ \A q \in D : W2[q] = want[From(q)]
  OBVIOUS
<1> HIDE DEF W2, D, From
<1>6. Retold(want, W2, old, new)
  BY <1>2, <1>3, <1>4, <1>5 DEF Retold
<1> QED
  BY <1>1, <1>6

\* No object of the table g but the slot i of h has the name m.
Target(tb, g, m, h, i) == \A k : Listed(tb, g, k) /\ NameAt(tb[g], k) = m => g = h /\ k = i

\* The path of an object that is to be at new: nothing else is there or below.
LEMMA PathBelow ==
    ASSUME NEW tb, NEW pt, Tree(tb, pt), NEW g \in DOMAIN tb, NEW m, NEW h, NEW i, Target(tb, g, m, h, i),
           NEW new, new = Append(pt[g], m), NEW old, old = Path(tb, pt, h, i),
           NEW a, NEW k, Listed(tb, a, k), IsPrefix(new, Path(tb, pt, a, k))
    PROVE  IsPrefix(old, Path(tb, pt, a, k))
<1> DEFINE n == NameAt(tb[a], k)
           p == pt[a]
           q == pt[g]
<1>1. TreeForm(tb, pt) /\ a \in DOMAIN tb
  BY TreeIs DEF Listed
<1>2. /\ IsSeq(p) /\ IsSeq(q) /\ Path(tb, pt, a, k) = Append(p, n) /\ new = Append(q, m)
      /\ IsPrefix(new, Append(p, n))
  BY <1>1 DEF TreeForm, Path
<1>7. Len(new) \in 0 .. Len(p) => \E e \in DOMAIN tb : pt[e] = SubSeq(p, 1, Len(new))
  BY <1>1, StartsToo
<1> HIDE DEF p, q, n
<1>3. IsSeq(new) /\ IsSeq(Append(p, n))
  BY <1>2, PrefixNext
<1>4. IsPrefix(new, p) \/ new = Append(p, n)
  BY <1>2, <1>3, PrefixNext
<1>5. CASE new = Append(p, n)
  <2>0. Append(p, n) = Append(q, m)
    BY <1>2, <1>5
  <2>1. p = q /\ n = m
    BY <1>2, <2>0, AppendBoth
  <2>2. a = g
    BY <1>1, <2>1 DEF TreeForm, p, q
  <2>3. g = h /\ k = i
    BY <2>1, <2>2 DEF Target, n
  <2>4. old = Append(p, n)
    BY <1>2, <2>2, <2>3
  <2>5. Len(Append(p, n)) \in Nat
    BY <1>3 DEF IsSeq
  <2>6. IsPrefix(Append(p, n), Append(p, n))
    BY <1>3, <2>5, PrefixIs
  <2> QED
    BY <1>2, <2>4, <2>6
<1>6. CASE IsPrefix(new, p)
  <2>1. Len(new) \in 0 .. Len(p) /\ SubSeq(p, 1, Len(new)) = new
    BY <1>2, <1>3, <1>6, PrefixStart
  <2>2. PICK e \in DOMAIN tb : pt[e] = new
    BY <1>7, <2>1
  <2>3. PICK j : Listed(tb, g, j) /\ NameAt(tb[g], j) = m
    BY <1>2, <2>2, NoneThere DEF q
  <2>4. g = h /\ j = i
    BY <2>3 DEF Target
  <2>5. old = new
    BY <1>2, <2>3, <2>4 DEF Path, q
  <2> QED
    BY <2>5
<1> QED
  BY <1>4, <1>5, <1>6

\* Nothing lies below a file.
LEMMA FileLeaf ==
    ASSUME NEW tb, NEW pt, Tree(tb, pt), NEW h, NEW i, IsFile(tb, h, i), NEW b \in DOMAIN tb
    PROVE  ~IsPrefix(Path(tb, pt, h, i), pt[b])
<1> SUFFICES ASSUME IsPrefix(Path(tb, pt, h, i), pt[b]) PROVE FALSE
  OBVIOUS
<1> DEFINE old == Path(tb, pt, h, i)
           p == pt[b]
<1>1. TreeForm(tb, pt) /\ Listed(tb, h, i) /\ h \in DOMAIN tb
  BY TreeIs DEF IsFile, Listed
<1>2. IsSeq(p) /\ IsSeq(old) /\ Len(old) # 0 /\ IsPrefix(old, p)
  <2>1. IsSeq(p)
    BY <1>1 DEF TreeForm
  <2>2. IsSeq(old) /\ Len(old) = Len(pt[h]) + 1 /\ Len(pt[h]) \in Nat
    BY <1>1, PathIs
  <2> QED
    BY <2>1, <2>2
<1>9. Len(old) \in 0 .. Len(p) => \E e \in DOMAIN tb : pt[e] = SubSeq(p, 1, Len(old))
  BY <1>1, StartsToo
<1> HIDE DEF old, p
<1>3. Len(old) \in 0 .. Len(p) /\ SubSeq(p, 1, Len(old)) = old
  BY <1>2, PrefixStart
<1>4. PICK e \in DOMAIN tb : pt[e] = old
  BY <1>3, <1>9
<1>5. e # Root
  BY <1>1, <1>2, <1>4 DEF TreeForm
<1>6. PICK a, k : IsDir(tb, a, k) /\ tb[a][k].clust = e
  BY <1>1, <1>4, <1>5 DEF TreeForm
<1>7. Listed(tb, a, k) /\ Path(tb, pt, a, k) = old
  BY <1>1, <1>4, <1>6 DEF TreeForm, IsDir
<1>8. a = h /\ k = i
  BY <1>1, <1>7, PathsApart DEF old
<1> QED
  BY <1>6, <1>8 DEF IsDir, IsFile

-----------------------------------------------------------------------------
(* The objects of the volume, and the clusters.                            *)

Obj(tb, pt, h, i) ==
    [path |-> Path(tb, pt, h, i), at |-> <<h, i>>, dir |-> tb[h][i].dir,
     clust |-> tb[h][i].clust, size |-> tb[h][i].size]

\* The objects of the table h; those of the tables with a path of k names, or of fewer.
Objs(tb, pt, h) == {Obj(tb, pt, h, i) : i \in {j \in 1 .. Len(tb[h]) : tb[h][j].k = "sfn"}}
Level(tb, pt, k) == UNION {Objs(tb, pt, h) : h \in {g \in DOMAIN tb : Len(pt[g]) = k}}
Above(tb, pt, k) == UNION {Objs(tb, pt, h) : h \in {g \in DOMAIN tb : Len(pt[g]) < k}}

\* Inside lists the objects of a directory.
LEMMA InsideIs ==
    ASSUME NEW vol, NEW ch, NEW tb, Stored(vol, ch, tb), NEW pt, Tree(tb, pt), NEW h \in DOMAIN tb
    PROVE  Inside(vol, h, pt[h]) = Objs(tb, pt, h)
<1> DEFINE T == tb[h]
<1>1. Chain(vol, h) = ch[h] /\ Slots(vol, ch[h]) = T
  BY TableOf
<1>2. IsTable(T)
  BY TableOf, TreeIs DEF TreeForm, Sane
<1>3. {j \in 1 .. End(T) - 1 : T[j].k = "sfn"} = {j \in 1 .. Len(T) : T[j].k = "sfn"}
  <2> HIDE DEF T
  <2>1. /\ \A i \in 1 .. Len(T) : T[i].k = "sfn" => i \in 1 .. End(T) - 1
        /\ \A i \in 1 .. End(T) - 1 : i \in 1 .. Len(T)
    BY <1>2, EndIs
  <2> QED
    BY <2>1
<1>4. Inside(vol, h, pt[h]) =
        {[path |-> Append(pt[h], NameAt(T, i)), at |-> <<h, i>>, dir |-> T[i].dir,
          clust |-> T[i].clust, size |-> T[i].size] : i \in {j \in 1 .. End(T) - 1 : T[j].k = "sfn"}}
  BY <1>1 DEF Inside
<1> QED
  BY <1>3, <1>4 DEF Objs, Obj, Path

\* No directory is deeper than there are clusters.
LEMMA NotDeep ==
    ASSUME NEW vol, NEW ch, NEW tb, Stored(vol, ch, tb), NEW pt, Tree(tb, pt), NEW h \in DOMAIN tb
    PROVE  Len(pt[h]) \in Nat /\ Len(pt[h]) + 1 <= NClust
<1> DEFINE p == pt[h]
           n == Len(p)
           s == [j \in 1 .. n + 1 |-> CHOOSE g \in DOMAIN tb : pt[g] = SubSeq(p, 1, j - 1)]
<1>1. n \in Nat /\ \A k \in 0 .. n : \E g \in DOMAIN tb : pt[g] = SubSeq(p, 1, k)
  BY StartsToo
<1>2. IsSeq(p)
  BY TreeIs DEF TreeForm
<1>3. DOMAIN tb \subseteq Cluster
  BY HeadsAre DEF Stored
<1> HIDE DEF p, n
<1>4. \A j \in 1 .. n + 1 : s[j] \in DOMAIN tb /\ pt[s[j]] = SubSeq(p, 1, j - 1)
  <2> SUFFICES ASSUME NEW j \in 1 .. n + 1 PROVE s[j] \in DOMAIN tb /\ pt[s[j]] = SubSeq(p, 1, j - 1)
    OBVIOUS
  <2>1. j - 1 \in 0 .. n
    BY <1>1
  <2>2. \E g \in DOMAIN tb : pt[g] = SubSeq(p, 1, j - 1)
    BY <1>1, <2>1
  <2> QED
    BY <2>2
<1>5. s \in Seq(Cluster) /\ Len(s) = n + 1
  BY <1>1, <1>3, <1>4
<1> HIDE DEF s
<1>6. ASSUME NEW j \in 1 .. Len(s), NEW k \in 1 .. Len(s), s[j] = s[k] PROVE j = k
  <2>1. j - 1 \in 0 .. n /\ k - 1 \in 0 .. n
    BY <1>1, <1>5
  <2>2. SubSeq(p, 1, j - 1) = SubSeq(p, 1, k - 1)
    BY <1>4, <1>5, <1>6
  <2>3. Len(SubSeq(p, 1, j - 1)) = j - 1 /\ Len(SubSeq(p, 1, k - 1)) = k - 1
    BY <1>2, <2>1, StartIs DEF n
  <2> QED
    BY <1>1, <1>5, <2>1, <2>2, <2>3
<1>7. Len(s) <= NClust
  BY <1>5, <1>6, ShortEnough
<1> QED
  BY <1>1, <1>5, <1>7 DEF n, p

\* The next level is what lies in the directories of this one.
LEMMA LevelNext ==
    ASSUME NEW vol, NEW ch, NEW tb, Stored(vol, ch, tb), NEW pt, Tree(tb, pt), NEW k \in Nat
    PROVE  Level(tb, pt, k + 1) = UNION {Inside(vol, o.clust, o.path) : o \in {x \in Level(tb, pt, k) : x.dir}}
<1> DEFINE R == UNION {Inside(vol, o.clust, o.path) : o \in {x \in Level(tb, pt, k) : x.dir}}
<1>1. TreeForm(tb, pt)
  BY TreeIs
<1>2. ASSUME NEW h, NEW i, IsDir(tb, h, i)
      PROVE  LET o == Obj(tb, pt, h, i)
             IN  /\ o.dir /\ o.clust \in DOMAIN tb /\ o.clust # Root /\ o.path = pt[o.clust]
                 /\ o.clust = tb[h][i].clust
                 /\ h \in DOMAIN tb /\ o \in Objs(tb, pt, h) /\ Len(pt[o.clust]) = Len(pt[h]) + 1
  <2>1. h \in DOMAIN tb /\ i \in {j \in 1 .. Len(tb[h]) : tb[h][j].k = "sfn"} /\ tb[h][i].dir /\ Listed(tb, h, i)
    BY <1>2 DEF IsDir, Listed
  <2>2. tb[h][i].clust \in DOMAIN tb /\ tb[h][i].clust # Root /\ pt[tb[h][i].clust] = Path(tb, pt, h, i)
    BY <1>1, <1>2 DEF TreeForm
  <2>3. Len(Path(tb, pt, h, i)) = Len(pt[h]) + 1
    BY <2>1, PathIs
  <2> QED
    BY <2>1, <2>2, <2>3 DEF Obj, Objs
<1>3. ASSUME NEW x \in Level(tb, pt, k + 1) PROVE x \in R
  <2>1. PICK c \in DOMAIN tb : Len(pt[c]) = k + 1 /\ x \in Objs(tb, pt, c)
    BY <1>3 DEF Level
  <2>2. c # Root
    BY <1>1, <2>1 DEF TreeForm
  <2>3. PICK h, i : IsDir(tb, h, i) /\ tb[h][i].clust = c
    BY <1>1, <2>2 DEF TreeForm
  <2> DEFINE o == Obj(tb, pt, h, i)
  <2>4. /\ o.dir /\ o.path = pt[c] /\ o.clust = c /\ h \in DOMAIN tb /\ o \in Objs(tb, pt, h)
        /\ Len(pt[c]) = Len(pt[h]) + 1
    BY <1>2, <2>3
  <2> HIDE DEF o
  <2>5. Len(pt[h]) = k
    <3>1. Len(pt[h]) \in Nat
      BY <2>4, NotDeep
    <3> QED
      BY <2>1, <2>4, <3>1
  <2>6. o \in Level(tb, pt, k)
    BY <2>4, <2>5 DEF Level
  <2>7. Inside(vol, o.clust, o.path) = Objs(tb, pt, c)
    BY <2>4, InsideIs
  <2> QED
    BY <2>1, <2>4, <2>6, <2>7
<1>4. ASSUME NEW x \in R PROVE x \in Level(tb, pt, k + 1)
  <2>1. PICK o \in Level(tb, pt, k) : o.dir /\ x \in Inside(vol, o.clust, o.path)
    BY <1>4
  <2>2. PICK h \in DOMAIN tb : Len(pt[h]) = k /\ o \in Objs(tb, pt, h)
    BY <2>1 DEF Level
  <2>3. PICK i \in 1 .. Len(tb[h]) : tb[h][i].k = "sfn" /\ o = Obj(tb, pt, h, i)
    BY <2>2 DEF Objs
  <2>4. IsDir(tb, h, i)
    BY <2>1, <2>3 DEF IsDir, Listed, Obj
  <2>5. o.clust \in DOMAIN tb /\ o.path = pt[o.clust] /\ Len(pt[o.clust]) = k + 1
    BY <1>2, <2>2, <2>3, <2>4
  <2>6. Inside(vol, o.clust, o.path) = Objs(tb, pt, o.clust)
    BY <2>5, InsideIs
  <2> QED
    BY <2>1, <2>5, <2>6 DEF Level
<1> QED
  BY <1>3, <1>4

AllObjs(tb, pt) == UNION {Objs(tb, pt, h) : h \in DOMAIN tb}

\* Objects walks down the tree level by level and meets every object.
LEMMA ObjectsIs ==
    ASSUME NEW vol, NEW ch, NEW tb, Stored(vol, ch, tb), NEW pt, Tree(tb, pt)
    PROVE  Objects(vol) = AllObjs(tb, pt)
<1> DEFINE turns == NClust
           s0 == [all |-> {}, level |-> Inside(vol, Root, <<>>)]
           F(O, k) == [all |-> O.all \cup O.level,
                       level |-> UNION {Inside(vol, o.clust, o.path) : o \in {x \in O.level : x.dir}}]
           G(g) == g = [k \in 0 .. turns |-> IF k = 0 THEN s0 ELSE F(g[k - 1], k)]
           W(k) == [all |-> Above(tb, pt, k), level |-> Level(tb, pt, k)]
           Q(g) == {k \in Nat : g[k] = W(k)}
<1>1. turns \in Nat
  BY Sizes
<1>2. TreeForm(tb, pt)
  BY TreeIs
<1>3. \A h \in DOMAIN tb : Len(pt[h]) \in Nat /\ Len(pt[h]) < turns
  BY <1>1, NotDeep
<1>4. s0 = W(0)
  <2>1. \A h \in DOMAIN tb : Len(pt[h]) = 0 => pt[h] = <<>>
    <3> SUFFICES ASSUME NEW h \in DOMAIN tb, Len(pt[h]) = 0 PROVE pt[h] = <<>>
      OBVIOUS
    <3>1. IsSeq(pt[h]) /\ IsSeq(pt[Root])
      BY <1>2 DEF TreeForm
    <3>2. Len(pt[Root]) = 0 /\ pt[Root] = <<>>
      BY <1>2 DEF TreeForm
    <3>3. pt[h] = pt[Root]
      <4> DEFINE p == pt[h]
                 q == pt[Root]
      <4>1. IsSeq(p) /\ IsSeq(q) /\ Len(p) = Len(q) /\ Len(p) = 0
        BY <3>1, <3>2
      <4> HIDE DEF p, q
      <4>2. \A k \in 1 .. Len(p) : p[k] = q[k]
        BY <4>1
      <4>3. p = q
        BY <4>1, <4>2, SameSeq
      <4> QED
        BY <4>3 DEF p, q
    <3> QED
      BY <3>2, <3>3
  <2>2. Root \in DOMAIN tb /\ pt[Root] = <<>> /\ Len(pt[Root]) = 0
    BY <1>2 DEF TreeForm
  <2>3. \A h \in DOMAIN tb : Len(pt[h]) = 0 <=> h = Root
    BY <1>2, <2>1, <2>2 DEF TreeForm
  <2>4. Level(tb, pt, 0) = Objs(tb, pt, Root)
    BY <2>2, <2>3 DEF Level
  <2>5. Inside(vol, Root, pt[Root]) = Objs(tb, pt, Root)
    BY <2>2, InsideIs
  <2>6. Above(tb, pt, 0) = {}
    BY <1>3 DEF Above
  <2> QED
    BY <2>2, <2>4, <2>5, <2>6
<1>5. ASSUME NEW k \in Nat, k # 0 PROVE F(W(k - 1), k) = W(k)
  <2> DEFINE j == k - 1
  <2>1. j \in Nat /\ j + 1 = k
    BY <1>5
  <2> HIDE DEF j
  <2>2. Level(tb, pt, j + 1) = UNION {Inside(vol, o.clust, o.path) : o \in {x \in Level(tb, pt, j) : x.dir}}
    BY <2>1, LevelNext
  <2>3. Above(tb, pt, j + 1) = Above(tb, pt, j) \cup Level(tb, pt, j)
    <3>1. \A h \in DOMAIN tb : Len(pt[h]) < j + 1 <=> Len(pt[h]) < j \/ Len(pt[h]) = j
      BY <1>3, <2>1
    <3> QED
      BY <3>1 DEF Above, Level
  <2>4. F(W(j), k) = W(j + 1)
    BY <2>2, <2>3
  <2> QED
    BY <2>1, <2>4 DEF j
<1>6. Objects(vol) = (CHOOSE g : G(g))[turns].all
  BY Zenon DEF Objects, Loop
<1> HIDE DEF F, s0, W
<1>7. \E g : G(g)
  <2> DEFINE g == [k \in 0 .. turns |-> W(k)]
  <2>1. ASSUME NEW k \in 0 .. turns PROVE g[k] = IF k = 0 THEN s0 ELSE F(g[k - 1], k)
    <3>1. CASE k = 0
      BY <1>4, <3>1
    <3>2. CASE k # 0
      <4>1. k \in Nat /\ k - 1 \in 0 .. turns
        BY <1>1, <3>2
      <4> QED
        BY <1>5, <3>2, <4>1
    <3> QED
      BY <3>1, <3>2
  <2>2. g = [k \in 0 .. turns |-> g[k]]
    OBVIOUS
  <2> HIDE DEF g
  <2>3. G(g)
    BY <2>1, <2>2
  <2> QED
    BY <2>3
<1> HIDE DEF turns
<1>8. PICK g : G(g) /\ Objects(vol) = g[turns].all
  BY <1>6, <1>7
<1>9. 0 \in Q(g)
  BY <1>1, <1>4, <1>8
<1>10. ASSUME NEW k \in 1 .. turns, k - 1 \in Q(g) PROVE k \in Q(g)
  <2>1. g[k] = F(g[k - 1], k) /\ k \in Nat /\ k # 0
    BY <1>1, <1>8
  <2> QED
    BY <1>5, <1>10, <2>1
<1>11. turns \in Q(g)
  <2> DEFINE Z == Q(g)
  <2>1. 0 \in Z /\ \A k \in 1 .. turns : k - 1 \in Z => k \in Z
    BY <1>9, <1>10
  <2> HIDE DEF Z
  <2>2. \A k \in 0 .. turns : k \in Z
    BY <1>1, <2>1, Turns
  <2>3. turns \in Z
    BY <1>1, <2>2
  <2> QED
    BY <2>3 DEF Z
<1>12. Objects(vol) = Above(tb, pt, turns)
  BY <1>8, <1>11 DEF W
<1> QED
  BY <1>3, <1>12 DEF Above, AllObjs

=============================================================================
