--------------------------- MODULE FatShapeProofs ---------------------------
(***************************************************************************)
(* As long as the power stays on, the volume as FatFs sees it is sound     *)
(* (VolumeSound), no cluster is lost (NoClusterLost) and every file holds  *)
(* what was written to it (WhatWasWritten), for volumes, tables, paths and *)
(* files of any size.                                                      *)
(***************************************************************************)
EXTENDS FatProofs

-----------------------------------------------------------------------------
(* f_read.                                                                 *)

\* The same where no data has changed.
LEMMA SameShown ==
    ASSUME NEW F, Typed(F), NEW v, NEW ch, NEW tb, NEW pt, NEW W, Intact(v, F, ch, tb, pt, W), NEW f \in Fil,
           NEW ch2, Stored(v, ch2, tb), NEW h, NEW i, NEW o, Leaves(F, ch, tb, pt, f, h, i, ch2, o),
           NEW D, Holds(v, ch2[o.sclust], o.objsize, D), NEW W2, Turned(W, W2, F[f].path, D)
    PROVE  Intact(v, [F EXCEPT ![f] = o], ch2, tb, pt, W2)
<1> DEFINE X == {}
<1>1. Only(v, v, X) /\ Within(ch2, o.sclust, X)
  BY DEF Only, Within
<1> HIDE DEF X
<1> QED
  BY <1>1, FileShown

\* A record with another second field.
LEMMA RecordTurned ==
    ASSUME NEW b, NEW D, NEW D2, NEW y, y = [dir |-> b, data |-> D]
    PROVE  [y EXCEPT !.data = D2] = [dir |-> b, data |-> D2]
OBVIOUS

\* A file with other data.
LEMMA FileTurned ==
    ASSUME NEW D, NEW D2, NEW y, y = File(D)
    PROVE  [y EXCEPT !.data = D2] = File(D2)
<1> DEFINE b == FALSE
<1>1. \A x : File(x) = [dir |-> b, data |-> x]
  BY DEF File
<1> HIDE DEF b
<1> QED
  BY <1>1, RecordTurned

\* The file at p with other data.
LEMMA TurnedIs ==
    ASSUME NEW W, NEW p \in DOMAIN W, W[p] = File(W[p].data), NEW D2
    PROVE  Turned(W, [W EXCEPT ![p].data = D2], p, D2)
<1> DEFINE W2 == [W EXCEPT ![p].data = D2]
           D == W[p].data
<1>1. DOMAIN W2 = DOMAIN W /\ W2[p] = [W[p] EXCEPT !.data = D2]
      /\ \A q \in DOMAIN W : q # p => W2[q] = W[q]
  OBVIOUS
<1> HIDE DEF W2, D
<1>2. [W[p] EXCEPT !.data = D2] = File(D2)
  BY FileTurned DEF D
<1>3. Turned(W, W2, p, D2)
  BY <1>1, <1>2 DEF Turned
<1> QED
  BY <1>3 DEF W2

\* f_read keeps the volume as it was written; it moves the file object only.
LEMMA ReadIs ==
    ASSUME NEW ch, NEW tb, NEW pt, Intact(lib.vol, fil, ch, tb, pt, want), Typed(fil), WindowInv,
           NEW f \in Fil, f_read(f)
    PROVE  Faithful(lib'.vol, fil', want') /\ Typed(fil')
<1> DEFINE o == fil[f]
           S == IF o.fptr = 0 THEN lib ELSE get_fat(lib, o.clust)
           c == NextCluster(lib, o)
           o2 == [o EXCEPT !.fptr = o.fptr + 1, !.clust = c]
<1>1. Chains(lib.vol, ch)
  BY DEF Intact, Whole, Stored
<1>2. PICK h, i : Mine(fil, ch, tb, pt, f, h, i)
  BY MineIs DEF Intact, Whole, f_read
<1>3. Handle(o, ch, tb[h][i], ch[h][At(i)], In(i))
  BY <1>2 DEF Mine, HasFile
<1>4. o.open /\ o.fptr < o.objsize /\ lib' = S /\ want' = want
  BY DEF f_read, Done
<1>13. c \in Cluster => fil' = [fil EXCEPT ![f] = o2]
  BY DEF f_read
<1>5. S.vol = lib.vol
  BY GetFat DEF WindowInv
<1>6. /\ o.sclust \in DOMAIN ch /\ o.fptr + 1 \in 1 .. Len(ch[o.sclust]) /\ o.fptr \in Nat
      /\ c = ch[o.sclust][o.fptr + 1] /\ c \in Cluster
  BY <1>1, <1>3, <1>4, NextIs DEF NextCluster
<1>7. DOMAIN o = FilFields
  BY <1>4 DEF Typed
<1> HIDE DEF o, S, c
<1>8. /\ o2.open = o.open /\ o2.path = o.path /\ o2.sclust = o.sclust /\ o2.objsize = o.objsize
      /\ o2.fptr = o.fptr + 1 /\ o2.clust = c /\ o2.modified = o.modified /\ o2.err = o.err
      /\ o2.dir_sect = o.dir_sect /\ o2.dir_slot = o.dir_slot /\ DOMAIN o2 = FilFields
  BY <1>7 DEF FilFields
<1> HIDE DEF o2
<1>9. Handle(o2, ch, tb[h][i], ch[h][At(i)], In(i))
  <2>1. o2.fptr \in 0 .. o2.objsize
    BY <1>3, <1>4, <1>6, <1>8 DEF Handle
  <2> QED
    BY <1>3, <1>6, <1>8, <2>1 DEF Handle
<1>10. Leaves(fil, ch, tb, pt, f, h, i, ch, o2)
  BY <1>2, <1>4, <1>6, <1>8, <1>9, SameChained DEF Leaves, o
<1>11. fil' = [fil EXCEPT ![f] = o2]
  BY <1>6, <1>13
<1>12. Intact(lib.vol, fil', ch, tb, pt, want')
  <2> DEFINE D == want[o.path].data
  <2>1. o.path \in DOMAIN want /\ want[o.path] = File(D) /\ Holds(lib.vol, ch[o.sclust], o.objsize, D)
    BY <1>2, MineHolds DEF o
  <2> HIDE DEF D
  <2>2. Turned(want, want, fil[f].path, D)
    BY <2>1 DEF Turned, o
  <2>3. Stored(lib.vol, ch, tb)
    BY DEF Intact, Whole
  <2>4. Intact(lib.vol, [fil EXCEPT ![f] = o2], ch, tb, pt, want)
    BY <1>8, <1>10, <2>1, <2>2, <2>3, SameShown
  <2> QED
    BY <1>4, <1>11, <2>4
<1>14. Typed([fil EXCEPT ![f] = o2])
  BY <1>8, TypedStays
<1> QED
  BY <1>4, <1>5, <1>11, <1>12, <1>14 DEF Faithful

-----------------------------------------------------------------------------
(* f_write.                                                                *)

\* The chains are the same but for that at h, which may go on further.
Longer(ch, ch2, h) ==
    /\ DOMAIN ch2 = DOMAIN ch /\ \A g \in DOMAIN ch : g # h => ch2[g] = ch[g]
    /\ Len(ch[h]) \in Nat /\ Len(ch2[h]) \in Nat /\ Len(ch[h]) <= Len(ch2[h])
    /\ \A j \in 1 .. Len(ch[h]) : ch2[h][j] = ch[h][j]

\* Longer is transitive.
LEMMA LongerBoth ==
    ASSUME NEW a, NEW b, NEW c, NEW h, Longer(a, b, h), Longer(b, c, h)
    PROVE  Longer(a, c, h)
BY DEF Longer

\* A longer chain has room for what the shorter one had.
LEMMA LongerReaches ==
    ASSUME NEW ch, NEW ch2, NEW h \in DOMAIN ch, Longer(ch, ch2, h)
    PROVE  \A c : \A n \in Nat : Reaches(ch, c, n) => Reaches(ch2, c, n)
<1> SUFFICES ASSUME NEW c, NEW n \in Nat, Reaches(ch, c, n) PROVE Reaches(ch2, c, n)
  OBVIOUS
<1>1. CASE c = h
  BY <1>1 DEF Reaches, Longer
<1>2. CASE c # h
  BY <1>2 DEF Reaches, Longer
<1> QED
  BY <1>1, <1>2

\* A chain that goes on changes no other one.
LEMMA LongerChained ==
    ASSUME NEW ch, NEW ch2, NEW h \in DOMAIN ch, Longer(ch, ch2, h)
    PROVE  Rechained(ch, ch2, h, h)
BY DEF Longer, Rechained

\* Tables stay when the chains of directories and the sectors of data do.
LEMMA TablesAside ==
    ASSUME NEW v, NEW ch, NEW tb, Stored(v, ch, tb), NEW w, Aside(v, w),
           NEW ch2, Chains(w, ch2), DOMAIN tb \subseteq DOMAIN ch2, \A h \in DOMAIN tb : ch2[h] = ch[h]
    PROVE  Stored(w, ch2, tb)
<1>1. ASSUME NEW h \in DOMAIN tb, NEW j \in 1 .. Len(ch[h]) PROVE w[Data(ch[h][j])] = v[Data(ch[h][j])]
  <2>1. h \in DOMAIN ch /\ Chains(v, ch)
    BY DEF Stored
  <2>2. ch[h][j] \in Cluster
    BY <2>1, ChainHas
  <2> QED
    BY <2>2 DEF Aside
<1> QED
  BY <1>1, SameTables

\* A file's chain, followed or made longer by create_chain.
Onwards(w, ch, ch2, tb, h, j, n) ==
    /\ Stored(w, ch2, tb) /\ Longer(ch, ch2, h)
    /\ n \in Cluster /\ j + 1 \in 1 .. Len(ch2[h]) /\ ch2[h][j + 1] = n

\* create_chain from a cluster of a file: the next one, a new one, or none.
LEMMA GoesOn ==
    ASSUME NEW d, NEW gone, NEW S, Window(d, gone, S), NEW ch, NEW tb, Stored(S.vol, ch, tb),
           NEW h \in DOMAIN ch, h \notin DOMAIN tb, NEW j \in 1 .. Len(ch[h])
    PROVE  \/ create_chain(S, ch[h][j]).n = 0 /\ create_chain(S, ch[h][j]).s.vol = S.vol
           \/ \E ch2 : Onwards(create_chain(S, ch[h][j]).s.vol, ch, ch2, tb, h, j, create_chain(S, ch[h][j]).n)
<1> DEFINE R == create_chain(S, ch[h][j])
<1>1. Chains(S.vol, ch) /\ DOMAIN tb \subseteq DOMAIN ch
  BY DEF Stored
<1>2. /\ ch[h] \in Seq(Cluster) /\ Len(ch[h]) \in Nat \ {0}
      /\ \A k \in 1 .. Len(ch[h]) : ch[h][k] \in Cluster
  BY <1>1, ChainHas
<1>3. CASE j < Len(ch[h])
  <2>1. j \in 1 .. Len(ch[h]) - 1
    BY <1>2, <1>3
  <2>2. R.n = ch[h][j + 1] /\ R.n \in Cluster /\ R.s.vol = S.vol
    BY <1>1, <2>1, NextOnChain
  <2> HIDE DEF R
  <2>3. j + 1 \in 1 .. Len(ch[h]) /\ Longer(ch, ch, h)
    BY <1>2, <1>3 DEF Longer
  <2>4. Onwards(R.s.vol, ch, ch, tb, h, j, R.n)
    BY <2>2, <2>3 DEF Onwards
  <2> QED
    BY <2>4 DEF R
<1>4. CASE j = Len(ch[h])
  <2> DEFINE s == Append(ch[h], R.n)
             ch2 == [ch EXCEPT ![h] = s]
  <2>1. \/ R.n = 0 /\ R.s.vol = S.vol
        \/ R.n \in Cluster /\ Chains(R.s.vol, ch2) /\ Aside(S.vol, R.s.vol)
    BY <1>1, <1>4, LongerChain
  <2>2. CASE R.n \in Cluster /\ Chains(R.s.vol, ch2) /\ Aside(S.vol, R.s.vol)
    <3> HIDE DEF R
    <3>1. /\ Len(s) = Len(ch[h]) + 1 /\ s[Len(ch[h]) + 1] = R.n
          /\ \A k \in 1 .. Len(ch[h]) : s[k] = ch[h][k]
      BY <1>2, <2>2
    <3>2. DOMAIN ch2 = DOMAIN ch /\ ch2[h] = s /\ \A g \in DOMAIN ch : g # h => ch2[g] = ch[g]
      OBVIOUS
    <3> HIDE DEF s, ch2
    <3>3. Longer(ch, ch2, h)
      BY <1>2, <3>1, <3>2 DEF Longer
    <3>4. Stored(R.s.vol, ch2, tb)
      BY <1>1, <2>2, <3>2, TablesAside
    <3>5. Onwards(R.s.vol, ch, ch2, tb, h, j, R.n)
      BY <1>2, <1>4, <2>2, <3>1, <3>2, <3>3, <3>4 DEF Onwards
    <3> QED
      BY <3>5 DEF R
  <2> QED
    BY <2>1, <2>2
<1> QED
  BY <1>2, <1>3, <1>4

\* A chain begun for a file that has none.
Begun(w, ch, ch2, tb, n) ==
    /\ Stored(w, ch2, tb) /\ n \in Cluster /\ n \notin DOMAIN ch
    /\ DOMAIN ch2 = DOMAIN ch \cup {n} /\ ch2[n] = <<n>> /\ \A g \in DOMAIN ch : ch2[g] = ch[g]

\* create_chain from nothing: a chain of one new cluster, or none.
LEMMA Begins ==
    ASSUME NEW d, NEW gone, NEW S, Window(d, gone, S), NEW ch, NEW tb, Stored(S.vol, ch, tb)
    PROVE  \/ create_chain(S, 0).n = 0 /\ create_chain(S, 0).s.vol = S.vol
           \/ \E ch2 : Begun(create_chain(S, 0).s.vol, ch, ch2, tb, create_chain(S, 0).n)
<1> DEFINE R == create_chain(S, 0)
           ch2 == With(ch, R.n, <<R.n>>)
<1>1. Chains(S.vol, ch) /\ DOMAIN tb \subseteq DOMAIN ch
  BY DEF Stored
<1>2. \/ R.n = 0 /\ R.s.vol = S.vol
      \/ R.n \in Cluster /\ R.n \notin DOMAIN ch /\ Chains(R.s.vol, ch2) /\ Aside(S.vol, R.s.vol)
  BY <1>1, NewChain
<1>3. CASE R.n \in Cluster /\ R.n \notin DOMAIN ch /\ Chains(R.s.vol, ch2) /\ Aside(S.vol, R.s.vol)
  <2> HIDE DEF R
  <2>1. DOMAIN ch2 = DOMAIN ch \cup {R.n} /\ ch2[R.n] = <<R.n>> /\ \A g \in DOMAIN ch : ch2[g] = ch[g]
    BY <1>3 DEF With
  <2> HIDE DEF ch2
  <2>2. Stored(R.s.vol, ch2, tb)
    BY <1>1, <1>3, <2>1, TablesAside
  <2>3. Begun(R.s.vol, ch, ch2, tb, R.n)
    BY <1>3, <2>1, <2>2 DEF Begun
  <2> QED
    BY <2>3 DEF R
<1> QED
  BY <1>2, <1>3

\* Writing to a cluster of a file touches no table and no chain.
LEMMA DataWritten ==
    ASSUME NEW v, NEW ch, NEW tb, Stored(v, ch, tb), NEW h \in DOMAIN ch, h \notin DOMAIN tb,
           NEW j \in 1 .. Len(ch[h]), NEW w, \A s \in Sector : s # Data(ch[h][j]) => w[s] = v[s]
    PROVE  Stored(w, ch, tb)
<1>1. Chains(v, ch) /\ DOMAIN tb \subseteq DOMAIN ch
  BY DEF Stored
<1>2. \A c \in Cluster : FatSec(c) \in Sector /\ Data(c) \in Sector
  BY DEF Sector
<1>3. Chains(w, ch)
  <2>1. \A c \in Cluster : w[FatSec(c)] = v[FatSec(c)]
    BY <1>2, Apart
  <2> QED
    BY <1>1, <2>1, SameChains
<1>4. ASSUME NEW g \in DOMAIN tb, NEW k \in 1 .. Len(ch[g]) PROVE w[Data(ch[g][k])] = v[Data(ch[g][k])]
  <2>1. ch[g][k] \in Cluster /\ ch[h][j] \in Cluster
    BY <1>1, ChainHas
  <2>2. ch[g][k] # ch[h][j]
    BY <1>1, TablesApart
  <2>3. Data(ch[g][k]) # Data(ch[h][j])
    BY <2>2 DEF Data
  <2> QED
    BY <1>2, <2>1, <2>3
<1> QED
  BY <1>1, <1>3, <1>4, SameTables

\* The state a cluster for one more sector of a file leaves.
Room(w, ch, ch2, tb, o, b, n) ==
    /\ Stored(w, ch2, tb) /\ Rechained(ch, ch2, o.sclust, b) /\ b \in DOMAIN ch2 /\ b \notin DOMAIN tb
    /\ b = (IF o.sclust = 0 THEN n ELSE o.sclust)
    /\ o.fptr + 1 \in 1 .. Len(ch2[b]) /\ ch2[b][o.fptr + 1] = n /\ n \in Cluster
    /\ Reaches(ch2, b, o.objsize) /\ o.fptr \in Nat /\ o.objsize \in Nat
    /\ \A j \in 1 .. o.objsize : ch2[b][j] = ch[o.sclust][j]

\* What f_write asks for.
Asked(S, o) == IF o.fptr > 0 THEN create_chain(S, o.clust)
               ELSE IF o.sclust = 0 THEN create_chain(S, 0)
               ELSE [s |-> S, n |-> o.sclust]

\* The cluster f_write writes to is on the chain of its file, at its position.
LEMMA RoomIs ==
    ASSUME NEW d, NEW gone, NEW S, Window(d, gone, S), NEW ch, NEW tb, Stored(S.vol, ch, tb),
           NEW o, NEW x, NEW c, NEW k, Handle(o, ch, x, c, k), o.sclust \notin DOMAIN tb
    PROVE  /\ Window(d, gone, Asked(S, o).s)
           /\ \/ Asked(S, o).n = 0 /\ Asked(S, o).s.vol = S.vol
              \/ \E ch2, b : Room(Asked(S, o).s.vol, ch, ch2, tb, o, b, Asked(S, o).n)
<1> DEFINE A == Asked(S, o)
<1>1. Chains(S.vol, ch) /\ 0 \notin DOMAIN ch
  BY HeadsAre DEF Stored
<1>2. /\ o.objsize \in Nat /\ o.fptr \in 0 .. o.objsize
      /\ o.sclust = 0 => o.objsize = 0 /\ o.fptr = 0
      /\ o.sclust # 0 => o.sclust \in DOMAIN ch /\ o.objsize <= Len(ch[o.sclust])
      /\ Reaches(ch, o.sclust, o.objsize)
  BY HandleReaches
<1>3. Window(d, gone, A.s)
  BY CreateChain DEF Asked
<1>4. CASE o.sclust = 0
  <2>1. A = create_chain(S, 0)
    BY <1>2, <1>4 DEF Asked
  <2>2. \/ A.n = 0 /\ A.s.vol = S.vol
        \/ \E ch2 : Begun(A.s.vol, ch, ch2, tb, A.n)
    BY <2>1, Begins
  <2> HIDE DEF A
  <2>3. ASSUME NEW ch2, Begun(A.s.vol, ch, ch2, tb, A.n) PROVE Room(A.s.vol, ch, ch2, tb, o, A.n, A.n)
    <3>1. /\ Stored(A.s.vol, ch2, tb) /\ A.n \in Cluster /\ A.n \notin DOMAIN ch
          /\ DOMAIN ch2 = DOMAIN ch \cup {A.n} /\ ch2[A.n] = <<A.n>> /\ \A g \in DOMAIN ch : ch2[g] = ch[g]
      BY <2>3 DEF Begun
    <3>2. Rechained(ch, ch2, 0, A.n)
      <4>1. 0 \notin DOMAIN ch2
        BY <3>1, HeadsAre DEF Stored
      <4> QED
        BY <3>1, <4>1 DEF Rechained
    <3>3. A.n \notin DOMAIN tb
      BY <3>1 DEF Stored
    <3>4. o.fptr + 1 \in 1 .. Len(ch2[A.n]) /\ ch2[A.n][o.fptr + 1] = A.n /\ o.fptr \in Nat
      BY <1>2, <1>4, <3>1
    <3>5. Reaches(ch2, A.n, o.objsize)
      BY <1>2, <1>4, <3>1 DEF Reaches, Cluster, Top
    <3> QED
      BY <1>2, <1>4, <3>1, <3>2, <3>3, <3>4, <3>5 DEF Room
  <2> QED
    BY <1>3, <2>2, <2>3 DEF A
<1>5. CASE o.sclust # 0 /\ o.fptr = 0
  <2>1. A.s = S /\ A.n = o.sclust
    BY <1>5 DEF Asked
  <2>2. o.sclust \in Cluster /\ Len(ch[o.sclust]) \in Nat \ {0} /\ ch[o.sclust][1] = o.sclust
    BY <1>1, <1>2, <1>5, ChainHas, HeadsAre
  <2> HIDE DEF A
  <2>3. Rechained(ch, ch, o.sclust, o.sclust)
    BY <1>2, SameChained
  <2>4. o.fptr + 1 \in 1 .. Len(ch[o.sclust]) /\ ch[o.sclust][o.fptr + 1] = A.n /\ o.fptr \in Nat
    BY <1>5, <2>1, <2>2
  <2>5. Room(A.s.vol, ch, ch, tb, o, o.sclust, A.n)
    BY <1>2, <1>5, <2>1, <2>2, <2>3, <2>4 DEF Room
  <2> QED
    BY <1>3, <2>5 DEF A
<1>6. CASE o.sclust # 0 /\ o.fptr # 0
  <2>1. A = create_chain(S, o.clust) /\ o.clust = ch[o.sclust][o.fptr] /\ o.fptr \in Nat
    BY <1>2, <1>6 DEF Asked, Handle
  <2>2. o.fptr \in 1 .. Len(ch[o.sclust])
    <3>1. Len(ch[o.sclust]) \in Nat \ {0}
      BY <1>1, <1>2, <1>6, ChainHas
    <3> QED
      BY <1>2, <1>6, <3>1
  <2>3. \/ A.n = 0 /\ A.s.vol = S.vol
        \/ \E ch2 : Onwards(A.s.vol, ch, ch2, tb, o.sclust, o.fptr, A.n)
    BY <1>2, <1>6, <2>1, <2>2, GoesOn
  <2> HIDE DEF A
  <2>4. ASSUME NEW ch2, Onwards(A.s.vol, ch, ch2, tb, o.sclust, o.fptr, A.n)
        PROVE  Room(A.s.vol, ch, ch2, tb, o, o.sclust, A.n)
    <3>1. /\ Stored(A.s.vol, ch2, tb) /\ Longer(ch, ch2, o.sclust)
          /\ A.n \in Cluster /\ o.fptr + 1 \in 1 .. Len(ch2[o.sclust]) /\ ch2[o.sclust][o.fptr + 1] = A.n
      BY <2>4 DEF Onwards
    <3>3. \A j \in 1 .. o.objsize : ch2[o.sclust][j] = ch[o.sclust][j]
      BY <1>2, <1>6, <3>1 DEF Longer
    <3>2. /\ Rechained(ch, ch2, o.sclust, o.sclust) /\ Reaches(ch2, o.sclust, o.objsize)
          /\ o.sclust \in DOMAIN ch2
      BY <1>2, <1>6, <3>1, LongerChained, LongerReaches DEF Longer
    <3> QED
      BY <1>2, <1>6, <2>1, <3>1, <3>2, <3>3 DEF Room
  <2> QED
    BY <1>3, <2>3, <2>4 DEF A
<1> QED
  BY <1>4, <1>5, <1>6

\* It is asked for in the FAT.
LEMMA AskedAside ==
    ASSUME NEW d, NEW gone, NEW S, Window(d, gone, S), Entries(S.vol), NEW o
    PROVE  Aside(S.vol, Asked(S, o).s.vol)
<1>1. Aside(S.vol, S.vol)
  BY DEF Aside
<1> QED
  BY <1>1, CreateAside DEF Asked

\* The chain of an open file is that of no directory.
LEMMA FirstHeld ==
    ASSUME NEW F, NEW ch, NEW tb, NEW pt, FilesForm(F, ch, tb, pt, {}), NEW f, NEW h, NEW i,
           Mine(F, ch, tb, pt, f, h, i), 0 \notin DOMAIN ch, DOMAIN tb \subseteq DOMAIN ch
    PROVE  F[f].sclust \notin DOMAIN tb /\ (F[f].sclust = 0 \/ F[f].sclust \in DOMAIN ch)
<1>1. IsFile(tb, h, i) /\ FirstAt(F, tb, pt, h, i) = F[f].sclust
  BY DEF Mine, HasFile
<1>2. F[f].sclust \in {0} \cup Held(ch, tb, {})
  BY <1>1 DEF FilesForm
<1> QED
  BY <1>2 DEF Held

\* f_write: the sector is on the volume and in what was written, at the same place of
\* the same file, and nowhere else.
LEMMA WriteIs ==
    ASSUME NEW ch, NEW tb, NEW pt, Intact(lib.vol, fil, ch, tb, pt, want), Typed(fil), WindowInv,
           NEW f \in Fil, f_write(f)
    PROVE  Faithful(lib'.vol, fil', want') /\ Typed(fil')
<1> DEFINE o == fil[f]
           d == [dat |-> Last(o.path)]
           C == Asked(lib, o)
           n == o.fptr + 1
           T == [C.s EXCEPT !.vol[Data(C.n)] = d, !.out = Append(@, <<Data(C.n), d>>)]
           p == o.path
           D == want[p].data
           m == IF n > Len(D) THEN n ELSE Len(D)
           D2 == [j \in 1 .. m |-> IF j = n THEN d ELSE D[j]]
           W2 == [want EXCEPT ![p].data = D2]
           o1 == [o EXCEPT !.modified = TRUE]
           o2 == [o EXCEPT !.fptr = n, !.clust = C.n, !.modified = TRUE,
                           !.sclust = IF o.sclust = 0 THEN C.n ELSE o.sclust,
                           !.objsize = IF n > o.objsize THEN n ELSE o.objsize]
<1>1. Stored(lib.vol, ch, tb) /\ Tree(tb, pt) /\ FilesForm(fil, ch, tb, pt, {})
      /\ DOMAIN tb \subseteq DOMAIN ch /\ 0 \notin DOMAIN ch
  BY HeadsAre DEF Intact, Whole, Stored
<1>2. o.open
  BY DEF f_write
<1>3. C.n \notin Cluster => lib' = C.s /\ want' = want /\ (C.n = 0 => fil' = [fil EXCEPT ![f] = o1])
  BY DEF f_write, Done, Asked
<1>4. C.n \in Cluster => lib' = T /\ fil' = [fil EXCEPT ![f] = o2] /\ want' = W2
  BY DEF f_write, Done, Asked
<1>5. PICK h, i : Mine(fil, ch, tb, pt, f, h, i)
  BY <1>1, <1>2, MineIs
<1>6. Handle(o, ch, tb[h][i], ch[h][At(i)], In(i))
  BY <1>5 DEF Mine, HasFile
<1>7. o.sclust \notin DOMAIN tb /\ (o.sclust = 0 \/ o.sclust \in DOMAIN ch)
  BY <1>1, <1>5, FirstHeld
<1>8. /\ Window(disk, crashed, C.s)
      /\ \/ C.n = 0 /\ C.s.vol = lib.vol
         \/ \E ch2, b : Room(C.s.vol, ch, ch2, tb, o, b, C.n)
  BY <1>1, <1>6, <1>7, RoomIs DEF WindowInv
<1>9. DOMAIN o = FilFields
  BY <1>2 DEF Typed
<1>12. p \in DOMAIN want /\ want[p] = File(D) /\ Holds(lib.vol, ch[o.sclust], o.objsize, D) /\ o.objsize \in Nat
  BY <1>5, MineHolds
<1>13. p = fil[f].path
  OBVIOUS
<1>14. Aside(lib.vol, C.s.vol)
  BY <1>1, AskedAside DEF WindowInv, Stored, Chains
<1> HIDE DEF o, C, n, d, T, p, D, D2, W2
<1>10. CASE C.n = 0 /\ C.s.vol = lib.vol
  <2>1. C.n \notin Cluster
    BY <1>10 DEF Cluster, Top
  <2>2. lib' = C.s /\ fil' = [fil EXCEPT ![f] = o1] /\ want' = want
    BY <1>3, <1>10, <2>1
  <2>3. /\ o1.open = o.open /\ o1.path = o.path /\ o1.sclust = o.sclust /\ o1.objsize = o.objsize
        /\ o1.fptr = o.fptr /\ o1.clust = o.clust /\ o1.modified = TRUE /\ o1.err = o.err
        /\ o1.dir_sect = o.dir_sect /\ o1.dir_slot = o.dir_slot /\ DOMAIN o1 = FilFields
    BY <1>9 DEF FilFields
  <2> HIDE DEF o1
  <2>4. Handle(o1, ch, tb[h][i], ch[h][At(i)], In(i))
    BY <1>6, <2>3 DEF Handle
  <2>5. Leaves(fil, ch, tb, pt, f, h, i, ch, o1)
    BY <1>2, <1>5, <1>7, <2>3, <2>4, SameChained DEF Leaves, o
  <2>6. Intact(lib.vol, fil', ch, tb, pt, want')
    <3>1. Turned(want, want, fil[f].path, D)
      BY <1>12, <1>13 DEF Turned
    <3> QED
      BY <1>1, <1>12, <2>2, <2>3, <2>5, <3>1, SameShown
  <2>7. Typed([fil EXCEPT ![f] = o1])
    BY <2>3, TypedStays
  <2> QED
    BY <1>10, <2>2, <2>6, <2>7 DEF Faithful
<1>11. ASSUME NEW ch2, NEW b, Room(C.s.vol, ch, ch2, tb, o, b, C.n)
       PROVE  Faithful(lib'.vol, fil', want') /\ Typed(fil')
  <2>1. /\ Stored(C.s.vol, ch2, tb) /\ Rechained(ch, ch2, o.sclust, b) /\ b \in DOMAIN ch2 /\ b \notin DOMAIN tb
        /\ b = (IF o.sclust = 0 THEN C.n ELSE o.sclust)
        /\ n \in 1 .. Len(ch2[b]) /\ ch2[b][n] = C.n /\ C.n \in Cluster
        /\ Reaches(ch2, b, o.objsize) /\ o.fptr \in Nat /\ o.objsize \in Nat
    BY <1>11 DEF Room, n
  <2>2. lib' = T /\ fil' = [fil EXCEPT ![f] = o2] /\ want' = W2
    BY <1>4, <2>1
  <2>3. \A s \in Sector : s # Data(ch2[b][n]) => lib'.vol[s] = C.s.vol[s]
    <3>1. DOMAIN C.s = Fields /\ DOMAIN C.s.vol = Sector
      BY <1>8 DEF Window, Through
    <3>2. lib'.vol = [C.s.vol EXCEPT ![Data(C.n)] = d]
      BY <2>2, <3>1 DEF T, Fields
    <3> QED
      BY <2>1, <3>1, <3>2
  <2>4. Stored(lib'.vol, ch2, tb)
    BY <2>1, <2>3, DataWritten
  <2>5. /\ o2.open = o.open /\ o2.path = o.path /\ o2.sclust = b
        /\ o2.objsize = (IF n > o.objsize THEN n ELSE o.objsize)
        /\ o2.fptr = n /\ o2.clust = C.n /\ o2.modified = TRUE /\ o2.err = o.err
        /\ o2.dir_sect = o.dir_sect /\ o2.dir_slot = o.dir_slot /\ DOMAIN o2 = FilFields
    BY <1>9, <2>1 DEF FilFields
  <2> HIDE DEF o2
  <2>6. Handle(o2, ch2, tb[h][i], ch[h][At(i)], In(i))
    <3>1. n \in Nat /\ n > 0 /\ o2.objsize \in Nat /\ o2.fptr \in 0 .. o2.objsize
      BY <2>1, <2>5 DEF n
    <3>2. Reaches(ch2, b, o2.objsize)
      <4>1. b # 0
        BY <2>1, HeadsAre DEF Stored
      <4> QED
        BY <2>1, <2>5, <3>1, <4>1 DEF Reaches
    <3> QED
      BY <1>6, <2>1, <2>5, <3>1, <3>2 DEF Handle
  <2>7. Leaves(fil, ch, tb, pt, f, h, i, ch2, o2)
    BY <1>2, <1>5, <2>1, <2>5, <2>6 DEF Leaves, o
  <2>10. \A j \in 1 .. o.objsize : ch2[b][j] = ch[o.sclust][j]
    BY <1>11 DEF Room
  <2> DEFINE X == {C.n}
  <2>11. \A c \in Cluster : c # C.n => lib'.vol[Data(c)] = lib.vol[Data(c)]
    <3>1. \A c \in Cluster : c # C.n => Data(c) # Data(C.n) /\ Data(c) \in Sector
      BY DEF Data, Sector
    <3> QED
      BY <1>14, <2>1, <2>3, <3>1 DEF Aside
  <2>12. lib'.vol[Data(C.n)] = d
    <3>1. DOMAIN C.s = Fields /\ DOMAIN C.s.vol = Sector
      BY <1>8 DEF Window, Through
    <3>2. lib'.vol = [C.s.vol EXCEPT ![Data(C.n)] = d]
      BY <2>2, <3>1 DEF T, Fields
    <3>3. Data(C.n) \in Sector
      BY <2>1 DEF Sector
    <3> QED
      BY <3>1, <3>2, <3>3
  <2>13. Only(lib.vol, lib'.vol, X)
    BY <2>11 DEF Only
  <2>14. Within(ch2, b, X)
    BY <2>1 DEF Within, On
  <2>15. Len(D) = o.objsize /\ m = o2.objsize /\ n \in 1 .. m /\ m \in Nat /\ o.objsize \in Nat /\ o.objsize <= m /\ n \in Nat
         /\ m <= Len(ch2[b]) /\ m <= o.objsize + 1 /\ (m > o.objsize => n = m)
    <3>1. n \in Nat \ {0} /\ n <= o.objsize + 1
      BY <1>6, <2>1 DEF n, Handle
    <3>2. Len(D) = o.objsize
      BY <1>12 DEF Holds
    <3>3. o.objsize <= Len(ch2[b])
      BY <2>1, HeadsAre DEF Reaches, Stored
    <3> QED
      BY <2>1, <2>5, <3>1, <3>2, <3>3
  <2> HIDE DEF X, m
  <2>16. Len(D2) = m /\ D2 = [j \in 1 .. m |-> D2[j]] /\ D2[n] = d
         /\ \A j \in 1 .. m : j # n => D2[j] = D[j]
    <3>1. m \in Nat /\ n \in 1 .. m
      BY <2>15
    <3> QED
      BY <3>1 DEF D2
  <2>17. ASSUME NEW j \in 1 .. m PROVE D2[j] \in {[dat |-> "?"], lib'.vol[Data(ch2[b][j])]}
    <3>1. CASE j = n
      BY <2>1, <2>12, <2>16, <3>1
    <3>2. CASE j # n
      <4>1. j \in 1 .. o.objsize /\ j \in 1 .. Len(ch2[b])
        <5>1. Len(ch2[b]) \in Nat
          BY <2>1, ChainHas DEF Stored
        <5>2. j \in Nat /\ j >= 1 /\ j <= m /\ m \in Nat
          BY <2>15
        <5>3. j <= o.objsize
          BY <2>15, <3>2, <5>2
        <5> QED
          BY <2>15, <5>1, <5>2, <5>3
      <4>2. D2[j] = D[j] /\ D[j] \in {[dat |-> "?"], lib.vol[Data(ch[o.sclust][j])]}
        BY <1>12, <2>16, <3>2, <4>1 DEF Holds
      <4>3. ch2[b][j] # C.n /\ ch2[b][j] \in Cluster
        <5>1. Linked(C.s.vol, ch2[b])
          BY <2>1 DEF Stored, Chains
        <5> QED
          BY <2>1, <3>2, <4>1, <5>1 DEF Linked
      <4> QED
        BY <2>10, <2>11, <4>1, <4>2, <4>3
    <3> QED
      BY <3>1, <3>2
  <2>18. Holds(lib'.vol, ch2[b], o2.objsize, D2)
    BY <2>15, <2>16, <2>17 DEF Holds
  <2>19. Turned(want, W2, fil[f].path, D2)
    <3>1. Turned(want, [want EXCEPT ![p].data = D2], p, D2)
      BY <1>12, TurnedIs DEF D
    <3> QED
      BY <1>13, <3>1 DEF W2
  <2>8. Intact(lib'.vol, [fil EXCEPT ![f] = o2], ch2, tb, pt, W2)
    BY <2>4, <2>5, <2>7, <2>13, <2>14, <2>18, <2>19, FileShown
  <2>9. Typed([fil EXCEPT ![f] = o2])
    BY <2>5, TypedStays
  <2> QED
    BY <2>2, <2>8, <2>9 DEF Faithful
<1> QED
  BY <1>8, <1>10, <1>11

-----------------------------------------------------------------------------
(* f_lseek.                                                                *)

\* A seek along the chain at h stands at its position after at most k turns.
Seeking(d, gone, v, ch, tb, h, top, T) ==
    /\ DOMAIN T = {"s", "fptr", "clust", "full", "err"} /\ Window(d, gone, T.s)
    /\ T.err = FALSE /\ T.full \in BOOLEAN /\ T.fptr \in Nat \ {0} /\ T.fptr <= top
    /\ Aside(v, T.s.vol)
    /\ \E ch2 : /\ Stored(T.s.vol, ch2, tb) /\ Longer(ch, ch2, h)
                /\ T.fptr \in 1 .. Len(ch2[h]) /\ T.clust = ch2[h][T.fptr]

\* What a turn of a seek asks for, and makes of the answer.
SeekAsks(T, write) == IF write THEN create_chain(T.s, T.clust)
                      ELSE [s |-> get_fat(T.s, T.clust), n |-> FatOf(T.s.vol, T.clust)]
SeekTakes(T, C) == IF C.n \in Cluster THEN [T EXCEPT !.s = C.s, !.fptr = @ + 1, !.clust = C.n]
                   ELSE [T EXCEPT !.s = C.s, !.full = C.n = 0, !.err = C.n # 0]

\* One turn of the loop of f_lseek.
LEMMA SeekOn ==
    ASSUME NEW d, NEW gone, NEW v, NEW ch, NEW tb, NEW h \in DOMAIN ch, h \notin DOMAIN tb, NEW top \in Nat,
           NEW T, Seeking(d, gone, v, ch, tb, h, top, T), NEW write, write \/ top + 1 <= Len(ch[h])
    PROVE  Seeking(d, gone, v, ch, tb, h, top + 1, SeekTakes(T, SeekAsks(T, write)))
<1> DEFINE C == SeekAsks(T, write)
           M == [T EXCEPT !.s = C.s, !.full = C.n = 0, !.err = C.n # 0]
           N == [T EXCEPT !.s = C.s, !.fptr = @ + 1, !.clust = C.n]
<1>1. /\ DOMAIN T = {"s", "fptr", "clust", "full", "err"} /\ Window(d, gone, T.s)
      /\ T.err = FALSE /\ T.full \in BOOLEAN /\ T.fptr \in Nat \ {0} /\ T.fptr <= top
  BY DEF Seeking
<1>2. PICK b : /\ Stored(T.s.vol, b, tb) /\ Longer(ch, b, h)
               /\ T.fptr \in 1 .. Len(b[h]) /\ T.clust = b[h][T.fptr]
  BY DEF Seeking
<1>3. Window(d, gone, C.s)
  BY <1>1, CreateChain, GetFat DEF SeekAsks
<1>4. h \in DOMAIN b
  BY <1>2 DEF Longer
<1>9. Aside(v, C.s.vol)
  <2>1. Aside(v, T.s.vol) /\ Entries(T.s.vol)
    BY <1>2 DEF Seeking, Stored, Chains
  <2>2. CASE write
    <3>1. Aside(T.s.vol, C.s.vol)
      BY <1>1, <2>1, <2>2, CreateAside DEF SeekAsks
    <3> QED
      BY <2>1, <3>1 DEF Aside
  <2>3. CASE ~write
    <3>1. C.s.vol = T.s.vol
      BY <1>1, <2>3, GetFat DEF SeekAsks
    <3> QED
      BY <2>1, <3>1
  <2> QED
    BY <2>2, <2>3
<1>5. \/ C.n = 0 /\ C.s.vol = T.s.vol
      \/ \E ch2 : Onwards(C.s.vol, b, ch2, tb, h, T.fptr, C.n)
  <2>1. CASE write
    BY <1>1, <1>2, <1>4, <2>1, GoesOn DEF SeekAsks
  <2>2. CASE ~write
    <3>1. C.s.vol = T.s.vol /\ C.n = FatOf(T.s.vol, T.clust)
      BY <1>1, <2>2, GetFat DEF SeekAsks
    <3>2. Chains(T.s.vol, b)
      BY <1>2 DEF Stored
    <3>3. T.fptr \in 1 .. Len(b[h]) - 1 /\ T.fptr + 1 \in 1 .. Len(b[h])
      BY <1>1, <1>2, <2>2 DEF Longer
    <3>4. C.n = b[h][T.fptr + 1] /\ C.n \in Cluster
      BY <1>2, <1>4, <3>1, <3>2, <3>3, ChainHas
    <3>5. Longer(b, b, h)
      BY <1>2 DEF Longer
    <3>6. Onwards(C.s.vol, b, b, tb, h, T.fptr, C.n)
      BY <1>2, <3>1, <3>3, <3>4, <3>5 DEF Onwards
    <3> QED
      BY <3>6
  <2> QED
    BY <2>1, <2>2
<1> HIDE DEF C
<1>6. CASE C.n = 0 /\ C.s.vol = T.s.vol
  <2>1. C.n \notin Cluster
    BY <1>6 DEF Cluster, Top
  <2>2. /\ DOMAIN M = {"s", "fptr", "clust", "full", "err"} /\ M.s = C.s /\ M.fptr = T.fptr
        /\ M.clust = T.clust /\ M.full = TRUE /\ M.err = FALSE
    BY <1>1, <1>6
  <2> HIDE DEF M
  <2>3. Stored(M.s.vol, b, tb)
    BY <1>2, <1>6, <2>2
  <2>5. M.fptr \in Nat \ {0} /\ M.fptr <= top + 1
    BY <1>1, <2>2
  <2>6. Window(d, gone, M.s) /\ M.fptr \in 1 .. Len(b[h]) /\ M.clust = b[h][M.fptr] /\ M.full \in BOOLEAN
    BY <1>2, <1>3, <2>2
  <2>4. Seeking(d, gone, v, ch, tb, h, top + 1, M)
    BY <1>2, <1>9, <2>2, <2>3, <2>5, <2>6 DEF Seeking
  <2>7. SeekTakes(T, C) = M
    BY <2>1 DEF SeekTakes, M
  <2>8. Seeking(d, gone, v, ch, tb, h, top + 1, SeekTakes(T, C))
    BY <2>4, <2>7
  <2> QED
    BY <2>8 DEF C
<1>7. ASSUME NEW ch2, Onwards(C.s.vol, b, ch2, tb, h, T.fptr, C.n)
      PROVE  C.n \in Cluster /\ Seeking(d, gone, v, ch, tb, h, top + 1, N)
  <2>1. /\ Stored(C.s.vol, ch2, tb) /\ Longer(b, ch2, h) /\ C.n \in Cluster
        /\ T.fptr + 1 \in 1 .. Len(ch2[h]) /\ ch2[h][T.fptr + 1] = C.n
    BY <1>7 DEF Onwards
  <2>2. Longer(ch, ch2, h)
    BY <1>2, <2>1, LongerBoth
  <2>3. /\ DOMAIN N = {"s", "fptr", "clust", "full", "err"} /\ N.s = C.s /\ N.fptr = T.fptr + 1
        /\ N.clust = C.n /\ N.full = T.full /\ N.err = FALSE
    BY <1>1
  <2> HIDE DEF N
  <2>4. Seeking(d, gone, v, ch, tb, h, top + 1, N)
    BY <1>1, <1>3, <1>9, <2>1, <2>2, <2>3 DEF Seeking
  <2> QED
    BY <2>1, <2>4
<1> HIDE DEF N
<1>8. ASSUME NEW ch2, Onwards(C.s.vol, b, ch2, tb, h, T.fptr, C.n)
      PROVE  Seeking(d, gone, v, ch, tb, h, top + 1, SeekTakes(T, C))
  <2>1. SeekTakes(T, C) = N
    BY <1>7, <1>8 DEF SeekTakes, N
  <2> QED
    BY <1>7, <1>8, <2>1
<1> QED
  BY <1>5, <1>6, <1>8 DEF C

\* The loop of f_lseek.
LEMMA SeekIs ==
    ASSUME NEW d, NEW gone, NEW S, Window(d, gone, S), NEW ch, NEW tb, Stored(S.vol, ch, tb),
           NEW h \in DOMAIN ch, h \notin DOMAIN tb, NEW fptr \in Nat, fptr + 1 <= Len(ch[h]),
           NEW c, c = ch[h][fptr + 1], NEW ofs \in Nat, NEW write, write \/ fptr + ofs <= Len(ch[h])
    PROVE  \E top : Seeking(d, gone, S.vol, ch, tb, h, top, Seek(S, write, fptr, c, ofs))
<1> DEFINE v == S.vol
           loop == [name |-> "Seek", write |-> write, ofs |-> ofs]
           turns == Size
           s0 == [s |-> S, fptr |-> fptr + 1, clust |-> c, full |-> FALSE, err |-> FALSE]
           F(T, k) ==
               IF T.full \/ T.err \/ k >= ofs THEN T
               ELSE LET C == IF write THEN create_chain(T.s, T.clust)
                             ELSE [s |-> get_fat(T.s, T.clust), n |-> FatOf(T.s.vol, T.clust)]
                    IN  IF C.n \in Cluster THEN [T EXCEPT !.s = C.s, !.fptr = @ + 1, !.clust = C.n]
                        ELSE [T EXCEPT !.s = C.s, !.full = C.n = 0, !.err = C.n # 0]
           G(g) == g = [k \in 0 .. turns |-> IF k = 0 THEN s0 ELSE F(g[k - 1], k)]
           Fine(T, k) == Seeking(d, gone, v, ch, tb, h, fptr + 1 + k, T)
           Q(g) == {k \in Nat : Fine(g[k], k)}
<1>1. turns \in Nat
  BY Sizes
<1>2. \A T, k : Turn(loop, T, k) = F(T, k)
  BY DEF Turn
<1>3. Fine(s0, 0)
  <2>1. Chains(S.vol, ch)
    BY DEF Stored
  <2>2. Len(ch[h]) \in Nat \ {0}
    BY <2>1, ChainHas
  <2>3. Longer(ch, ch, h)
    BY <2>2 DEF Longer
  <2>4. fptr + 1 \in 1 .. Len(ch[h])
    BY <2>2
  <2>5. Aside(v, s0.s.vol)
    BY DEF Aside
  <2> QED
    BY <2>3, <2>4, <2>5 DEF Seeking
<1>4. ASSUME NEW T, NEW k \in Nat, k # 0, Fine(T, k - 1) PROVE Fine(F(T, k), k)
  <2>1. CASE T.full \/ T.err \/ k >= ofs
    <3>1. F(T, k) = T
      BY <2>1
    <3>2. \A n \in Nat : n <= fptr + 1 + (k - 1) => n <= fptr + 1 + k
      BY <1>4
    <3> HIDE DEF F
    <3>3. Fine(T, k)
      BY <1>4, <3>2 DEF Seeking
    <3> QED
      BY <3>1, <3>3
  <2>2. CASE ~(T.full \/ T.err \/ k >= ofs)
    <3> DEFINE top == fptr + 1 + (k - 1)
               R == SeekTakes(T, SeekAsks(T, write))
    <3>1. F(T, k) = R
      BY <2>2 DEF SeekTakes, SeekAsks
    <3>2. Chains(S.vol, ch)
      BY DEF Stored
    <3>3. Len(ch[h]) \in Nat
      BY <3>2, ChainHas
    <3>4. top \in Nat /\ top + 1 = fptr + 1 + k /\ (write \/ top + 1 <= Len(ch[h]))
      BY <1>4, <2>2, <3>3
    <3>5. Seeking(d, gone, v, ch, tb, h, top, T)
      BY <1>4
    <3> HIDE DEF top, F
    <3>6. Seeking(d, gone, v, ch, tb, h, top + 1, R)
      BY <3>4, <3>5, SeekOn
    <3> HIDE DEF R
    <3> QED
      BY <3>1, <3>4, <3>6
  <2> QED
    BY <2>1, <2>2
<1>5. Seek(S, write, fptr, c, ofs) = (CHOOSE g : G(g))[turns]
  BY Zenon DEF Seek, Loop
<1> HIDE DEF F, s0, loop, turns, Fine
<1>6. \E g : G(g)
  <2>1. PICK g : Run(loop, s0, turns, g)
    BY <1>1, RunExists
  <2>2. G(g)
    BY <2>1, <1>2 DEF Run
  <2> QED
    BY <2>2
<1>7. PICK g : G(g) /\ Seek(S, write, fptr, c, ofs) = g[turns]
  BY <1>5, <1>6
<1>8. 0 \in Q(g)
  BY <1>1, <1>3, <1>7
<1>9. ASSUME NEW k \in 1 .. turns, k - 1 \in Q(g) PROVE k \in Q(g)
  <2>1. g[k] = F(g[k - 1], k) /\ k \in Nat /\ k # 0
    BY <1>1, <1>7
  <2> QED
    BY <2>1, <1>4, <1>9
<1>10. turns \in Q(g)
  <2> DEFINE Z == Q(g)
  <2>1. 0 \in Z /\ \A k \in 1 .. turns : k - 1 \in Z => k \in Z
    BY <1>8, <1>9
  <2> HIDE DEF Z
  <2>2. \A k \in 0 .. turns : k \in Z
    BY <1>1, <2>1, Turns
  <2>3. turns \in Z
    BY <1>1, <2>2
  <2> QED
    BY <2>3 DEF Z
<1> QED
  BY <1>7, <1>10 DEF Fine

\* Where a seek of the file object o leaves off: on the chain at b, which o has or gets.
Lands(v, K, b, ch, tb, o) ==
    /\ Aside(v, K.s.vol)
    /\ \E ch2 : /\ Stored(K.s.vol, ch2, tb) /\ Rechained(ch, ch2, o.sclust, b) /\ Reaches(ch2, b, o.objsize)
                /\ K.err = FALSE /\ K.fptr \in Nat
                /\ K.fptr # 0 => /\ b # 0 /\ b \in DOMAIN ch2 /\ K.fptr <= Len(ch2[b])
                                 /\ K.clust = ch2[b][K.fptr]
                /\ b # o.sclust => o.objsize = 0 /\ K.fptr # 0
                /\ \A j \in 1 .. o.objsize : ch2[b][j] = ch[o.sclust][j]

\* A seek leaves off on the chain, at the cluster of its position.
LEMMA SeekLands ==
    ASSUME NEW v, NEW d, NEW gone, NEW S, Aside(v, S.vol), NEW ch, NEW ch1, NEW tb, Stored(S.vol, ch1, tb),
           NEW o, NEW b \in DOMAIN ch1, b # 0, NEW K, NEW top, Seeking(d, gone, S.vol, ch1, tb, b, top, K),
           \A j \in 1 .. o.objsize : ch1[b][j] = ch[o.sclust][j],
           Rechained(ch, ch1, o.sclust, b), Reaches(ch1, b, o.objsize), o.objsize \in Nat,
           b # o.sclust => o.objsize = 0
    PROVE  Lands(v, K, b, ch, tb, o)
<1>1. PICK ch2 : /\ Stored(K.s.vol, ch2, tb) /\ Longer(ch1, ch2, b)
                 /\ K.fptr \in 1 .. Len(ch2[b]) /\ K.clust = ch2[b][K.fptr]
  BY DEF Seeking
<1>2. K.err = FALSE /\ K.fptr \in Nat \ {0}
  BY DEF Seeking
<1>3. Rechained(ch, ch2, o.sclust, b)
  BY <1>1 DEF Rechained, Longer
<1>4. Reaches(ch2, b, o.objsize)
  BY <1>1, LongerReaches
<1>5. b \in DOMAIN ch2 /\ K.fptr <= Len(ch2[b])
  BY <1>1 DEF Longer
<1>6. Aside(v, K.s.vol)
  BY DEF Seeking, Aside
<1>7. \A j \in 1 .. o.objsize : ch2[b][j] = ch[o.sclust][j]
  <2>1. o.objsize <= Len(ch1[b]) /\ Len(ch1[b]) \in Nat
    BY <1>1 DEF Reaches, Longer
  <2> QED
    BY <1>1, <2>1 DEF Longer
<1> QED
  BY <1>1, <1>2, <1>3, <1>4, <1>5, <1>6, <1>7 DEF Lands

\* A seek in a file without data begins with a new chain, or ends at once.
LEMMA SeekFirst ==
    ASSUME NEW d, NEW gone, NEW S, Window(d, gone, S), NEW ch, NEW tb, Stored(S.vol, ch, tb),
           NEW h \in DOMAIN ch, h \notin DOMAIN tb, NEW ofs \in Nat, NEW write, write \/ ofs <= Len(ch[h])
    PROVE  \E top : Seeking(d, gone, S.vol, ch, tb, h, top, Seek(S, write, 0, h, ofs))
<1>1. Chains(S.vol, ch)
  BY DEF Stored
<1>2. Len(ch[h]) \in Nat \ {0} /\ ch[h][1] = h
  BY <1>1, ChainHas
<1> DEFINE p == 0
<1>3. p \in Nat /\ p + 1 <= Len(ch[h]) /\ h = ch[h][p + 1] /\ p + ofs = ofs
  BY <1>2
<1> HIDE DEF p
<1>4. \E top : Seeking(d, gone, S.vol, ch, tb, h, top, Seek(S, write, p, h, ofs))
  BY <1>3, SeekIs
<1> QED
  BY <1>4 DEF p

\* A sequence of length n.
Sized(A, n) == n \in Nat /\ Len(A) = n /\ A = [j \in 1 .. n |-> A[j]]

\* A sequence with more of the same behind it.
Padded(A, m, B, n, q) == \A j \in 1 .. n : B[j] = IF j <= m THEN A[j] ELSE q

\* The data of a file that a seek past its end has made longer.
LEMMA PaddedIs ==
    ASSUME NEW A, NEW m, Sized(A, m), NEW gap, NEW k, Sized(gap, k), NEW q, \A j \in 1 .. k : gap[j] = q
    PROVE  Sized(A \o gap, m + k) /\ Padded(A, m, A \o gap, m + k, q)
<1>1. /\ m \in Nat /\ Len(A) = m /\ A = [j \in 1 .. m |-> A[j]]
      /\ k \in Nat /\ Len(gap) = k /\ gap = [j \in 1 .. k |-> gap[j]]
  BY DEF Sized
<1> DEFINE B == A \o gap
           T == {A[j] : j \in 1 .. m} \cup {q}
<1>2. A \in Seq(T) /\ gap \in Seq(T)
  BY <1>1
<1> HIDE DEF T
<1>3. Len(B) = m + k /\ DOMAIN B = 1 .. m + k /\ B \in Seq(T)
  BY <1>1, <1>2
<1>4. \A j \in 1 .. m + k : B[j] = IF j <= m THEN A[j] ELSE q
  BY <1>1, <1>2
<1> HIDE DEF B
<1>5. B = [j \in 1 .. m + k |-> B[j]]
  BY <1>3
<1> QED
  BY <1>1, <1>3, <1>4, <1>5 DEF B, Sized, Padded

\* f_lseek: the clusters it adds hold anything, and that is what was written there.
LEMMA LseekIs ==
    ASSUME NEW ch, NEW tb, NEW pt, Intact(lib.vol, fil, ch, tb, pt, want), Typed(fil), WindowInv,
           NEW f \in Fil, NEW n \in Nat, f_lseek(f, n)
    PROVE  Faithful(lib'.vol, fil', want') /\ Typed(fil')
<1> DEFINE o == fil[f]
           to == IF n > o.objsize /\ ~o.write THEN o.objsize ELSE n
           on == o.fptr > 0 /\ to >= o.fptr
           C == IF o.sclust = 0 /\ ~on /\ to > 0 THEN create_chain(lib, 0)
                ELSE [s |-> lib, n |-> o.sclust]
           At0(D) == IF to = 0 THEN [s |-> lib, fptr |-> 0, clust |-> o.clust, err |-> FALSE]
                     ELSE IF on THEN Seek(lib, o.write, o.fptr - 1, o.clust, to - (o.fptr - 1))
                     ELSE IF D.n = 0 THEN [s |-> D.s, fptr |-> 0, clust |-> 0, err |-> FALSE]
                     ELSE Seek(D.s, o.write, 0, D.n, to)
           K == At0(C)
           grow == Grows(o, K)
           path == o.path
           A == want[path].data
           gap == [j \in 1 .. K.fptr - Len(A) |-> [dat |-> "?"]]
           W2 == [want EXCEPT ![path].data = A \o gap]
           o2 == Sought(o, C.n, K)
<1>1. Stored(lib.vol, ch, tb) /\ Tree(tb, pt) /\ FilesForm(fil, ch, tb, pt, {})
      /\ DOMAIN tb \subseteq DOMAIN ch /\ 0 \notin DOMAIN ch /\ Chains(lib.vol, ch)
  BY HeadsAre DEF Intact, Whole, Stored
<1>2. lib' = K.s
  BY DEF f_lseek, Done
<1>25. want' = IF grow THEN W2 ELSE want
  <2> DEFINE W3(k) == [want EXCEPT ![o.path].data = @ \o [j \in 1 .. k.fptr - Len(@) |-> [dat |-> "?"]]]
  <2>1. \E k : k = K /\ want' = IF Grows(o, k) THEN W3(k) ELSE want
    BY Zenon DEF f_lseek
  <2>2. W3(K) = W2
    OBVIOUS
  <2> QED
    BY <2>1, <2>2
<1>22. fil' = [fil EXCEPT ![f] = o2]
  BY Zenon DEF f_lseek
<1>23. o.open
  BY DEF f_lseek
<1>3. fil' = [fil EXCEPT ![f] = o2] /\ o.open
  BY <1>22, <1>23
<1>4. PICK h, i : Mine(fil, ch, tb, pt, f, h, i)
  BY <1>1, <1>3, MineIs
<1>5. Handle(o, ch, tb[h][i], ch[h][At(i)], In(i))
  BY <1>4 DEF Mine, HasFile
<1>6. o.sclust \notin DOMAIN tb /\ (o.sclust = 0 \/ o.sclust \in DOMAIN ch)
  BY <1>1, <1>4, FirstHeld
<1>7. DOMAIN o = FilFields
  BY <1>3 DEF Typed
<1>8. /\ o.objsize \in Nat /\ o.fptr \in 0 .. o.objsize
      /\ o.sclust = 0 => o.objsize = 0 /\ o.fptr = 0
      /\ o.sclust # 0 => o.sclust \in DOMAIN ch /\ o.objsize <= Len(ch[o.sclust])
      /\ Reaches(ch, o.sclust, o.objsize)
      /\ o.fptr > 0 => o.clust = ch[o.sclust][o.fptr]
  BY <1>5, HandleReaches DEF Handle
<1>9. to \in Nat /\ (o.write \/ to <= o.objsize)
  BY <1>8
<1>10. o.sclust # 0 => Len(ch[o.sclust]) \in Nat \ {0} /\ ch[o.sclust][1] = o.sclust
  BY <1>1, <1>8, ChainHas
<1>11. Window(disk, crashed, lib)
  BY DEF WindowInv
<1>12. on => o.fptr # 0 /\ to >= o.fptr
  BY <1>8
<1>26. /\ path \in DOMAIN want /\ want[path] = File(A) /\ Holds(lib.vol, ch[o.sclust], o.objsize, A)
       /\ path = fil[f].path
  BY <1>4, MineHolds
<1> HIDE DEF o, to, path, A
<1>13. Rechained(ch, ch, o.sclust, o.sclust)
  BY <1>6, SameChained
<1>24. Aside(lib.vol, lib.vol) /\ \A j \in 1 .. o.objsize : ch[o.sclust][j] = ch[o.sclust][j]
  BY DEF Aside
<1>14. Lands(lib.vol, K, C.n, ch, tb, o)
  <2>1. CASE to = 0
    <3>1. C.n = o.sclust
      BY <2>1
    <3>2. K.s = lib /\ K.fptr = 0 /\ K.err = FALSE
      BY <2>1
    <3> HIDE DEF K, C
    <3> QED
      BY <1>1, <1>8, <1>13, <1>24, <3>1, <3>2 DEF Lands
  <2>2. CASE to # 0 /\ on
    <3>1. C.n = o.sclust
      BY <2>2
    <3> DEFINE p == o.fptr - 1
    <3>2. K = Seek(lib, o.write, p, o.clust, to - p)
      BY <2>2
    <3>7. o.fptr # 0 /\ to >= o.fptr
      BY <1>12, <2>2
    <3> HIDE DEF C, K, on, o2, grow
    <3>8. o.sclust # 0 /\ o.sclust \in DOMAIN ch /\ o.clust = ch[o.sclust][o.fptr]
      BY <1>8, <3>7
    <3>9. Len(ch[o.sclust]) \in Nat /\ o.objsize <= Len(ch[o.sclust])
      BY <1>8, <1>10, <3>8
    <3>10. /\ p \in Nat /\ p + 1 = o.fptr /\ o.fptr <= Len(ch[o.sclust])
           /\ to - p \in Nat /\ p + (to - p) = to
      BY <1>8, <1>9, <3>7, <3>9
    <3>11. o.write \/ to <= Len(ch[o.sclust])
      BY <1>8, <1>9, <3>9
    <3>3. /\ o.sclust # 0 /\ o.sclust \in DOMAIN ch /\ p \in Nat /\ p + 1 = o.fptr /\ o.fptr <= Len(ch[o.sclust])
          /\ to - p \in Nat /\ p + (to - p) = to /\ o.clust = ch[o.sclust][o.fptr]
          /\ o.write \/ to <= Len(ch[o.sclust])
      BY <3>8, <3>10, <3>11
    <3> HIDE DEF p
    <3>4. \E top : Seeking(disk, crashed, lib.vol, ch, tb, o.sclust, top, Seek(lib, o.write, p, o.clust, to - p))
      BY <1>1, <1>6, <1>11, <3>3, SeekIs
    <3>5. \E top : Seeking(disk, crashed, lib.vol, ch, tb, o.sclust, top, K)
      BY <3>2, <3>4
    <3>6. Lands(lib.vol, K, o.sclust, ch, tb, o)
      BY <1>1, <1>8, <1>13, <1>24, <3>3, <3>5, SeekLands
    <3> QED
      BY <3>1, <3>6
  <2>3. CASE to # 0 /\ ~on /\ o.sclust # 0
    <3>1. C.s = lib /\ C.n = o.sclust
      BY <2>3
    <3>2. K = Seek(lib, o.write, 0, o.sclust, to)
      BY <2>3, <3>1
    <3> HIDE DEF C, K, on, o2, grow
    <3>3. o.sclust \in DOMAIN ch /\ (o.write \/ to <= Len(ch[o.sclust]))
      BY <1>8, <1>9, <1>10, <2>3
    <3>4. \E top : Seeking(disk, crashed, lib.vol, ch, tb, o.sclust, top, Seek(lib, o.write, 0, o.sclust, to))
      BY <1>1, <1>6, <1>9, <1>11, <3>3, SeekFirst
    <3>5. \E top : Seeking(disk, crashed, lib.vol, ch, tb, o.sclust, top, K)
      BY <3>2, <3>4
    <3>6. Lands(lib.vol, K, o.sclust, ch, tb, o)
      BY <1>1, <1>8, <1>13, <1>24, <2>3, <3>3, <3>5, SeekLands
    <3> QED
      BY <3>1, <3>6
  <2>4. CASE to # 0 /\ ~on /\ o.sclust = 0
    <3>1. C = create_chain(lib, 0)
      BY <1>9, <2>4
    <3>2. K = IF C.n = 0 THEN [s |-> C.s, fptr |-> 0, clust |-> 0, err |-> FALSE]
              ELSE Seek(C.s, o.write, 0, C.n, to)
      BY <2>4
    <3>3. \/ C.n = 0 /\ C.s.vol = lib.vol
          \/ \E ch2 : Begun(C.s.vol, ch, ch2, tb, C.n)
      BY <1>1, <1>11, <3>1, Begins
    <3>4. Window(disk, crashed, C.s)
      BY <1>11, <3>1, CreateChain
    <3>7. Aside(lib.vol, C.s.vol)
      BY <1>1, <1>11, <3>1, CreateAside DEF Chains
    <3> HIDE DEF C, K, on
    <3>5. CASE C.n = 0 /\ C.s.vol = lib.vol
      <4>1. K.s.vol = lib.vol /\ K.fptr = 0 /\ K.err = FALSE
        BY <3>2, <3>5
      <4>2. Stored(K.s.vol, ch, tb)
        BY <1>1, <4>1
      <4> QED
        BY <1>8, <1>13, <1>24, <2>4, <3>5, <4>1, <4>2 DEF Lands
    <3>6. ASSUME NEW ch1, Begun(C.s.vol, ch, ch1, tb, C.n) PROVE Lands(lib.vol, K, C.n, ch, tb, o)
      <4>1. /\ Stored(C.s.vol, ch1, tb) /\ C.n \in Cluster /\ C.n \notin DOMAIN ch
            /\ DOMAIN ch1 = DOMAIN ch \cup {C.n} /\ ch1[C.n] = <<C.n>> /\ \A g \in DOMAIN ch : ch1[g] = ch[g]
        BY <3>6 DEF Begun
      <4>2. C.n # 0 /\ C.n \notin DOMAIN tb /\ C.n \in DOMAIN ch1
        BY <1>1, <4>1 DEF Cluster, Top
      <4>3. 0 \notin DOMAIN ch1
        BY <4>1, HeadsAre DEF Stored
      <4>4. Rechained(ch, ch1, o.sclust, C.n)
        BY <1>1, <2>4, <4>1, <4>2, <4>3 DEF Rechained
      <4>5. o.objsize = 0 /\ o.write
        BY <1>8, <1>9, <2>4
      <4>6. Reaches(ch1, C.n, o.objsize)
        BY <4>1, <4>2, <4>5 DEF Reaches
      <4>7. \E top : Seeking(disk, crashed, C.s.vol, ch1, tb, C.n, top, Seek(C.s, o.write, 0, C.n, to))
        BY <1>9, <3>4, <4>1, <4>2, <4>5, SeekFirst
      <4>8. K = Seek(C.s, o.write, 0, C.n, to)
        BY <3>2, <4>2
      <4>9. \E top : Seeking(disk, crashed, C.s.vol, ch1, tb, C.n, top, K)
        BY <4>7, <4>8
      <4>10. \A j \in 1 .. o.objsize : ch1[C.n][j] = ch[o.sclust][j]
        BY <4>5
      <4> QED
        BY <1>8, <3>7, <4>1, <4>2, <4>4, <4>5, <4>6, <4>9, <4>10, SeekLands
    <3> QED
      BY <3>3, <3>5, <3>6
  <2> QED
    BY <2>1, <2>2, <2>3, <2>4
<1>15. /\ o2.open = o.open /\ o2.path = o.path /\ o2.sclust = C.n
       /\ o2.objsize = (IF grow THEN K.fptr ELSE o.objsize)
       /\ o2.fptr = K.fptr /\ o2.clust = K.clust /\ (o2.modified <=> o.modified \/ grow) /\ o2.err = K.err
       /\ o2.dir_sect = o.dir_sect /\ o2.dir_slot = o.dir_slot /\ DOMAIN o2 = FilFields
  BY <1>7 DEF FilFields, Sought
<1> HIDE DEF C, K, o2, grow
<1>16. PICK ch2 : /\ Stored(K.s.vol, ch2, tb) /\ Rechained(ch, ch2, o.sclust, C.n) /\ Reaches(ch2, C.n, o.objsize)
                  /\ K.err = FALSE /\ K.fptr \in Nat
                  /\ K.fptr # 0 => /\ C.n # 0 /\ C.n \in DOMAIN ch2 /\ K.fptr <= Len(ch2[C.n])
                                   /\ K.clust = ch2[C.n][K.fptr]
                  /\ C.n # o.sclust => o.objsize = 0 /\ K.fptr # 0
                  /\ \A j \in 1 .. o.objsize : ch2[C.n][j] = ch[o.sclust][j]
  BY <1>14 DEF Lands
<1>27. Aside(lib.vol, K.s.vol)
  BY <1>14 DEF Lands
<1>17. grow <=> K.fptr > o.objsize
  BY <1>16 DEF grow, Grows
<1>18. Handle(o2, ch2, tb[h][i], ch[h][At(i)], In(i))
  <2>1. o2.objsize \in Nat /\ o2.fptr \in 0 .. o2.objsize
    BY <1>8, <1>15, <1>16, <1>17
  <2>2. Reaches(ch2, C.n, o2.objsize)
    BY <1>8, <1>15, <1>16, <1>17 DEF Reaches
  <2>3. ~o2.modified => ~o.modified /\ o2.objsize = o.objsize /\ C.n = o.sclust
    BY <1>8, <1>15, <1>16, <1>17
  <2> QED
    BY <1>5, <1>15, <1>16, <2>1, <2>2, <2>3 DEF Handle
<1>19. Leaves(fil, ch, tb, pt, f, h, i, ch2, o2)
  BY <1>3, <1>4, <1>15, <1>16, <1>18 DEF Leaves, o
<1> DEFINE D2 == IF grow THEN A \o gap ELSE A
<1> HIDE DEF W2
<1>28. Len(A) = o.objsize /\ A = [j \in 1 .. o.objsize |-> A[j]]
       /\ \A j \in 1 .. o.objsize : A[j] \in {[dat |-> "?"], lib.vol[Data(ch[o.sclust][j])]}
  BY <1>26 DEF Holds
<1>29. Holds(K.s.vol, ch2[C.n], o2.objsize, D2)
  <2>1. \A j \in 1 .. o.objsize : K.s.vol[Data(ch2[C.n][j])] = lib.vol[Data(ch[o.sclust][j])]
    <3>1. \A j \in 1 .. o.objsize : ch2[C.n][j] \in Cluster
      <4>1. CASE o.objsize = 0
        BY <4>1
      <4>2. CASE o.objsize # 0
        <5>1. C.n \in DOMAIN ch2 /\ o.objsize <= Len(ch2[C.n])
          BY <1>16, <4>2 DEF Reaches
        <5>2. Len(ch2[C.n]) \in Nat /\ \A j \in 1 .. Len(ch2[C.n]) : ch2[C.n][j] \in Cluster
          BY <1>16, <5>1, ChainHas DEF Stored
        <5> QED
          BY <1>8, <5>1, <5>2
      <4> QED
        BY <4>1, <4>2
    <3> QED
      BY <1>16, <1>27, <3>1 DEF Aside
  <2>2. Holds(K.s.vol, ch2[C.n], o.objsize, A)
    BY <1>26, <2>1, HoldsStill
  <2>3. CASE ~grow
    BY <1>15, <2>2, <2>3
  <2>4. CASE grow
    <3> DEFINE n0 == o.objsize
               n1 == K.fptr
               q == [dat |-> "?"]
    <3>1. n1 \in Nat /\ n0 < n1 /\ Sized(A, n0)
      BY <1>8, <1>16, <1>17, <1>28, <2>4 DEF Sized
    <3> DEFINE B == A \o gap
               k == n1 - n0
    <3>9. n0 \in Nat /\ n0 + k = n1 /\ k \in Nat
      BY <3>1 DEF Sized
    <3>2. Sized(gap, k) /\ \A j \in 1 .. k : gap[j] = q
      BY <3>1, <3>9 DEF Sized
    <3> HIDE DEF n0, n1, q, gap, k
    <3>10. Sized(A \o gap, n0 + k)
      BY <3>1, <3>2, PaddedIs
    <3>11. Padded(A, n0, A \o gap, n0 + k, q)
      BY <3>1, <3>2, PaddedIs
    <3>3. Sized(B, n1) /\ \A j \in 1 .. n1 : B[j] = IF j <= n0 THEN A[j] ELSE q
      BY <3>9, <3>10, <3>11 DEF Padded
    <3>4. B = [j \in 1 .. n1 |-> B[j]] /\ Len(B) = n1
      BY <3>3 DEF Sized
    <3>5. \A j \in 1 .. n1 : B[j] \in {q, K.s.vol[Data(ch2[C.n][j])]}
      <4>1. \A j \in 1 .. n0 : A[j] \in {q, K.s.vol[Data(ch2[C.n][j])]}
        BY <2>2 DEF Holds, n0, q
      <4>2. \A j \in 1 .. n1 : B[j] = IF j <= n0 THEN A[j] ELSE q
        BY <3>3
      <4> HIDE DEF B
      <4> QED
        BY <3>1, <3>9, <4>1, <4>2
    <3> HIDE DEF B
    <3>6. Holds(K.s.vol, ch2[C.n], n1, B)
      BY <3>4, <3>5 DEF Holds, q
    <3>7. o2.objsize = n1 /\ D2 = B
      BY <1>15, <2>4 DEF n1, B
    <3> QED
      BY <3>6, <3>7
  <2> QED
    BY <2>3, <2>4
<1>30. Turned(want, want', fil[f].path, D2)
  <2>1. CASE grow
    <3>1. Turned(want, [want EXCEPT ![path].data = A \o gap], path, A \o gap)
      BY <1>26, TurnedIs DEF A
    <3> QED
      BY <1>25, <1>26, <2>1, <3>1 DEF W2
  <2>2. CASE ~grow
    BY <1>25, <1>26, <2>2 DEF Turned
  <2> QED
    BY <2>1, <2>2
<1> HIDE DEF D2
<1>20. Intact(K.s.vol, [fil EXCEPT ![f] = o2], ch2, tb, pt, want')
  <2> DEFINE X == {}
  <2>1. Only(lib.vol, K.s.vol, X) /\ Within(ch2, o2.sclust, X)
    BY <1>27 DEF Only, Within, Aside
  <2> HIDE DEF X
  <2> QED
    BY <1>15, <1>16, <1>19, <1>29, <1>30, <2>1, FileShown
<1>21. Typed([fil EXCEPT ![f] = o2])
  BY <1>15, TypedStays
<1> QED
  BY <1>2, <1>3, <1>20, <1>21 DEF Faithful

-----------------------------------------------------------------------------
(* f_truncate.                                                             *)

\* The first m clusters of a chain.
LEMMA CutShort ==
    ASSUME NEW s \in Seq(Cluster), NEW m \in 1 .. Len(s) - 1
    PROVE  Len(SubSeq(s, 1, m)) = m /\ SubSeq(s, 1, m)[m] = s[m]
OBVIOUS

\* The start of a chain, cluster by cluster.
LEMMA CutStarts ==
    ASSUME NEW s \in Seq(Cluster), NEW m \in 1 .. Len(s) - 1
    PROVE  \A j \in 1 .. m : SubSeq(s, 1, m)[j] = s[j]
OBVIOUS

\* The start of a sequence.
LEMMA ShortIs ==
    ASSUME NEW A, NEW n, Sized(A, n), NEW m \in Nat, m <= n
    PROVE  Sized(SubSeq(A, 1, m), m) /\ \A j \in 1 .. m : SubSeq(A, 1, m)[j] = A[j]
<1> DEFINE T == {A[j] : j \in 1 .. n}
<1>1. n \in Nat /\ Len(A) = n /\ A = [j \in 1 .. n |-> A[j]] /\ A \in Seq(T)
  BY DEF Sized
<1> HIDE DEF T
<1>2. SubSeq(A, 1, m) = [j \in 1 .. m |-> A[j]]
  BY <1>1
<1> QED
  BY <1>2 DEF Sized

\* f_truncate: the file ends at the position of its file object, and no other one does.
LEMMA TruncateIs ==
    ASSUME NEW ch, NEW tb, NEW pt, Intact(lib.vol, fil, ch, tb, pt, want), Typed(fil), WindowInv,
           NEW f \in Fil, f_truncate(f)
    PROVE  Faithful(lib'.vol, fil', want') /\ Typed(fil')
<1> DEFINE o == fil[f]
           path == o.path
           A == want[path].data
           W2 == [want EXCEPT ![path].data = SubSeq(A, 1, o.fptr)]
           a == o.sclust
           n == IF o.fptr = 0 THEN o.sclust ELSE FatOf(lib.vol, o.clust)
           R == IF o.fptr = 0 THEN remove_chain(lib, n, 0)
                ELSE remove_chain(get_fat(lib, o.clust), n, o.clust)
           b == IF o.fptr = 0 THEN 0 ELSE o.sclust
           o2 == [o EXCEPT !.sclust = b, !.objsize = o.fptr, !.modified = TRUE, !.cut = TRUE,
                           !.err = n \in {0, 1}]
<1>1. Stored(lib.vol, ch, tb) /\ Tree(tb, pt) /\ FilesForm(fil, ch, tb, pt, {})
      /\ DOMAIN tb \subseteq DOMAIN ch /\ 0 \notin DOMAIN ch /\ Chains(lib.vol, ch)
  BY HeadsAre DEF Intact, Whole, Stored
<1>2. o.open /\ o.fptr < o.objsize /\ lib' = R /\ fil' = [fil EXCEPT ![f] = o2]
  BY DEF f_truncate, Done
<1>3. PICK h, i : Mine(fil, ch, tb, pt, f, h, i)
  BY <1>1, <1>2, MineIs
<1>4. Handle(o, ch, tb[h][i], ch[h][At(i)], In(i))
  BY <1>3 DEF Mine, HasFile
<1>5. a \notin DOMAIN tb
  BY <1>1, <1>3, FirstHeld
<1>6. DOMAIN o = FilFields
  BY <1>2 DEF Typed
<1>7. /\ a \in DOMAIN ch /\ o.fptr + 1 \in 1 .. Len(ch[a]) /\ o.fptr \in Nat
      /\ ch[a][o.fptr + 1] \in Cluster
      /\ o.fptr = 0 => a = ch[a][o.fptr + 1]
      /\ o.fptr # 0 => /\ o.fptr \in 1 .. Len(ch[a]) - 1 /\ o.clust = ch[a][o.fptr]
                       /\ FatOf(lib.vol, o.clust) = ch[a][o.fptr + 1]
  BY <1>1, <1>2, <1>4, NextIs
<1>8. n \in Cluster
  BY <1>7
<1>9. n \notin {0, 1}
  BY <1>8 DEF Cluster, Top
<1>10. /\ o2.open = o.open /\ o2.path = o.path /\ o2.sclust = b /\ o2.objsize = o.fptr
       /\ o2.fptr = o.fptr /\ o2.clust = o.clust /\ o2.modified = TRUE /\ ~o2.err
       /\ o2.dir_sect = o.dir_sect /\ o2.dir_slot = o.dir_slot /\ DOMAIN o2 = FilFields
  BY <1>6, <1>9 DEF FilFields
<1>16. want' = W2
  BY Zenon DEF f_truncate
<1>17. /\ path \in DOMAIN want /\ want[path] = File(A) /\ Holds(lib.vol, ch[a], o.objsize, A)
       /\ path = fil[f].path
  BY <1>3, MineHolds
<1> HIDE DEF path, A
<1>18. \A j \in 1 .. o.fptr : ch[a][j] \in Cluster
  BY <1>1, <1>7, ChainHas
<1>11. \E ch2 : /\ Stored(R.vol, ch2, tb) /\ Rechained(ch, ch2, a, b) /\ Aside(lib.vol, R.vol)
               /\ Handle(o2, ch2, tb[h][i], ch[h][At(i)], In(i))
               /\ \A j \in 1 .. o.fptr : ch2[b][j] = ch[a][j]
  <2>1. CASE o.fptr = 0
    <3> DEFINE ch2 == Without(ch, {a})
    <3>1. Through(disk, lib)
      BY DEF WindowInv, Window
    <3>2. Chains(R.vol, ch2) /\ Aside(lib.vol, R.vol)
      BY <1>1, <1>7, <2>1, <3>1, DropChain
    <3>3. DOMAIN ch2 = DOMAIN ch \ {a} /\ \A g \in DOMAIN ch2 : ch2[g] = ch[g]
      BY DEF Without
    <3> HIDE DEF o2, ch2, R
    <3>4. Stored(R.vol, ch2, tb)
      BY <1>1, <1>5, <3>2, <3>3, TablesAside
    <3>5. Rechained(ch, ch2, a, b)
      BY <1>1, <2>1, <3>3 DEF Rechained
    <3>6. Handle(o2, ch2, tb[h][i], ch[h][At(i)], In(i))
      BY <1>4, <1>10, <2>1 DEF Handle, Reaches
    <3> QED
      BY <2>1, <3>2, <3>4, <3>5, <3>6
  <2>2. CASE o.fptr # 0
    <3> DEFINE S == get_fat(lib, o.clust)
               m == o.fptr
               t == SubSeq(ch[a], 1, m)
               ch2 == [ch EXCEPT ![a] = t]
    <3>1. Through(disk, S) /\ S.vol = lib.vol
      BY GetFat DEF WindowInv, Window
    <3>2. Chains(S.vol, ch)
      BY <1>1, <3>1
    <3>3. n = ch[a][m + 1] /\ m \in 1 .. Len(ch[a]) - 1 /\ o.clust = ch[a][m]
      BY <1>7, <2>2
    <3>4. R = remove_chain(S, ch[a][m + 1], ch[a][m])
      BY <2>2, <3>3
    <3> HIDE DEF o2, R, S, n
    <3>5. Chains(R.vol, ch2) /\ Aside(S.vol, R.vol)
      BY <1>7, <3>1, <3>2, <3>3, <3>4, CutChain
    <3>6. ch[a] \in Seq(Cluster)
      BY <1>1, <1>7, ChainHas
    <3>7. Len(t) = m /\ t[m] = ch[a][m]
      BY <3>3, <3>6, CutShort
    <3>8. DOMAIN ch2 = DOMAIN ch /\ ch2[a] = t /\ \A g \in DOMAIN ch : g # a => ch2[g] = ch[g]
      BY <1>7
    <3> HIDE DEF ch2, t
    <3>9. Stored(R.vol, ch2, tb)
      BY <1>1, <1>5, <3>1, <3>5, <3>8, TablesAside
    <3>10. Rechained(ch, ch2, a, b)
      BY <1>7, <2>2, <3>8 DEF Rechained
    <3>11. a # 0 /\ b = a /\ m \in Nat
      BY <1>1, <1>7, <2>2
    <3>12. Reaches(ch2, b, m) /\ o.clust = ch2[b][m]
      BY <1>7, <3>3, <3>7, <3>8, <3>11 DEF Reaches
    <3>13. Handle(o2, ch2, tb[h][i], ch[h][At(i)], In(i))
      BY <1>4, <1>10, <3>11, <3>12 DEF Handle
    <3>14. \A j \in 1 .. m : t[j] = ch[a][j]
      BY <3>3, <3>6, CutStarts DEF t
    <3>15. \A j \in 1 .. o.fptr : ch2[b][j] = ch[a][j]
      BY <3>8, <3>11, <3>14
    <3> QED
      BY <3>1, <3>5, <3>9, <3>10, <3>13, <3>15
  <2> QED
    BY <2>1, <2>2
<1> HIDE DEF o2, R
<1>12. PICK ch2 : /\ Stored(R.vol, ch2, tb) /\ Rechained(ch, ch2, a, b) /\ Aside(lib.vol, R.vol)
                  /\ Handle(o2, ch2, tb[h][i], ch[h][At(i)], In(i))
                  /\ \A j \in 1 .. o.fptr : ch2[b][j] = ch[a][j]
  BY <1>11
<1>13. Leaves(fil, ch, tb, pt, f, h, i, ch2, o2)
  BY <1>2, <1>3, <1>10, <1>12 DEF Leaves
<1> DEFINE D == SubSeq(A, 1, o.fptr)
<1> HIDE DEF W2, D
<1>19. Holds(R.vol, ch2[o2.sclust], o2.objsize, D)
  <2>1. Sized(A, o.objsize) /\ o.objsize \in Nat /\ o.fptr \in Nat /\ o.fptr <= o.objsize
    BY <1>2, <1>4, <1>7, <1>17 DEF Holds, Sized, Handle
  <2>2. Sized(D, o.fptr) /\ \A j \in 1 .. o.fptr : D[j] = A[j]
    BY <2>1, ShortIs DEF D
  <2>3. \A j \in 1 .. o.fptr : A[j] \in {[dat |-> "?"], lib.vol[Data(ch[a][j])]}
    <3> DEFINE B(j) == {[dat |-> "?"], lib.vol[Data(ch[a][j])]}
    <3>1. \A j \in 1 .. o.objsize : A[j] \in B(j)
      BY <1>17 DEF Holds
    <3> HIDE DEF B
    <3>2. \A j \in 1 .. o.fptr : A[j] \in B(j)
      BY <2>1, <3>1
    <3> QED
      BY <3>2 DEF B
  <2>4. \A j \in 1 .. o.fptr : R.vol[Data(ch2[b][j])] = lib.vol[Data(ch[a][j])]
    BY <1>12, <1>18 DEF Aside
  <2>5. Holds(R.vol, ch2[b], o.fptr, D)
    BY <2>2, <2>3, <2>4 DEF Holds, Sized
  <2> QED
    BY <1>10, <2>5
<1>20. Turned(want, want', fil[f].path, D)
  <2>1. Turned(want, [want EXCEPT ![path].data = D], path, D)
    BY <1>17, TurnedIs DEF A
  <2> QED
    BY <1>16, <1>17, <2>1 DEF W2, D
<1>14. Intact(R.vol, [fil EXCEPT ![f] = o2], ch2, tb, pt, want')
  <2> DEFINE X == {}
  <2>1. Only(lib.vol, R.vol, X) /\ Within(ch2, o2.sclust, X)
    BY <1>12 DEF Only, Within, Aside
  <2> HIDE DEF X
  <2> QED
    BY <1>12, <1>13, <1>19, <1>20, <2>1, FileShown
<1>15. Typed([fil EXCEPT ![f] = o2])
  BY <1>10, TypedStays
<1> QED
  BY <1>2, <1>14, <1>15 DEF Faithful

-----------------------------------------------------------------------------
(* f_sync and f_close.                                                     *)

\* FSInfo is no part of the tables or of the FAT.
LEMMA SyncFsStored ==
    ASSUME NEW d, NEW gone, NEW S, Window(d, gone, S), NEW ch, NEW tb, Stored(S.vol, ch, tb)
    PROVE  Stored(sync_fs(S).vol, ch, tb)
<1> DEFINE T == sync_window(S)
           w == sync_fs(S).vol
<1>1. T.vol = S.vol /\ Window(d, gone, T)
  BY SyncWindow
<1>2. DOMAIN T = Fields /\ DOMAIN T.vol = Sector
  BY <1>1 DEF Window, Through
<1>3. \A s : s # Info => w[s] = S.vol[s]
  <2>1. CASE T.fsi
    <3> DEFINE x == [free |-> T.free, last |-> T.last]
    <3>1. sync_fs(S) = [T EXCEPT !.vol[Info] = x, !.out = Append(@, <<Info, x>>), !.sect = Info, !.fsi = FALSE]
      BY <2>1 DEF sync_fs
    <3> HIDE DEF T, x
    <3>2. sync_fs(S).vol = [T.vol EXCEPT ![Info] = x]
      BY <1>2, <3>1 DEF Fields
    <3> QED
      BY <1>1, <1>2, <3>2
  <2>2. CASE ~T.fsi
    <3>1. sync_fs(S) = T
      BY <2>2 DEF sync_fs
    <3> QED
      BY <1>1, <3>1
  <2> QED
    BY <2>1, <2>2
<1> HIDE DEF T, w
<1>4. \A c \in Cluster : w[FatSec(c)] = S.vol[FatSec(c)] /\ w[Data(c)] = S.vol[Data(c)]
  BY <1>3, Apart DEF Data, Info
<1>5. Chains(w, ch)
  BY <1>4, SameChains DEF Stored
<1>6. Aside(S.vol, w)
  BY <1>4 DEF Aside
<1>7. DOMAIN tb \subseteq DOMAIN ch
  BY DEF Stored
<1>8. Stored(w, ch, tb)
  BY <1>5, <1>6, <1>7, TablesAside
<1> QED
  BY <1>8 DEF w

\* The tables tb and tb2 have the same objects but for the spot (h, i).
Others(tb, tb2, h, i) == \A a, k : ~(a = h /\ k = i) => SameSpot(tb, tb2, a, k)
NoOther(tb, tb2) == \A a, k : SameSpot(tb, tb2, a, k)

\* Others, slot by slot.
LEMMA OthersIs ==
    ASSUME NEW tb, NEW tb2, NEW h, NEW i
    PROVE  Others(tb, tb2, h, i) <=> Alike(tb, tb2, {<<h, i>>})
<1>1. \A a, k : <<a, k>> \in {<<h, i>>} <=> a = h /\ k = i
  OBVIOUS
<1> QED
  BY <1>1 DEF Others, Alike, SameSpot, IsDir, IsFile

\* NoOther, slot by slot.
LEMMA NoOtherIs ==
    ASSUME NEW tb, NEW tb2
    PROVE  NoOther(tb, tb2) <=> Alike(tb, tb2, {})
BY DEF NoOther, Alike, SameSpot, IsDir, IsFile

KeepsBut(T, U, i) == Keeping(T, U, {i})

\* A table with another object at one slot.
LEMMA PutSpot ==
    ASSUME NEW tb, Sane(tb), NEW h \in DOMAIN tb, Len(tb[h]) \in Nat, NEW U, NEW i, KeepsBut(tb[h], U, i)
    PROVE  /\ DOMAIN Put(tb, h, U) = DOMAIN tb /\ Sane(Put(tb, h, U)) /\ Put(tb, h, U)[h] = U
           /\ Others(tb, Put(tb, h, U), h, i) /\ \A g \in DOMAIN tb : g # h => Put(tb, h, U)[g] = tb[g]
<1>4. Keeping(tb[h], U, {i})
  BY DEF KeepsBut
<1>1. Alike(tb, Put(tb, h, U), {<<h, i>>})
  BY <1>4, AlikeSpot
<1>2. Sane(Put(tb, h, U))
  BY <1>4, AlikeOne
<1>3. Others(tb, Put(tb, h, U), h, i)
  BY <1>1, OthersIs
<1> QED
  BY <1>2, <1>3 DEF Put

\* A table with the same objects.
LEMMA PutNoSpot ==
    ASSUME NEW tb, Sane(tb), NEW h \in DOMAIN tb, Len(tb[h]) \in Nat, NEW U, Keeping(tb[h], U, {})
    PROVE  /\ DOMAIN Put(tb, h, U) = DOMAIN tb /\ Sane(Put(tb, h, U)) /\ Put(tb, h, U)[h] = U
           /\ NoOther(tb, Put(tb, h, U)) /\ \A g \in DOMAIN tb : g # h => Put(tb, h, U)[g] = tb[g]
<1>1. Alike(tb, Put(tb, h, U), {<<h, k>> : k \in {}})
  BY AlikeOne
<1>2. {<<h, k>> : k \in {}} = {}
  OBVIOUS
<1>3. Sane(Put(tb, h, U))
  BY AlikeOne
<1>4. NoOther(tb, Put(tb, h, U))
  BY <1>1, <1>2, NoOtherIs
<1> QED
  BY <1>3, <1>4 DEF Put

\* An object of a name that no other has there, and that is no directory, before and
\* after.
LEMMA TreeOne ==
    ASSUME NEW tb, NEW pt, Tree(tb, pt), NEW tb2, DOMAIN tb2 = DOMAIN tb, Sane(tb2),
           NEW h, NEW i, Others(tb, tb2, h, i), ~IsDir(tb, h, i), ~IsDir(tb2, h, i),
           \A j : Listed(tb2, h, i) /\ Listed(tb, h, j) /\ NameAt(tb[h], j) = NameAt(tb2[h], i) => i = j
    PROVE  Tree(tb2, pt)
<1> DEFINE P == {<<h, i>>}
<1>1. Alike(tb, tb2, P)
  BY OthersIs
<1>2. \A a, k : <<a, k>> \in P => a = h /\ k = i
  OBVIOUS
<1> HIDE DEF P
<1>3. \A a, k : <<a, k>> \in P => ~IsDir(tb, a, k) /\ ~IsDir(tb2, a, k)
  BY Zenon, <1>2
<1>4. ASSUME NEW j, Listed(tb2, h, i), Listed(tb2, h, j), NameAt(tb2[h], i) = NameAt(tb2[h], j) PROVE i = j
  <2>1. CASE i = j
    BY <2>1
  <2>2. CASE i # j
    <3>1. Listed(tb, h, j) /\ NameAt(tb2[h], j) = NameAt(tb[h], j)
      BY <1>4, <2>2 DEF Others, SameSpot
    <3> QED
      BY <1>4, <3>1
  <2> QED
    BY <2>1, <2>2
<1>5. \A a, k, j : <<a, k>> \in P /\ Listed(tb2, a, k) /\ Listed(tb2, a, j)
                   /\ NameAt(tb2[a], k) = NameAt(tb2[a], j) => k = j
  <2> SUFFICES ASSUME NEW a, NEW k, NEW j, <<a, k>> \in P, Listed(tb2, a, k), Listed(tb2, a, j),
                      NameAt(tb2[a], k) = NameAt(tb2[a], j) PROVE k = j
    OBVIOUS
  <2>1. a = h /\ k = i
    BY <1>2
  <2> QED
    BY <1>4, <2>1
<1> QED
  BY <1>1, <1>3, <1>5, TreeSame

\* The tree stays when no object changes.
LEMMA TreeNone ==
    ASSUME NEW tb, NEW pt, Tree(tb, pt), NEW tb2, DOMAIN tb2 = DOMAIN tb, Sane(tb2), NoOther(tb, tb2)
    PROVE  Tree(tb2, pt)
<1> DEFINE P == {}
<1>1. Alike(tb, tb2, P)
  BY NoOtherIs
<1>2. \A a, k : <<a, k>> \notin P
  OBVIOUS
<1> HIDE DEF P
<1> QED
  BY <1>1, <1>2, TreeSame

\* The entry of a file is written again as x.
Rewrites(w, ch, tb, pt, h, i, x, tb2) ==
    /\ Stored(w, ch, tb2) /\ Tree(tb2, pt) /\ DOMAIN tb2 = DOMAIN tb
    /\ IsFile(tb2, h, i) /\ tb2[h][i] = x /\ NameAt(tb2[h], i) = NameAt(tb[h], i)
    /\ Others(tb, tb2, h, i)

\* An entry of a file with other data has the name it had.
LEMMA FileRewritten ==
    ASSUME NEW d, NEW gone, NEW S, Window(d, gone, S), NEW ch, NEW tb, Stored(S.vol, ch, tb),
           NEW pt, Tree(tb, pt), NEW h, NEW i, IsFile(tb, h, i), NEW s, s[At(i)] = ch[h][At(i)],
           NEW x, IsObject(x), x.sfn = tb[h][i].sfn, ~x.dir
    PROVE  \E tb2 : Rewrites(PutSlot(S, s, i, x).vol, ch, tb, pt, h, i, x, tb2)
<1> DEFINE R == PutSlot(S, s, i, x)
           U == Put(tb[h], i, x)
           tb2 == Put(tb, h, U)
<1>1. h \in DOMAIN tb /\ i \in 1 .. Len(tb[h]) /\ tb[h][i].k = "sfn" /\ ~tb[h][i].dir
  BY DEF IsFile, Listed
<1>2. TreeForm(tb, pt) /\ Sane(tb) /\ WellFormed(tb[h])
  BY <1>1, TreeIs DEF TreeForm, Sane
<1>3. IsTable(tb[h]) /\ Len(tb[h]) \in Nat
  BY <1>1, <1>2, TableOf, TableIs
<1>4. IsSeq(tb[h])
  BY <1>3 DEF IsTable
<1>5. Stored(R.vol, ch, tb2)
  BY <1>1, PutInTable DEF Put
<1>6. /\ Len(U) = Len(tb[h])
      /\ \A j \in 1 .. Len(tb[h]) : U[j] = IF j = i THEN x ELSE tb[h][j]
  BY <1>1, <1>4, PutIs
<1> HIDE DEF U
<1>7. Keeping(tb[h], U, {i}) /\ NameAt(U, i) = NameAt(tb[h], i)
  BY <1>1, <1>3, <1>6, Changed, ZenonT(30)
<1>8. h \in DOMAIN tb /\ Sane(tb) /\ Len(tb[h]) \in Nat /\ KeepsBut(tb[h], U, i)
  BY <1>1, <1>2, <1>3, <1>7 DEF KeepsBut
<1>9. DOMAIN tb2 = DOMAIN tb /\ Sane(tb2) /\ tb2[h] = U /\ Others(tb, tb2, h, i)
  <2>1. Others(tb, Put(tb, h, U), h, i)
    BY <1>8, PutSpot
  <2>2. Sane(tb2)
    BY <1>8, PutSpot
  <2>3. DOMAIN tb2 = DOMAIN tb
    BY <1>8, PutSpot
  <2>4. tb2[h] = U
    BY <1>8, PutSpot
  <2> QED
    BY <2>1, <2>2, <2>3, <2>4
<1> HIDE DEF tb2
<1>10. U[i] = x /\ i \in 1 .. Len(U)
  BY <1>1, <1>6
<1>11. IsFile(tb2, h, i) /\ tb2[h][i] = x /\ NameAt(tb2[h], i) = NameAt(tb[h], i)
  BY <1>1, <1>7, <1>9, <1>10 DEF IsFile, Listed, IsObject
<1>12. ~IsDir(tb, h, i) /\ ~IsDir(tb2, h, i) /\ Listed(tb, h, i)
  BY <1>1, <1>11 DEF IsDir, IsFile
<1>13. Tree(tb2, pt)
  <2>1. \A j : Listed(tb, h, j) /\ NameAt(tb[h], j) = NameAt(tb2[h], i) => i = j
    BY <1>2, <1>11, <1>12 DEF TreeForm
  <2> QED
    BY <1>9, <1>12, <2>1, TreeOne
<1> QED
  BY <1>5, <1>9, <1>11, <1>13 DEF Rewrites

\* The entry of an open file is the one its file object knows.
LEMMA MineHere ==
    ASSUME NEW F, NEW ch, NEW tb, NEW pt, NEW E, FilesForm(F, ch, tb, pt, E), NEW f \in Fil,
           NEW h, NEW i, HasFile(F, ch, tb, pt, f, h, i)
    PROVE  Mine(F, ch, tb, pt, f, h, i)
<1>1. OpenAt(F, f, Path(tb, pt, h, i))
  BY DEF HasFile
<1>2. \A a, b \in Fil : F[a].open /\ F[b].open /\ F[b].path = F[a].path => a = b
  BY DEF FilesForm
<1>3. First(F, Path(tb, pt, h, i), tb[h][i]) = F[f].sclust
  BY <1>1, <1>2, FirstIs
<1> QED
  BY <1>1, <1>2, <1>3 DEF Mine, FirstAt, OpenAt

\* Once it is synced the entry of a file object says where its data is.
LEMMA SyncedIs ==
    ASSUME NEW d, NEW gone, NEW S, Window(d, gone, S), NEW ch, NEW tb, Stored(S.vol, ch, tb),
           NEW pt, Tree(tb, pt), NEW h, NEW i, IsFile(tb, h, i),
           NEW o, Handle(o, ch, tb[h][i], ch[h][At(i)], In(i))
    PROVE  \E tb2, x : /\ Rewrites(Synced(S, o).vol, ch, tb, pt, h, i, x, tb2)
                       /\ x.clust = o.sclust /\ x.size = o.objsize
<1> DEFINE x == [tb[h][i] EXCEPT !.clust = o.sclust, !.size = o.objsize]
           R == PutSlot(S, ch[h], i, x)
<1>1. h \in DOMAIN tb /\ i \in 1 .. Len(tb[h]) /\ tb[h][i].k = "sfn" /\ ~tb[h][i].dir
  BY DEF IsFile, Listed
<1>2. IsObject(tb[h][i])
  BY <1>1, TreeIs DEF TreeForm, Sane, WellFormed
<1>3. o.objsize \in Nat /\ o.dir_sect = ch[h][At(i)] /\ o.dir_slot = In(i)
  BY DEF Handle
<1>4. CASE ~o.modified
  <2>1. Synced(S, o) = S
    BY <1>4 DEF Synced
  <2>2. tb[h][i].clust = o.sclust /\ tb[h][i].size = o.objsize
    BY <1>4 DEF Handle
  <2>3. Others(tb, tb, h, i)
    BY SameItself DEF Others
  <2>4. Rewrites(Synced(S, o).vol, ch, tb, pt, h, i, tb[h][i], tb)
    BY <2>1, <2>3 DEF Rewrites
  <2> QED
    BY <2>2, <2>4
<1>5. CASE o.modified
  <2>1. Synced(S, o) = sync_fs(R)
    <3> DEFINE M == move_window(S, Data(ch[h][At(i)]))
    <3>1. M.sect = Data(ch[h][At(i)]) /\ M.vol = S.vol
      BY MoveWindow
    <3>2. tb[h][i] = S.vol[Data(ch[h][At(i)])].tab[In(i)]
      BY <1>1, TableIs
    <3>3. Synced(S, o) = sync_fs(Dirty(M, [M.vol[M.sect] EXCEPT !.tab[In(i)] =
                             [@ EXCEPT !.clust = o.sclust, !.size = o.objsize]]))
      BY <1>3, <1>5 DEF Synced
    <3>4. R = Dirty(M, [M.vol[M.sect] EXCEPT !.tab[In(i)] = x])
      BY DEF PutSlot
    <3> HIDE DEF M
    <3>5. [M.vol[M.sect] EXCEPT !.tab[In(i)] = [@ EXCEPT !.clust = o.sclust, !.size = o.objsize]]
          = [M.vol[M.sect] EXCEPT !.tab[In(i)] = x]
      BY <3>1, <3>2
    <3> QED
      BY <3>3, <3>4, <3>5
  <2>2. IsObject(x) /\ x.sfn = tb[h][i].sfn /\ ~x.dir /\ x.clust = o.sclust /\ x.size = o.objsize
    BY <1>1, <1>2, <1>3 DEF IsObject
  <2>3. Window(d, gone, R)
    BY PutSlotKeeps
  <2> HIDE DEF x
  <2>4. \E tb2 : Rewrites(R.vol, ch, tb, pt, h, i, x, tb2)
    BY <2>2, FileRewritten
  <2> HIDE DEF R
  <2>5. PICK tb2 : Rewrites(R.vol, ch, tb, pt, h, i, x, tb2)
    BY <2>4
  <2>6. Stored(R.vol, ch, tb2)
    BY <2>5 DEF Rewrites
  <2>7. Stored(sync_fs(R).vol, ch, tb2)
    BY <2>3, <2>6, SyncFsStored
  <2>8. Rewrites(Synced(S, o).vol, ch, tb, pt, h, i, x, tb2)
    BY <2>1, <2>5, <2>7 DEF Rewrites
  <2> QED
    BY <2>2, <2>8
<1> QED
  BY <1>4, <1>5

\* sync_fs writes FSInfo, no cluster.
LEMMA SyncFsAside ==
    ASSUME NEW d, NEW gone, NEW S, Window(d, gone, S)
    PROVE  Aside(S.vol, sync_fs(S).vol)
<1> DEFINE T == sync_window(S)
           w == sync_fs(S).vol
<1>1. T.vol = S.vol /\ Window(d, gone, T)
  BY SyncWindow
<1>2. DOMAIN T = Fields /\ DOMAIN T.vol = Sector
  BY <1>1 DEF Window, Through
<1>3. \A s : s # Info => w[s] = S.vol[s]
  <2>1. CASE T.fsi
    <3> DEFINE x == [free |-> T.free, last |-> T.last]
    <3>1. sync_fs(S) = [T EXCEPT !.vol[Info] = x, !.out = Append(@, <<Info, x>>), !.sect = Info, !.fsi = FALSE]
      BY <2>1 DEF sync_fs
    <3> HIDE DEF T, x
    <3>2. sync_fs(S).vol = [T.vol EXCEPT ![Info] = x]
      BY <1>2, <3>1 DEF Fields
    <3> QED
      BY <1>1, <1>2, <3>2
  <2>2. CASE ~T.fsi
    <3>1. sync_fs(S) = T
      BY <2>2 DEF sync_fs
    <3> QED
      BY <1>1, <3>1
  <2> QED
    BY <2>1, <2>2
<1> HIDE DEF T, w
<1>4. \A c \in Cluster : w[Data(c)] = S.vol[Data(c)]
  BY <1>3, Apart DEF Data, Info
<1> QED
  BY <1>4 DEF w, Aside

\* Synced writes the cluster of the entry.
LEMMA SyncedOnly ==
    ASSUME NEW d, NEW gone, NEW S, Window(d, gone, S), NEW o
    PROVE  Only(S.vol, Synced(S, o).vol, {o.dir_sect})
<1> DEFINE c == o.dir_sect
           T == move_window(S, Data(c))
           y == [T.vol[T.sect] EXCEPT !.tab[o.dir_slot] = [@ EXCEPT !.clust = o.sclust, !.size = o.objsize]]
           U == Dirty(T, y)
<1>1. CASE ~o.modified
  BY <1>1 DEF Synced, Only
<1>2. CASE o.modified
  <2>1. Synced(S, o) = sync_fs(U)
    BY <1>2 DEF Synced
  <2>2. Window(d, gone, T) /\ T.sect = Data(c) /\ T.vol = S.vol
    BY MoveWindow
  <2>3. DOMAIN T = Fields /\ DOMAIN T.vol = Sector
    BY <2>2 DEF Window, Through
  <2> HIDE DEF T, y
  <2>4. U.vol = [T.vol EXCEPT ![T.sect] = y]
    BY <2>3 DEF Dirty, Fields
  <2> HIDE DEF c
  <2>5. \A b \in Cluster : b # c => Data(b) # Data(c) /\ Data(b) \in Sector
    BY DEF Data, Sector
  <2>6. \A b \in Cluster : b # c => U.vol[Data(b)] = S.vol[Data(b)]
    BY <2>2, <2>3, <2>4, <2>5
  <2>7. Window(d, gone, U)
    BY <2>2, Apart, DirtyWindow DEF c
  <2> HIDE DEF U
  <2>8. Aside(U.vol, sync_fs(U).vol)
    BY <2>7, SyncFsAside
  <2> QED
    BY <2>1, <2>6, <2>8 DEF Only, Aside, c
<1> QED
  BY <1>1, <1>2

\* Data stays with a file whose entry is written, whether its file object is given back or not.
LEMMA EntryShown ==
    ASSUME NEW F, Typed(F), NEW v, NEW ch, NEW tb, NEW pt, NEW W, Intact(v, F, ch, tb, pt, W),
           NEW f \in Fil, NEW h, NEW i, Mine(F, ch, tb, pt, f, h, i),
           NEW w, NEW x, NEW tb2, Rewrites(w, ch, tb, pt, h, i, x, tb2), x.clust = F[f].sclust, x.size = F[f].objsize,
           Only(v, w, {ch[h][At(i)]}), NEW after, after.open => after = F[f]
    PROVE  Matches(w, [F EXCEPT ![f] = after], ch, tb2, pt, W)
<1> DEFINE G == [F EXCEPT ![f] = after]
           p == Path(tb, pt, h, i)
           s == F[f].sclust
           n == F[f].objsize
           P == {<<h, i>>}
           X == {ch[h][At(i)]}
           z == {}
<1>1. /\ FilesForm(F, ch, tb, pt, {}) /\ Tree(tb, pt) /\ Matches(v, F, ch, tb, pt, W)
      /\ Chains(v, ch) /\ DOMAIN tb \subseteq DOMAIN ch /\ Stored(v, ch, tb)
  BY DEF Intact, Whole, Stored
<1>2. /\ IsFile(tb, h, i) /\ OpenAt(F, f, p) /\ FirstAt(F, tb, pt, h, i) = s
      /\ \A g \in Fil : g # f => ~OpenAt(F, g, p)
  BY DEF Mine, HasFile
<1>3. /\ Tree(tb2, pt) /\ IsFile(tb2, h, i) /\ tb2[h][i] = x /\ Path(tb2, pt, h, i) = p
      /\ \A a, k : ~(a = h /\ k = i) => SameSpot(tb, tb2, a, k)
  BY DEF Rewrites, Others, Path
<1>4. G[f] = after /\ \A g \in Fil : g # f => G[g] = F[g]
  BY DEF Typed
<1>5. h \in DOMAIN tb /\ i \in 1 .. Len(tb[h])
  BY <1>2 DEF IsFile, Listed
<1>6. Spares(F, ch, tb, pt, X)
  <2>1. At(i) \in 1 .. Len(ch[h])
    BY <1>1, <1>5, TableIs
  <2>2. h \in DOMAIN ch
    BY <1>1, <1>5
  <2>3. ch[h][At(i)] \in Cluster /\ On(ch[h], ch[h][At(i)])
    BY <1>1, <2>1, <2>2, ChainHas DEF On
  <2>4. \A y \in X : y \in Cluster /\ \E g \in DOMAIN tb : On(ch[g], y)
    BY <1>5, <2>3
  <2>5. FilesForm(F, ch, tb, pt, z)
    BY <1>1
  <2> HIDE DEF X, z
  <2> QED
    BY <1>1, <2>4, <2>5, TableSpares
<1>7. \A a, k : <<a, k>> \in P <=> a = h /\ k = i
  OBVIOUS
<1>8. FilesForm(F, ch, tb, pt, z) /\ Only(v, w, X)
  BY <1>1
<1>23. OpenAt(F, f, p) => F[f].open /\ F[f].path = p
  BY DEF OpenAt
<1> HIDE DEF G, p, s, P, z, X, n
<1>9. ASSUME NEW a, NEW k, <<a, k>> \notin P
      PROVE  StaysAt(F, ch, tb, pt, W, G, ch, tb2, pt, W, a, k)
  <2>1. SameSpot(tb, tb2, a, k)
    BY <1>3, <1>7, <1>9
  <2>2. ASSUME Listed(tb, a, k)
        PROVE  /\ Path(tb2, pt, a, k) = Path(tb, pt, a, k) /\ Path(tb, pt, a, k) \in DOMAIN W
               /\ Path(tb, pt, a, k) # p
    <3>1. Listed(tb, h, i)
      BY <1>2 DEF IsFile
    <3>2. Path(tb, pt, a, k) # p
      BY <1>1, <1>7, <1>9, <2>2, <3>1, PathsApart DEF p
    <3> QED
      BY <1>1, <2>1, <2>2, <3>2 DEF Matches, ShownAt, SameSpot, Path
  <2>3. IsFile(tb, a, k) => Steady(F, tb, pt, G, tb2, pt, a, k)
    <3> DEFINE q == Path(tb, pt, a, k)
    <3> SUFFICES ASSUME IsFile(tb, a, k) PROVE Steady(F, tb, pt, G, tb2, pt, a, k)
      OBVIOUS
    <3>1. q # p /\ Path(tb2, pt, a, k) = q
      BY <2>2 DEF IsFile
    <3> HIDE DEF q
    <3>2. \A g \in Fil : (OpenAt(G, g, q) <=> OpenAt(F, g, q)) /\ (OpenAt(F, g, q) => G[g] = F[g])
      BY <1>2, <1>4, <1>23, <3>1 DEF OpenAt
    <3> QED
      BY <3>1, <3>2 DEF Steady, q
  <2> QED
    BY <2>1, <2>2, <2>3 DEF StaysAt
<1>10. ASSUME NEW a, NEW k, <<a, k>> \in P, Listed(tb2, a, k)
       PROVE  ShownAt(w, G, ch, tb2, pt, W, a, k)
  <2>1. a = h /\ k = i
    BY <1>7, <1>10
  <2>2. ShownAt(v, F, ch, tb, pt, W, h, i)
    BY <1>1, <1>2 DEF Matches, IsFile
  <2>3. p \in DOMAIN W /\ HasData(v, F, ch, tb, pt, h, i, W[p])
    BY <1>2, <2>2 DEF ShownAt, p
  <2>4. FirstAt(F, tb, pt, h, i) = s /\ LongAt(F, tb, pt, h, i) = n
    <3>1. (CHOOSE g \in Fil : OpenAt(F, g, p)) = f
      BY <1>2
    <3>2. Busy(F, p)
      BY <1>2 DEF Busy
    <3> QED
      BY <1>2, <3>1, <3>2 DEF LongAt, Long, p, n
  <2>5. FirstAt(G, tb2, pt, h, i) = s /\ LongAt(G, tb2, pt, h, i) = n
    <3>1. CASE after.open
      <4>1. OpenAt(G, f, p) /\ \A g \in Fil : OpenAt(G, g, p) => g = f
        BY <1>2, <1>4, <3>1 DEF OpenAt
      <4>2. (CHOOSE g \in Fil : OpenAt(G, g, p)) = f
        BY <4>1
      <4>3. Busy(G, p)
        BY <4>1 DEF Busy
      <4> QED
        BY <1>3, <1>4, <3>1, <4>2, <4>3 DEF FirstAt, First, LongAt, Long, n, s
    <3>2. CASE ~after.open
      <4>1. ~Busy(G, p)
        BY <1>2, <1>4, <3>2 DEF Busy, OpenAt
      <4> QED
        BY <1>3, <4>1 DEF FirstAt, First, LongAt, Long, n, s
    <3> QED
      BY <3>1, <3>2
  <2>6. s = 0 \/ CarriesOn(v, ch, w, ch, s)
    <3>1. s # 0 => s \in DOMAIN ch /\ \A y \in X : ~On(ch[s], y)
      BY <1>1, <1>2, <1>6 DEF Spares, FilesForm, Held
    <3> QED
      BY <1>1, <1>8, <3>1, AwayBefore
  <2> DEFINE y == W[p]
  <2> HIDE DEF y
  <2>7. HasData(w, G, ch, tb2, pt, h, i, y)
    <3>1. HasData(v, F, ch, tb, pt, h, i, y) /\ s = FirstAt(F, tb, pt, h, i)
      BY <2>3, <2>4 DEF y
    <3> QED
      BY <1>1, <1>2, <1>8, <2>4, <2>5, <2>6, <3>1, ViewCarried
  <2>8. ~IsDir(tb2, h, i)
    BY <1>3 DEF IsFile, IsDir
  <2> QED
    BY <1>3, <2>1, <2>3, <2>7, <2>8 DEF ShownAt, y
<1>11. \A q \in DOMAIN W : \E a, k : Listed(tb2, a, k) /\ Path(tb2, pt, a, k) = q
  <2> SUFFICES ASSUME NEW q \in DOMAIN W PROVE \E a, k : Listed(tb2, a, k) /\ Path(tb2, pt, a, k) = q
    OBVIOUS
  <2>1. PICK a, k : Listed(tb, a, k) /\ Path(tb, pt, a, k) = q
    BY <1>1 DEF Matches
  <2>2. CASE a = h /\ k = i
    BY <1>3, <2>1, <2>2 DEF IsFile, p
  <2>3. CASE ~(a = h /\ k = i)
    BY <1>3, <2>1, <2>3 DEF SameSpot, Path
  <2> QED
    BY <2>2, <2>3
<1>12. Matches(w, G, ch, tb2, pt, W)
  BY <1>1, <1>6, <1>8, <1>9, <1>10, <1>11, AllKept
<1> QED
  BY <1>12 DEF G

\* f_sync and f_close bring length and first cluster to the entry: what the entry shows
\* is from now on what the file object has shown.
LEMMA SyncIs ==
    ASSUME NEW ch, NEW tb, NEW pt, Intact(lib.vol, fil, ch, tb, pt, want), Typed(fil), WindowInv,
           NEW f \in Fil, f_sync(f) \/ f_close(f)
    PROVE  Faithful(lib'.vol, fil', want') /\ Typed(fil')
<1> DEFINE o == fil[f]
           o2 == [o EXCEPT !.modified = FALSE, !.cut = FALSE]
           w == Synced(lib, o).vol
<1>1. Stored(lib.vol, ch, tb) /\ Tree(tb, pt) /\ FilesForm(fil, ch, tb, pt, {})
      /\ DOMAIN tb \subseteq DOMAIN ch /\ 0 \notin DOMAIN ch /\ DOMAIN fil = Fil
  BY HeadsAre DEF Intact, Whole, Stored, Typed
<1>2. PICK after : Sync(f, after) /\ (after = o2 \/ after = Closed)
  BY DEF f_sync, f_close
<1>3. o.open /\ lib' = Synced(lib, o) /\ fil' = [fil EXCEPT ![f] = after] /\ want' = want
  BY <1>2 DEF Sync, Done
<1>4. PICK h, i : Mine(fil, ch, tb, pt, f, h, i)
  BY <1>1, <1>3, MineIs
<1>5. IsFile(tb, h, i) /\ Handle(o, ch, tb[h][i], ch[h][At(i)], In(i)) /\ OpenAt(fil, f, Path(tb, pt, h, i))
  BY <1>4 DEF Mine, HasFile
<1>6. Window(disk, crashed, lib)
  BY DEF WindowInv
<1>7. PICK tb2, x : Rewrites(w, ch, tb, pt, h, i, x, tb2) /\ x.clust = o.sclust /\ x.size = o.objsize
  BY <1>1, <1>5, <1>6, SyncedIs
<1>8. DOMAIN o = FilFields
  BY <1>3 DEF Typed
<1>14. Only(lib.vol, w, {ch[h][At(i)]})
  BY <1>5, <1>6, SyncedOnly DEF Handle
<1> HIDE DEF o, w
<1>9. /\ Stored(w, ch, tb2) /\ Tree(tb2, pt) /\ DOMAIN tb2 = DOMAIN tb
      /\ IsFile(tb2, h, i) /\ tb2[h][i] = x /\ NameAt(tb2[h], i) = NameAt(tb[h], i)
      /\ \A a, k : ~(a = h /\ k = i) => SameSpot(tb, tb2, a, k)
  BY <1>7 DEF Rewrites, Others
<1>10. Handle(o, ch, x, ch[h][At(i)], In(i))
  BY <1>5, <1>7 DEF Handle
<1>11. HasFile(fil, ch, tb2, pt, f, h, i)
  BY <1>5, <1>9, <1>10 DEF HasFile, Path, o
<1>12. CASE after = Closed
  <2>1. ~after.open
    BY <1>12 DEF Closed
  <2>2. FilesForm([fil EXCEPT ![f] = after], ch, tb2, pt, {})
    BY <1>1, <1>4, <1>7, <1>9, <2>1, EntryPasses DEF o
  <2>3. Typed([fil EXCEPT ![f] = after])
    BY <2>1, TypedStays
  <2>4. Matches(w, [fil EXCEPT ![f] = after], ch, tb2, pt, want)
    BY <1>4, <1>7, <1>14, <2>1, EntryShown DEF o
  <2> QED
    BY <1>3, <1>9, <2>2, <2>3, <2>4 DEF Faithful, Intact, Whole, w
<1>13. CASE after = o2
  <2>1. FilesForm([fil EXCEPT ![f] = fil[f]], ch, tb2, pt, {})
    <3> DEFINE same == fil[f]
    <3>1. same = fil[f] /\ same.open
      BY <1>3 DEF o
    <3> HIDE DEF same
    <3>2. FilesForm([fil EXCEPT ![f] = same], ch, tb2, pt, {})
      BY <1>1, <1>4, <1>9, <1>11, <3>1, EntryPasses
    <3> QED
      BY <3>1, <3>2
  <2>2. [fil EXCEPT ![f] = fil[f]] = fil
    BY DEF Typed
  <2>3. FilesForm(fil, ch, tb2, pt, {}) /\ Whole(w, fil, ch, tb2, pt)
    BY <1>9, <2>1, <2>2 DEF Whole
  <2>4. Mine(fil, ch, tb2, pt, f, h, i)
    BY <1>11, <2>3, MineHere
  <2>5. /\ o2.open = o.open /\ o2.path = o.path /\ o2.sclust = o.sclust /\ o2.objsize = o.objsize
        /\ o2.fptr = o.fptr /\ o2.clust = o.clust /\ o2.modified = FALSE /\ o2.err = o.err
        /\ o2.dir_sect = o.dir_sect /\ o2.dir_slot = o.dir_slot /\ DOMAIN o2 = FilFields
    BY <1>8 DEF FilFields
  <2> HIDE DEF o2
  <2>6. Handle(o2, ch, tb2[h][i], ch[h][At(i)], In(i))
    BY <1>7, <1>9, <1>10, <2>5 DEF Handle
  <2>7. o.sclust = 0 \/ o.sclust \in DOMAIN ch
    BY <1>1, <1>4, FirstHeld DEF o
  <2>8. Rechained(ch, ch, o.sclust, o2.sclust)
    BY <2>5, <2>7, SameChained
  <2>9. Leaves(fil, ch, tb2, pt, f, h, i, ch, o2)
    BY <1>3, <2>4, <2>5, <2>6, <2>8 DEF Leaves, o
  <2> DEFINE same == fil[f]
             D == want[o.path].data
  <2>12. same = fil[f] /\ (same.open => same = fil[f])
    OBVIOUS
  <2> HIDE DEF same
  <2>13. Matches(w, [fil EXCEPT ![f] = same], ch, tb2, pt, want)
    BY <1>4, <1>7, <1>14, <2>12, EntryShown DEF o
  <2>14. Intact(w, fil, ch, tb2, pt, want)
    BY <2>2, <2>3, <2>12, <2>13 DEF Intact
  <2>15. /\ fil[f].path \in DOMAIN want /\ want[fil[f].path] = File(D)
         /\ Holds(w, ch[o.sclust], o.objsize, D)
    BY <2>4, <2>14, MineHolds DEF o
  <2> HIDE DEF D
  <2>16. Holds(w, ch[o2.sclust], o2.objsize, D)
    BY <2>5, <2>15
  <2>17. Turned(want, want, fil[f].path, D)
    BY <2>15 DEF Turned
  <2>10. Intact(w, [fil EXCEPT ![f] = o2], ch, tb2, pt, want)
    BY <1>9, <2>9, <2>14, <2>16, <2>17, SameShown
  <2>11. Typed([fil EXCEPT ![f] = o2])
    BY <2>5, TypedStays
  <2> QED
    BY <1>3, <1>13, <2>10, <2>11 DEF Faithful, w
<1> QED
  BY <1>2, <1>12, <1>13

\* From W to W2 only what is said of the path at the spot (h, i) changes.
OneChanged(tb, pt, W, tb2, pt2, W2, h, i) ==
    /\ \A a, k : ~(a = h /\ k = i) /\ Listed(tb, a, k) =>
          /\ Path(tb2, pt2, a, k) = Path(tb, pt, a, k) /\ Path(tb, pt, a, k) \in DOMAIN W2
          /\ W2[Path(tb, pt, a, k)] = W[Path(tb, pt, a, k)]
    /\ Listed(tb2, h, i) => /\ Path(tb2, pt2, h, i) \in DOMAIN W2
                            /\ IsDir(tb2, h, i) => W2[Path(tb2, pt2, h, i)] = Directory
                            /\ IsFile(tb2, h, i) => W2[Path(tb2, pt2, h, i)] = File(<<>>)
    /\ \A q \in DOMAIN W2 : \E a, k : Listed(tb2, a, k) /\ Path(tb2, pt2, a, k) = q

\* UnusedPasses, for what lies in the files.
LEMMA UnusedMatches ==
    ASSUME NEW F, NEW ch, NEW tb, NEW pt, NEW E, FilesForm(F, ch, tb, pt, E), Tree(tb, pt),
           NEW v, Chains(v, ch), NEW W, Matches(v, F, ch, tb, pt, W),
           NEW w, NEW X, Only(v, w, X), Spares(F, ch, tb, pt, X),
           NEW ch2, NEW tb2, NEW pt2, NEW D, NEW h, NEW i, NEW c,
           UnusedChanges(F, ch, tb, pt, E, ch2, tb2, pt2, D, h, i, c),
           NEW W2, OneChanged(tb, pt, W, tb2, pt2, W2, h, i)
    PROVE  Matches(w, F, ch2, tb2, pt2, W2)
<1> DEFINE P == {<<h, i>>}
<1>1. \A a, k : <<a, k>> \in P <=> a = h /\ k = i
  OBVIOUS
<1> HIDE DEF P
<1>2. /\ \A a, k : ~(a = h /\ k = i) => SameSpot(tb, tb2, a, k)
      /\ IsFile(tb, h, i) => Unused(F, tb, pt, h, i)
      /\ IsFile(tb2, h, i) => Unused(F, tb2, pt2, h, i) /\ tb2[h][i].clust = 0 /\ tb2[h][i].size = 0
      /\ IF IsFile(tb, h, i) THEN c = tb[h][i].clust ELSE c = 0
      /\ \A e : e # c /\ e \in Held(ch, tb, E) => ch2[e] = ch[e]
  BY DEF UnusedChanges
<1>3. ASSUME NEW a, NEW k, <<a, k>> \notin P
      PROVE  StaysAt(F, ch, tb, pt, W, F, ch2, tb2, pt2, W2, a, k)
  <2>1. SameSpot(tb, tb2, a, k) /\ ~(a = h /\ k = i)
    BY <1>1, <1>2, <1>3
  <2>2. Listed(tb, a, k) => /\ Path(tb2, pt2, a, k) = Path(tb, pt, a, k) /\ Path(tb, pt, a, k) \in DOMAIN W2
                            /\ W2[Path(tb, pt, a, k)] = W[Path(tb, pt, a, k)]
    BY <2>1 DEF OneChanged
  <2>3. IsFile(tb, a, k) => Steady(F, tb, pt, F, tb2, pt2, a, k)
    BY <2>2 DEF Steady, IsFile
  <2>4. IsFile(tb, a, k) => LET e == FirstAt(F, tb, pt, a, k) IN e = 0 \/ ch2[e] = ch[e]
    <3> SUFFICES ASSUME IsFile(tb, a, k), FirstAt(F, tb, pt, a, k) # 0
                 PROVE  ch2[FirstAt(F, tb, pt, a, k)] = ch[FirstAt(F, tb, pt, a, k)]
      OBVIOUS
    <3> DEFINE e == FirstAt(F, tb, pt, a, k)
    <3>1. e \in Held(ch, tb, E) /\ e # 0 /\ Owner(F, tb, pt, a, k, e)
      BY DEF FilesForm, Owner
    <3> HIDE DEF e
    <3>2. e # c
      <4>1. CASE IsFile(tb, h, i)
        <5>1. FirstAt(F, tb, pt, h, i) = c
          BY <1>2, <4>1, UnusedFirst
        <5>2. Owner(F, tb, pt, h, i, c)
          BY <4>1, <5>1 DEF Owner
        <5> QED
          BY <2>1, <3>1, <5>2 DEF FilesForm
      <4>2. CASE ~IsFile(tb, h, i)
        BY <1>2, <3>1, <4>2
      <4> QED
        BY <4>1, <4>2
    <3> QED
      BY <1>2, <3>1, <3>2 DEF e
  <2> QED
    BY <2>1, <2>2, <2>3, <2>4 DEF StaysAt
<1>4. ASSUME NEW a, NEW k, <<a, k>> \in P, Listed(tb2, a, k)
      PROVE  ShownAt(w, F, ch2, tb2, pt2, W2, a, k)
  <2>1. a = h /\ k = i
    BY <1>1, <1>4
  <2>2. /\ Path(tb2, pt2, h, i) \in DOMAIN W2
        /\ IsDir(tb2, h, i) => W2[Path(tb2, pt2, h, i)] = Directory
        /\ IsFile(tb2, h, i) => W2[Path(tb2, pt2, h, i)] = File(<<>>)
    BY <1>4, <2>1 DEF OneChanged
  <2>3. ASSUME IsFile(tb2, h, i) PROVE HasData(w, F, ch2, tb2, pt2, h, i, File(<<>>))
    <3>1. LongAt(F, tb2, pt2, h, i) = 0
      BY <1>2, <2>3, UnusedFirst DEF LongAt, Long
    <3>2. File(<<>>).data = <<>>
      BY DEF File
    <3> DEFINE s == ch2[FirstAt(F, tb2, pt2, h, i)]
    <3> HIDE DEF s
    <3>3. Holds(w, s, 0, <<>>)
      BY DEF Holds
    <3> QED
      BY <3>1, <3>2, <3>3 DEF HasData, s
  <2> QED
    BY <2>1, <2>2, <2>3 DEF ShownAt
<1>5. \A q \in DOMAIN W2 : \E a, k : Listed(tb2, a, k) /\ Path(tb2, pt2, a, k) = q
  BY DEF OneChanged
<1>6. Matches(w, F, ch2, tb2, pt2, W2)
  BY <1>3, <1>4, <1>5, AllKept
<1> QED
  BY <1>6

\* HandPasses, for what lies in the files.
LEMMA HandMatches ==
    ASSUME NEW F, NEW ch, NEW tb, NEW pt, NEW E, FilesForm(F, ch, tb, pt, E), Tree(tb, pt),
           NEW v, Chains(v, ch), NEW W, Matches(v, F, ch, tb, pt, W),
           NEW w, NEW X, Only(v, w, X), Spares(F, ch, tb, pt, X),
           NEW ch2, NEW tb2, NEW D, HandChanges(ch, tb, pt, E, ch2, tb2, pt, D)
    PROVE  Matches(w, F, ch2, tb2, pt, W)
<1> DEFINE P == {}
<1>1. \A a, k : SameSpot(tb, tb2, a, k)
  BY DEF HandChanges
<1>2. \A e : e # 0 /\ e \in Held(ch, tb, E) => ch2[e] = ch[e]
  BY DEF HandChanges
<1>3. ASSUME NEW a, NEW k PROVE StaysAt(F, ch, tb, pt, W, F, ch2, tb2, pt, W, a, k)
  <2>1. SameSpot(tb, tb2, a, k)
    BY <1>1
  <2>2. Listed(tb, a, k) => Path(tb2, pt, a, k) = Path(tb, pt, a, k) /\ Path(tb, pt, a, k) \in DOMAIN W
    BY <2>1 DEF SameSpot, Path, Matches, ShownAt
  <2>3. IsFile(tb, a, k) => Steady(F, tb, pt, F, tb2, pt, a, k)
    BY <2>2 DEF Steady, IsFile
  <2>4. IsFile(tb, a, k) => LET e == FirstAt(F, tb, pt, a, k) IN e = 0 \/ ch2[e] = ch[e]
    BY <1>2 DEF FilesForm
  <2> QED
    BY <2>1, <2>2, <2>3, <2>4 DEF StaysAt
<1>4. \A q \in DOMAIN W : \E a, k : Listed(tb2, a, k) /\ Path(tb2, pt, a, k) = q
  <2> SUFFICES ASSUME NEW q \in DOMAIN W PROVE \E a, k : Listed(tb2, a, k) /\ Path(tb2, pt, a, k) = q
    OBVIOUS
  <2>1. PICK a, k : Listed(tb, a, k) /\ Path(tb, pt, a, k) = q
    BY DEF Matches
  <2> QED
    BY <1>1, <2>1 DEF SameSpot, Path
<1>5. \A a, k : <<a, k>> \notin P
  OBVIOUS
<1> HIDE DEF P
<1>6. Matches(w, F, ch2, tb2, pt, W)
  BY <1>3, <1>4, <1>5, AllKept
<1> QED
  BY <1>6

\* A change aside of the clusters changes no file.
LEMMA AsideMatches ==
    ASSUME NEW v, NEW F, NEW ch, NEW tb, NEW pt, NEW E, FilesForm(F, ch, tb, pt, E), Tree(tb, pt), Chains(v, ch),
           NEW W, Matches(v, F, ch, tb, pt, W), NEW w, Aside(v, w)
    PROVE  Matches(w, F, ch, tb, pt, W)
<1> DEFINE X == {}
<1>1. Only(v, w, X) /\ Spares(F, ch, tb, pt, X)
  BY DEF Only, Spares, Aside
<1> HIDE DEF X
<1>2. HandChanges(ch, tb, pt, E, ch, tb, pt, E)
  BY SameItself DEF HandChanges
<1>3. Matches(w, F, ch, tb, pt, W)
  BY <1>1, <1>2, HandMatches
<1> QED
  BY <1>3

\* The object at the spot (h, i) has gone, and its path with it.
LEMMA ChangedWithout ==
    ASSUME NEW tb, NEW pt, Tree(tb, pt), NEW v, NEW F, NEW ch, NEW W, Matches(v, F, ch, tb, pt, W),
           NEW h, NEW i, Listed(tb, h, i), NEW p, p = Path(tb, pt, h, i),
           NEW tb2, Others(tb, tb2, h, i), ~Listed(tb2, h, i)
    PROVE  OneChanged(tb, pt, W, tb2, pt, Without(W, {p}), h, i)
<1> DEFINE W2 == Without(W, {p})
<1>1. DOMAIN W2 = DOMAIN W \ {p} /\ \A q \in DOMAIN W2 : W2[q] = W[q]
  BY DEF Without
<1> HIDE DEF W2
<1>2. ASSUME NEW a, NEW k, ~(a = h /\ k = i), Listed(tb, a, k)
      PROVE  /\ Path(tb2, pt, a, k) = Path(tb, pt, a, k) /\ Path(tb, pt, a, k) \in DOMAIN W2
             /\ W2[Path(tb, pt, a, k)] = W[Path(tb, pt, a, k)]
  <2>1. SameSpot(tb, tb2, a, k)
    BY <1>2 DEF Others
  <2>2. Path(tb2, pt, a, k) = Path(tb, pt, a, k)
    BY <1>2, <2>1 DEF SameSpot, Path
  <2>3. Path(tb, pt, a, k) # p
    BY <1>2, PathsApart
  <2>4. Path(tb, pt, a, k) \in DOMAIN W
    BY <1>2 DEF Matches, ShownAt
  <2> QED
    BY <1>1, <2>2, <2>3, <2>4
<1>3. ASSUME NEW q \in DOMAIN W2 PROVE \E a, k : Listed(tb2, a, k) /\ Path(tb2, pt, a, k) = q
  <2>1. PICK a, k : Listed(tb, a, k) /\ Path(tb, pt, a, k) = q
    BY <1>1 DEF Matches
  <2>2. ~(a = h /\ k = i)
    BY <1>1, <2>1
  <2> QED
    BY <1>2, <2>1, <2>2 DEF Others, SameSpot
<1> QED
  BY <1>2, <1>3 DEF OneChanged, W2

\* An object has come to the spot (h, i), and its path with it.
LEMMA ChangedWith ==
    ASSUME NEW tb, NEW pt, NEW v, NEW F, NEW ch, NEW W, Matches(v, F, ch, tb, pt, W),
           NEW tb2, NEW pt2, Tree(tb2, pt2), NEW h, NEW i, Others(tb, tb2, h, i), Listed(tb2, h, i),
           NEW p, p = Path(tb2, pt2, h, i), Listed(tb, h, i) => Path(tb, pt, h, i) = p,
           \A a, k : Listed(tb, a, k) => pt2[a] = pt[a],
           NEW y, IsDir(tb2, h, i) => y = Directory, IsFile(tb2, h, i) => y = File(<<>>)
    PROVE  OneChanged(tb, pt, W, tb2, pt2, With(W, p, y), h, i)
<1> DEFINE W2 == With(W, p, y)
<1>1. DOMAIN W2 = DOMAIN W \cup {p} /\ W2[p] = y /\ \A q \in DOMAIN W : q # p => W2[q] = W[q]
  BY DEF With
<1> HIDE DEF W2
<1>2. ASSUME NEW a, NEW k, ~(a = h /\ k = i), Listed(tb, a, k)
      PROVE  /\ Path(tb2, pt2, a, k) = Path(tb, pt, a, k) /\ Path(tb, pt, a, k) \in DOMAIN W2
             /\ W2[Path(tb, pt, a, k)] = W[Path(tb, pt, a, k)]
  <2>1. SameSpot(tb, tb2, a, k)
    BY <1>2 DEF Others
  <2>2. Path(tb2, pt2, a, k) = Path(tb, pt, a, k) /\ Listed(tb2, a, k)
    BY <1>2, <2>1 DEF SameSpot, Path
  <2>3. Path(tb2, pt2, a, k) # p
    BY <1>2, <2>2, PathsApart
  <2>4. Path(tb, pt, a, k) \in DOMAIN W
    BY <1>2 DEF Matches, ShownAt
  <2> QED
    BY <1>1, <2>2, <2>3, <2>4
<1>3. ASSUME NEW q \in DOMAIN W2 PROVE \E a, k : Listed(tb2, a, k) /\ Path(tb2, pt2, a, k) = q
  <2>1. CASE q = p
    BY <2>1
  <2>2. CASE q # p
    <3>1. PICK a, k : Listed(tb, a, k) /\ Path(tb, pt, a, k) = q
      BY <1>1, <2>2 DEF Matches
    <3>2. ~(a = h /\ k = i)
      BY <2>2, <3>1
    <3> QED
      BY <1>2, <3>1, <3>2 DEF Others, SameSpot
  <2> QED
    BY <2>1, <2>2
<1> QED
  BY <1>1, <1>2, <1>3 DEF OneChanged, W2

-----------------------------------------------------------------------------
(* The search for a path.                                                  *)

\* Where the search for a path ended: at an object, or in a directory without one of
\* the last name.
Finds(F, ch, tb, pt, p, h) ==
    /\ h \in DOMAIN tb /\ Listed(tb, h, F.pos) /\ Entry(F) = tb[h][F.pos] /\ Path(tb, pt, h, F.pos) = p
    /\ Hit(tb[h], F.pos, F.blk, Last(p)) /\ F.chain = ch[h] /\ F.dc = (IF h = Root THEN 0 ELSE h)

Lacks(F, ch, tb, pt, p, h) ==
    /\ h \in DOMAIN tb /\ F.chain = ch[h] /\ F.dc = (IF h = Root THEN 0 ELSE h)
    /\ \A i : Listed(tb, h, i) => NameAt(tb[h], i) # Last(p)
    /\ Append(pt[h], Last(p)) = p

Followed(d, gone, vol, ch, tb, pt, p, F) ==
    /\ Window(d, gone, F.s) /\ F.s.vol = vol /\ F.res \in {"OK", "NO_FILE", "NO_PATH"}
    /\ F.res = "OK" => \E h : Finds(F, ch, tb, pt, p, h)
    /\ F.res = "NO_FILE" => \E h : Lacks(F, ch, tb, pt, p, h)

\* A search that succeeds ends at a listed object of that path.
LEMMA FollowFinds ==
    ASSUME NEW d, NEW gone, NEW S, Window(d, gone, S), NEW ch, NEW tb, Stored(S.vol, ch, tb),
           NEW pt, Tree(tb, pt), NEW p, IsSeq(p), p # <<>>
    PROVE  Followed(d, gone, S.vol, ch, tb, pt, p, follow_path(S, p))
<1> DEFINE F == follow_path(S, p)
<1>0. Ended(d, gone, S.vol, ch, tb, pt, p, F)
  BY FollowIs
<1> HIDE DEF F
<1>1. /\ Window(d, gone, F.s) /\ F.s.vol = S.vol /\ F.res \in {"OK", "NO_FILE", "NO_PATH"}
      /\ F.res # "NO_PATH" => \E h : FoundAt(F, ch, tb, pt, p, Len(p), h)
  BY <1>0 DEF Ended
<1>2. Last(p) = p[Len(p)] /\ Append(SubSeq(p, 1, Len(p) - 1), Last(p)) = p
  BY UpIs
<1>3. Stored(F.s.vol, ch, tb)
  BY <1>1
<1> HIDE DEF Last
<1>4. ASSUME F.res = "OK" PROVE \E h : Finds(F, ch, tb, pt, p, h)
  <2>1. PICK h : FoundAt(F, ch, tb, pt, p, Len(p), h)
    BY <1>1, <1>4
  <2>2. /\ h \in DOMAIN tb /\ F.dc = (IF h = Root THEN 0 ELSE h) /\ F.chain = ch[h]
        /\ pt[h] = SubSeq(p, 1, Len(p) - 1) /\ Hit(tb[h], F.pos, F.blk, Last(p))
    BY <1>2, <1>4, <2>1 DEF FoundAt
  <2>3. Reached(F, ch, tb, h, Last(p))
    BY <2>2 DEF Reached
  <2>4. IsEntry(F, ch, tb, h, Last(p))
    BY <1>3, <2>3, EntryIs
  <2>5. Path(tb, pt, h, F.pos) = p
    BY <1>2, <2>2, <2>4 DEF Path, IsEntry
  <2>6. Finds(F, ch, tb, pt, p, h)
    BY <2>2, <2>4, <2>5 DEF Finds, IsEntry
  <2> QED
    BY <2>6
<1>5. ASSUME F.res = "NO_FILE" PROVE \E h : Lacks(F, ch, tb, pt, p, h)
  <2>1. PICK h : FoundAt(F, ch, tb, pt, p, Len(p), h)
    BY <1>1, <1>5
  <2>2. Lacks(F, ch, tb, pt, p, h)
    BY <1>2, <1>5, <2>1 DEF FoundAt, Lacks
  <2> QED
    BY <2>2
<1> QED
  BY <1>1, <1>4, <1>5 DEF Followed, F

Given(S, c) == IF c = 0 THEN S ELSE remove_chain(S, c, 0)
Kept(w, F, ch, tb, pt, W) == \E ch2 : Intact(w, F, ch2, tb, pt, W) /\ \A g \in DOMAIN tb : ch2[g] = ch[g]

\* The chain at c is in hand: no object of the volume has it.
InHand(vol, F, ch, tb, pt, E, c) ==
    /\ Stored(vol, ch, tb) /\ Tree(tb, pt) /\ FilesForm(F, ch, tb, pt, E)
    /\ \A e : e \in E <=> e = c
    /\ c = 0 \/ (c \in DOMAIN ch /\ c \notin DOMAIN tb)

\* sync_fs keeps everything.
LEMMA SyncFsIntact ==
    ASSUME NEW d, NEW gone, NEW S, Window(d, gone, S), NEW F, NEW ch, NEW tb, NEW pt, NEW W,
           Intact(S.vol, F, ch, tb, pt, W)
    PROVE  Intact(sync_fs(S).vol, F, ch, tb, pt, W)
<1> DEFINE none == {}
<1>1. /\ Stored(S.vol, ch, tb) /\ Tree(tb, pt) /\ FilesForm(F, ch, tb, pt, none) /\ Chains(S.vol, ch)
      /\ Matches(S.vol, F, ch, tb, pt, W)
  BY DEF Intact, Whole, Stored
<1> HIDE DEF none
<1>2. Stored(sync_fs(S).vol, ch, tb)
  BY <1>1, SyncFsStored
<1>3. Aside(S.vol, sync_fs(S).vol)
  BY SyncFsAside
<1>4. Matches(sync_fs(S).vol, F, ch, tb, pt, W)
  BY <1>1, <1>3, AsideMatches
<1> QED
  BY <1>1, <1>2, <1>4 DEF Intact, Whole, none

\* It is given back.
LEMMA DropWhole ==
    ASSUME NEW d, NEW gone, NEW S, Window(d, gone, S), NEW F, NEW ch, NEW tb, NEW pt, NEW E, NEW c,
           InHand(S.vol, F, ch, tb, pt, E, c), NEW W, Matches(S.vol, F, ch, tb, pt, W)
    PROVE  Window(d, gone, Given(S, c)) /\ Kept(Given(S, c).vol, F, ch, tb, pt, W)
<1> DEFINE R == Given(S, c)
           none == {}
<1>0. /\ Stored(S.vol, ch, tb) /\ Tree(tb, pt) /\ FilesForm(F, ch, tb, pt, E)
      /\ \A e : e \in E <=> e = c
      /\ c = 0 \/ (c \in DOMAIN ch /\ c \notin DOMAIN tb)
  BY DEF InHand
<1>1. Chains(S.vol, ch) /\ DOMAIN tb \subseteq DOMAIN ch /\ 0 \notin DOMAIN ch /\ 0 \notin DOMAIN tb
  BY <1>0, HeadsAre DEF Stored
<1>2. Window(d, gone, R)
  BY RemoveChain DEF Given
<1>3. Through(d, S)
  BY DEF Window
<1>4. CASE c = 0
  <2>1. HandChanges(ch, tb, pt, E, ch, tb, pt, none)
    BY <1>0, <1>1, <1>4, SameItself DEF HandChanges, Held
  <2> HIDE DEF none
  <2>2. FilesForm(F, ch, tb, pt, none)
    BY <1>0, <1>1, <2>1, HandPasses
  <2>3. Intact(R.vol, F, ch, tb, pt, W)
    BY <1>0, <1>4, <2>2 DEF Intact, Whole, none, Given
  <2> QED
    BY <1>2, <2>3 DEF Kept
<1>5. CASE c # 0
  <2> DEFINE ch2 == Without(ch, {c})
  <2>1. c \in DOMAIN ch /\ c \notin DOMAIN tb /\ R = remove_chain(S, c, 0)
    BY <1>0, <1>5 DEF Given
  <2>2. Chains(R.vol, ch2) /\ Aside(S.vol, R.vol)
    BY <1>0, <1>1, <1>3, <2>1, DropChain
  <2> HIDE DEF R
  <2>3. DOMAIN ch2 = DOMAIN ch \ {c} /\ \A e \in DOMAIN ch2 : ch2[e] = ch[e]
    BY DEF Without
  <2> HIDE DEF ch2
  <2>4. Stored(R.vol, ch2, tb)
    <3>1. DOMAIN tb \subseteq DOMAIN ch2 /\ \A h \in DOMAIN tb : ch2[h] = ch[h]
      BY <1>0, <1>1, <2>1, <2>3
    <3> QED
      BY <1>0, <2>2, <3>1, TablesAside
  <2>5. HandChanges(ch, tb, pt, E, ch2, tb, pt, none)
    <3>1. \A a, k : IsFile(tb, a, k) => ch2[a][At(k)] = ch[a][At(k)]
      BY <1>0, <1>1, <2>1, <2>3 DEF IsFile, Listed
    <3>2. \A e : /\ e \in Held(ch2, tb, none) <=> e \in Held(ch, tb, E)
                 /\ e \in Held(ch, tb, E) => ch2[e] = ch[e]
      BY <1>0, <2>1, <2>3 DEF Held
    <3> QED
      BY <3>1, <3>2, SameItself DEF HandChanges
  <2> HIDE DEF none
  <2>6. FilesForm(F, ch2, tb, pt, none)
    BY <1>0, <1>1, <2>3, <2>5, HandPasses
  <2> DEFINE X == {}
  <2>9. Only(S.vol, R.vol, X) /\ Spares(F, ch, tb, pt, X)
    BY <2>2 DEF Only, Spares, Aside
  <2> HIDE DEF X
  <2>10. Matches(R.vol, F, ch2, tb, pt, W)
    BY <1>0, <1>1, <2>5, <2>9, HandMatches
  <2>7. Intact(R.vol, F, ch2, tb, pt, W)
    BY <1>0, <2>4, <2>6, <2>10 DEF Intact, Whole, none
  <2>8. \A g \in DOMAIN tb : ch2[g] = ch[g]
    BY <1>0, <1>1, <2>1, <2>3
  <2> QED
    BY <1>2, <2>7, <2>8 DEF R, Kept
<1> QED
  BY <1>4, <1>5

\* The chains and tables of Laid, with one table written out.
LEMMA LaidSame ==
    ASSUME NEW vol, NEW ch, NEW tb, NEW h \in DOMAIN tb, NEW U, Laid(vol, ch, tb, h, ch[h], U),
           DOMAIN tb \subseteq DOMAIN ch
    PROVE  Stored(vol, ch, Put(tb, h, U))
<1> DEFINE ch1 == [ch EXCEPT ![h] = ch[h]]
<1>1. DOMAIN ch1 = DOMAIN ch /\ \A g \in DOMAIN ch : ch1[g] = ch[g]
  OBVIOUS
<1>2. Stored(vol, ch1, Put(tb, h, U))
  BY DEF Laid, Put
<1> HIDE DEF ch1
<1>3. Chains(vol, ch)
  BY <1>1, <1>2 DEF Stored, Chains
<1>4. \A g \in DOMAIN Put(tb, h, U) : ch1[g] = ch[g]
  BY <1>1 DEF Put
<1>5. DOMAIN Put(tb, h, U) \subseteq DOMAIN ch
  BY DEF Put
<1> QED
  BY <1>2, <1>3, <1>4, <1>5 DEF Stored

\* The object in the slot i of the table at h is removed.
Removes(w, ch, tb, h, i, tb2) ==
    /\ Stored(w, ch, tb2) /\ DOMAIN tb2 = DOMAIN tb /\ Sane(tb2) /\ Others(tb, tb2, h, i)
    /\ ~Listed(tb2, h, i)
Fore(r, s) == Len(r) \in Nat /\ \A j \in 1 .. Len(r) : r[j] = s[j]

\* dir_remove, as the other tables see it.
LEMMA EntryRemoved ==
    ASSUME NEW d, NEW gone, NEW S, Window(d, gone, S), NEW ch, NEW tb, Stored(S.vol, ch, tb), Sane(tb),
           NEW h \in DOMAIN tb, NEW D, NEW n, Hit(tb[h], D.pos, D.blk, n), Fore(D.chain, ch[h]),
           At(D.pos) \in 1 .. Len(D.chain)
    PROVE  \E tb2 : Removes(dir_remove(S, D).vol, ch, tb, h, D.pos, tb2)
<1> DEFINE i == D.pos
           R == dir_remove(S, D)
<1>1. WellFormed(tb[h]) /\ Laid(S.vol, ch, tb, h, ch[h], tb[h]) /\ DOMAIN tb \subseteq DOMAIN ch
  BY LaidOut DEF Sane, Stored
<1>2. Len(tb[h]) \in Nat
  BY TableIs
<1>3. At(D.blk) \in 1 .. Len(D.chain)
  <2>1. D.pos \in 1 .. Len(tb[h]) /\ (D.blk = D.pos \/ (D.blk = D.pos - 1 /\ D.pos > 1))
    BY <1>1, <1>2 DEF Hit, WellFormed
  <2>2. CASE D.blk = D.pos
    BY <2>2
  <2>3. CASE D.blk = D.pos - 1 /\ D.pos > 1
    <3>1. D.blk \in Nat \ {0} /\ D.blk + 1 = D.pos
      BY <1>2, <2>1, <2>3
    <3>2. At(D.pos) = At(D.blk) + 1 \/ At(D.pos) = At(D.blk)
      BY <3>1, NextPosition
    <3>3. At(D.blk) \in Nat \ {0}
      BY <3>1, PositionIs
    <3> QED
      BY <3>2, <3>3 DEF Fore
  <2> QED
    BY <2>1, <2>2, <2>3
<1>4. PICK U : /\ Laid(R.vol, ch, tb, h, ch[h], U) /\ Len(U) = Len(tb[h])
               /\ Keeping(tb[h], U, {i}) /\ U[i].k = "del"
  <2>1. \A j \in 1 .. Len(D.chain) : D.chain[j] = ch[h][j]
    BY DEF Fore
  <2>2. \E U : Unlists(d, gone, R, ch, tb, h, ch[h], tb[h], U, i)
    BY <1>1, <1>3, <2>1, RemoveIs
  <2> HIDE DEF R, i
  <2> QED
    BY <2>2 DEF Unlists
<1> HIDE DEF R
<1> DEFINE tb2 == Put(tb, h, U)
<1>5. Stored(R.vol, ch, tb2)
  BY <1>1, <1>4, LaidSame
<1>6. KeepsBut(tb[h], U, i)
  BY <1>4 DEF KeepsBut
<1>7. Others(tb, tb2, h, i)
  BY <1>2, <1>6, PutSpot
<1>8. Sane(tb2)
  BY <1>2, <1>6, PutSpot
<1>9. DOMAIN tb2 = DOMAIN tb /\ tb2[h] = U
  BY DEF Put
<1> HIDE DEF tb2
<1>10. ~Listed(tb2, h, i)
  BY <1>4, <1>9 DEF Listed
<1> QED
  BY <1>5, <1>7, <1>8, <1>9, <1>10 DEF Removes, R

\* The look into a directory changes nothing.
LEMMA SearchedSame ==
    ASSUME NEW d, NEW gone, NEW S, Window(d, gone, S), NEW c
    PROVE  Searched(S, c).vol = S.vol
BY ScannedKeeps DEF Searched

\* A directory that f_unlink takes to be empty has no object.
LEMMA EmptyIs ==
    ASSUME NEW vol, NEW ch, NEW tb, Stored(vol, ch, tb), NEW c \in DOMAIN tb, WellFormed(tb[c]), Empty(vol, c)
    PROVE  \A j : ~Listed(tb, c, j)
<1>1. Chain(vol, c) = ch[c] /\ Slots(vol, ch[c]) = tb[c] /\ IsTable(tb[c])
  BY TableOf
<1>2. \A i \in 1 .. End(tb[c]) - 1 : tb[c][i].k # "sfn"
  BY <1>1 DEF Empty
<1>3. \A i \in 1 .. Len(tb[c]) : tb[c][i].k = "sfn" => i \in 1 .. End(tb[c]) - 1
  BY <1>1, EndIs
<1> QED
  BY <1>2, <1>3 DEF Listed

Lone(F, p) == \A f \in Fil : F[f].open => ~IsPrefix(p, F[f].path)

\* No file object is open at a path with no open file below.
LEMMA LoneUnused ==
    ASSUME NEW F, NEW p, IsSeq(p), Lone(F, p), NEW tb, NEW pt, NEW h, NEW i, Path(tb, pt, h, i) = p
    PROVE  Unused(F, tb, pt, h, i)
<1>1. Len(p) \in Nat
  BY DEF IsSeq
<1>2. IsPrefix(p, p)
  BY <1>1, PrefixIs
<1> QED
  BY <1>2 DEF Lone, Unused, OpenAt

DirLess(w, ch, tb, tb3, pt, h, i, c) ==
    /\ Stored(w, ch, tb3) /\ Tree(tb3, pt) /\ DOMAIN tb3 = DOMAIN tb \ {c}
    /\ Others(tb, tb3, h, i) /\ ~Listed(tb3, h, i)

\* Without the directory c, which is the empty one of the entry that goes.
LEMMA DirGone ==
    ASSUME NEW w, NEW ch, NEW tb, NEW pt, Tree(tb, pt), NEW h, NEW i, IsDir(tb, h, i),
           NEW c, c = tb[h][i].clust, \A j : ~Listed(tb, c, j),
           NEW tb2, Removes(w, ch, tb, h, i, tb2), DOMAIN tb \subseteq DOMAIN ch
    PROVE  \E tb3 : DirLess(w, ch, tb, tb3, pt, h, i, c)
<1> DEFINE tb3 == Without(tb2, {c})
<1>1. /\ Stored(w, ch, tb2) /\ DOMAIN tb2 = DOMAIN tb /\ Sane(tb2) /\ Others(tb, tb2, h, i)
      /\ ~Listed(tb2, h, i)
  BY DEF Removes
<1>2. DOMAIN tb3 = DOMAIN tb \ {c} /\ \A g \in DOMAIN tb3 : tb3[g] = tb2[g]
  BY <1>1 DEF Without
<1> HIDE DEF tb3
<1>3. Listed(tb, h, i) /\ h # c
  BY DEF IsDir
<1>4. Sane(tb3)
  BY <1>1, <1>2 DEF Sane
<1>5. \A a, k : a # c => (Listed(tb3, a, k) <=> Listed(tb2, a, k)) /\ (Listed(tb3, a, k) => tb3[a] = tb2[a])
  BY <1>1, <1>2 DEF Listed
<1>6. \A k : ~Listed(tb3, c, k)
  BY <1>2 DEF Listed
<1>7. Others(tb, tb3, h, i)
  <2> SUFFICES ASSUME NEW a, NEW k, ~(a = h /\ k = i) PROVE SameSpot(tb, tb3, a, k)
    BY DEF Others
  <2>1. CASE a = c
    BY <1>6, <2>1 DEF SameSpot, IsDir, IsFile
  <2>2. CASE a # c
    <3>1. SameSpot(tb, tb2, a, k)
      BY <1>1 DEF Others
    <3>2. Listed(tb3, a, k) <=> Listed(tb2, a, k)
      BY <1>5, <2>2
    <3>3. Listed(tb3, a, k) => tb3[a] = tb2[a]
      BY <1>5, <2>2
    <3> QED
      BY <3>1, <3>2, <3>3 DEF SameSpot, IsDir, IsFile
  <2> QED
    BY <2>1, <2>2
<1>8. ~Listed(tb3, h, i)
  BY <1>1, <1>3, <1>5
<1>9. Stored(w, ch, tb3)
  <2>1. Chains(w, ch)
    BY <1>1 DEF Stored
  <2>2. DOMAIN tb3 \subseteq DOMAIN tb2 \cap DOMAIN ch
    BY <1>1, <1>2
  <2> QED
    BY <1>1, <1>2, <2>1, <2>2 DEF Stored
<1>10. Alike(tb, tb3, {<<h, i>>})
  BY <1>7, OthersIs
<1>11. Tree(tb3, pt)
  BY <1>2, <1>4, <1>8, <1>10, TreeShrinks
<1>12. DirLess(w, ch, tb, tb3, pt, h, i, c)
  BY <1>2, <1>7, <1>8, <1>9, <1>11 DEF DirLess
<1> QED
  BY <1>12

\* A removed object, and its chain with it, leave the shape.
LEMMA UnlinkedIs ==
    ASSUME NEW d, NEW gone, NEW S, Window(d, gone, S), NEW fs, NEW ch, NEW tb, NEW pt,
           NEW W, Intact(S.vol, fs, ch, tb, pt, W), NEW p, IsSeq(p), Lone(fs, p),
           NEW F, NEW h, Finds(F, ch, tb, pt, p, h), NEW c, c = tb[h][F.pos].clust,
           tb[h][F.pos].dir => \A j : ~Listed(tb, c, j)
    PROVE  Faithful(Unlinked(S, F, c).vol, fs, Without(W, {p}))
<1> DEFINE i == F.pos
           R == dir_remove(S, F)
           E == {c}
           none == {}
           X == {F.chain[At(F.blk)], F.chain[At(F.pos)]}
           W2 == Without(W, {p})
<1>1. /\ Stored(S.vol, ch, tb) /\ Tree(tb, pt) /\ FilesForm(fs, ch, tb, pt, {}) /\ Sane(tb)
      /\ DOMAIN tb \subseteq DOMAIN ch /\ 0 \notin DOMAIN ch /\ TreeForm(tb, pt)
      /\ Chains(S.vol, ch) /\ Matches(S.vol, fs, ch, tb, pt, W)
  BY HeadsAre, TreeIs DEF Intact, Whole, Stored, TreeForm
<1>2. /\ h \in DOMAIN tb /\ Listed(tb, h, i) /\ Path(tb, pt, h, i) = p
      /\ Hit(tb[h], F.pos, F.blk, Last(p)) /\ F.chain = ch[h]
  BY DEF Finds
<1>3. Fore(F.chain, ch[h]) /\ At(F.pos) \in 1 .. Len(F.chain)
  BY <1>1, <1>2, TableIs DEF Fore, Listed
<1>4. \E tb2 : Removes(dir_remove(S, F).vol, ch, tb, h, F.pos, tb2)
  BY <1>1, <1>2, <1>3, EntryRemoved
<1>5. PICK tb2 : Removes(R.vol, ch, tb, h, i, tb2)
  BY <1>4
<1>6. Window(d, gone, R)
  BY DirRemove
<1>20. Only(S.vol, R.vol, X)
  BY RemoveOnly
<1>21. F.blk \in 1 .. Len(tb[h]) /\ F.pos \in 1 .. Len(tb[h])
  BY <1>1, <1>2, TableIs DEF Hit, Listed, Sane, WellFormed
<1> HIDE DEF R, i, W2
<1>7. /\ Stored(R.vol, ch, tb2) /\ DOMAIN tb2 = DOMAIN tb /\ Sane(tb2) /\ Others(tb, tb2, h, i)
      /\ ~Listed(tb2, h, i)
  BY <1>5 DEF Removes
<1>8. Unused(fs, tb, pt, h, i)
  BY <1>2, LoneUnused
<1>9. \A e : e \in E <=> e = c
  OBVIOUS
<1>10. \A e : e \notin none
  OBVIOUS
<1>16. FilesForm(fs, ch, tb, pt, none)
  BY <1>1
<1>22. Spares(fs, ch, tb, pt, X)
  <2>1. At(F.blk) \in 1 .. Len(ch[h]) /\ At(F.pos) \in 1 .. Len(ch[h]) /\ h \in DOMAIN ch
    BY <1>1, <1>2, <1>21, TableIs
  <2>2. \A j \in 1 .. Len(ch[h]) : ch[h][j] \in Cluster /\ On(ch[h], ch[h][j])
    BY <1>1, <2>1, ChainHas DEF On
  <2>3. \A x \in X : x \in Cluster /\ \E g \in DOMAIN tb : On(ch[g], x)
    BY <1>2, <2>1, <2>2
  <2> HIDE DEF X, none
  <2> QED
    BY <1>1, <1>16, <2>3, TableSpares
<1>23. p = Path(tb, pt, h, i)
  BY <1>2 DEF i
<1>24. Listed(tb, h, i)
  BY <1>2 DEF i
<1> HIDE DEF E, none, X
<1>11. \E tb3 : /\ Stored(R.vol, ch, tb3) /\ Tree(tb3, pt) /\ FilesForm(fs, ch, tb3, pt, E)
                /\ Matches(R.vol, fs, ch, tb3, pt, W2)
                /\ c = 0 \/ (c \in DOMAIN ch /\ c \notin DOMAIN tb3)
  <2>1. CASE IsFile(tb, h, i)
    <3>1. ~IsDir(tb, h, i) /\ ~IsDir(tb2, h, i) /\ ~IsFile(tb2, h, i)
      BY <1>7, <2>1 DEF IsDir, IsFile
    <3>2. Tree(tb2, pt)
      BY <1>1, <1>7, <3>1, TreeOne
    <3>3. FirstAt(fs, tb, pt, h, i) = c
      BY <1>8, UnusedFirst DEF i
    <3>4. c = 0 \/ (c \in DOMAIN ch /\ c \notin DOMAIN tb)
      BY <1>16, <2>1, <3>3 DEF FilesForm, Held
    <3>5. UnusedChanges(fs, ch, tb, pt, none, ch, tb2, pt, E, h, i, c)
      <4>1. \A e : e # c => (e \in Held(ch, tb2, E) <=> e \in Held(ch, tb, none))
        BY <1>7, <1>9, <1>10 DEF Held
      <4>2. c \notin Held(ch, tb2, E)
        BY <1>9 DEF Held
      <4>3. c = tb[h][i].clust
        BY DEF i
      <4> QED
        BY <1>7, <1>8, <2>1, <3>1, <4>1, <4>2, <4>3 DEF UnusedChanges, Others
    <3>6. FilesForm(fs, ch, tb2, pt, E)
      BY <1>1, <1>16, <3>2, <3>5, UnusedPasses
    <3>7. OneChanged(tb, pt, W, tb2, pt, W2, h, i)
      BY <1>1, <1>7, <1>23, <1>24, ChangedWithout DEF W2
    <3>8. Matches(R.vol, fs, ch, tb2, pt, W2)
      BY <1>1, <1>16, <1>20, <1>22, <3>5, <3>7, UnusedMatches
    <3> QED
      BY <1>7, <3>2, <3>4, <3>6, <3>8
  <2>2. CASE ~IsFile(tb, h, i)
    <3>1. IsDir(tb, h, i) /\ \A j : ~Listed(tb, c, j)
      BY <1>2, <2>2 DEF IsDir, IsFile, i
    <3>2. c \in DOMAIN tb /\ c = tb[h][i].clust
      BY <1>1, <3>1 DEF TreeForm, i
    <3>31. \E t : DirLess(R.vol, ch, tb, t, pt, h, i, c)
      BY <1>1, <1>5, <3>1, <3>2, DirGone
    <3>32. PICK tb3 : DirLess(R.vol, ch, tb, tb3, pt, h, i, c)
      BY <3>31
    <3>3. /\ Stored(R.vol, ch, tb3) /\ Tree(tb3, pt) /\ DOMAIN tb3 = DOMAIN tb \ {c}
          /\ Others(tb, tb3, h, i) /\ ~Listed(tb3, h, i)
      BY <3>32 DEF DirLess
    <3>4. UnusedChanges(fs, ch, tb, pt, none, ch, tb3, pt, E, h, i, 0)
      <4>1. \A e : e \in Held(ch, tb3, E) <=> e \in Held(ch, tb, none)
        BY <1>1, <1>9, <1>10, <3>2, <3>3 DEF Held
      <4>2. 0 \notin Held(ch, tb3, E)
        BY <1>1 DEF Held
      <4>3. ~IsFile(tb3, h, i)
        BY <3>3 DEF IsFile
      <4> QED
        BY <2>2, <3>3, <4>1, <4>2, <4>3 DEF UnusedChanges, Others
    <3>5. FilesForm(fs, ch, tb3, pt, E)
      <4> DEFINE z == 0
      <4>1. UnusedChanges(fs, ch, tb, pt, none, ch, tb3, pt, E, h, i, z)
        BY <3>4
      <4> HIDE DEF z
      <4> QED
        BY <1>1, <1>16, <3>3, <4>1, UnusedPasses
    <3>6. c \in DOMAIN ch /\ c \notin DOMAIN tb3
      BY <1>1, <3>2, <3>3
    <3>7. OneChanged(tb, pt, W, tb3, pt, W2, h, i)
      BY <1>1, <1>23, <1>24, <3>3, ChangedWithout DEF W2
    <3>8. Matches(R.vol, fs, ch, tb3, pt, W2)
      <4> DEFINE z == 0
      <4>1. UnusedChanges(fs, ch, tb, pt, none, ch, tb3, pt, E, h, i, z)
        BY <3>4
      <4> HIDE DEF z
      <4> QED
        BY <1>1, <1>16, <1>20, <1>22, <3>7, <4>1, UnusedMatches
    <3> QED
      BY <3>3, <3>5, <3>6, <3>8
  <2> QED
    BY <2>1, <2>2
<1>12. PICK tb3 : /\ Stored(R.vol, ch, tb3) /\ Tree(tb3, pt) /\ FilesForm(fs, ch, tb3, pt, E)
                  /\ Matches(R.vol, fs, ch, tb3, pt, W2)
                  /\ c = 0 \/ (c \in DOMAIN ch /\ c \notin DOMAIN tb3)
  BY <1>11
<1>19. InHand(R.vol, fs, ch, tb3, pt, E, c)
  BY <1>9, <1>12 DEF InHand
<1>13. Window(d, gone, Given(R, c)) /\ Kept(Given(R, c).vol, fs, ch, tb3, pt, W2)
  BY <1>6, <1>12, <1>19, DropWhole
<1> DEFINE Q == Given(R, c)
<1>18. Window(d, gone, Q) /\ \E ch2 : Intact(Q.vol, fs, ch2, tb3, pt, W2)
  BY <1>13 DEF Kept
<1> HIDE DEF Q
<1>14. PICK ch2 : Intact(Q.vol, fs, ch2, tb3, pt, W2)
  BY <1>18
<1>15. Intact(sync_fs(Q).vol, fs, ch2, tb3, pt, W2)
  BY <1>14, <1>18, SyncFsIntact
<1> QED
  BY <1>15 DEF Faithful, Unlinked, Q, R, Given, W2

\* f_unlink keeps the shape, and one path less is there.
LEMMA UnlinkIs ==
    ASSUME NEW ch, NEW tb, NEW pt, Intact(lib.vol, fil, ch, tb, pt, want), Typed(fil), WindowInv,
           NEW p, IsSeq(p), p # <<>>, f_unlink(p)
    PROVE  Faithful(lib'.vol, fil', want') /\ Typed(fil')
<1> DEFINE F == follow_path(lib, p)
           e == Entry(F)
           V == IF e.dir THEN Searched(F.s, e.clust) ELSE F.s
<1>1. Stored(lib.vol, ch, tb) /\ Tree(tb, pt) /\ Window(disk, crashed, lib) /\ fil' = fil
      /\ Faithful(lib.vol, fil, want)
  BY DEF Intact, Whole, Faithful, WindowInv, f_unlink
<1>2. \/ lib' = F.s /\ want' = want
      \/ F.res = "OK" /\ lib' = V /\ want' = want
      \/ /\ F.res = "OK" /\ (e.dir => Empty(lib.vol, e.clust)) /\ lib' = Unlinked(V, F, e.clust)
         /\ want' = Without(want, {p})
  BY DEF f_unlink, Done
<1>3. Lone(fil, p)
  BY DEF f_unlink, Legal, OpenFils, Lone
<1>8. Followed(disk, crashed, lib.vol, ch, tb, pt, p, F)
  BY <1>1, FollowFinds
<1> HIDE DEF F
<1>4. Window(disk, crashed, F.s) /\ F.s.vol = lib.vol
  BY <1>8 DEF Followed
<1>5. F.res = "OK" => \E h : Finds(F, ch, tb, pt, p, h)
  BY <1>8 DEF Followed
<1>6. Window(disk, crashed, V) /\ V.vol = lib.vol
  BY <1>4, SearchedKeeps, SearchedSame
<1> HIDE DEF V
<1>7. ASSUME F.res = "OK", e.dir => Empty(lib.vol, e.clust) PROVE Faithful(Unlinked(V, F, e.clust).vol, fil, Without(want, {p}))
  <2>1. PICK h : Finds(F, ch, tb, pt, p, h)
    BY <1>5, <1>7
  <2>2. e = tb[h][F.pos] /\ Listed(tb, h, F.pos)
    BY <2>1 DEF Finds
  <2> DEFINE c == e.clust
  <2>3. c = tb[h][F.pos].clust
    BY <2>2
  <2>4. ASSUME e.dir PROVE \A j : ~Listed(tb, c, j)
    <3>1. c \in DOMAIN tb /\ Sane(tb)
      BY <1>1, <2>2, <2>4, TreeIs DEF TreeForm, IsDir
    <3>2. WellFormed(tb[c]) /\ Empty(lib.vol, c)
      BY <1>7, <2>4, <3>1 DEF Sane
    <3> HIDE DEF c
    <3> QED
      BY <1>1, <3>1, <3>2, EmptyIs
  <2>5. Intact(V.vol, fil, ch, tb, pt, want)
    BY <1>6
  <2> HIDE DEF e
  <2>6. tb[h][F.pos].dir => \A j : ~Listed(tb, c, j)
    BY <2>2, <2>4
  <2>7. Faithful(Unlinked(V, F, c).vol, fil, Without(want, {p}))
    <3> HIDE DEF c
    <3> QED
      BY <1>3, <1>6, <2>1, <2>3, <2>5, <2>6, UnlinkedIs
  <2> QED
    BY <2>7
<1> QED
  BY <1>1, <1>2, <1>4, <1>6, <1>7

-----------------------------------------------------------------------------
(* f_open.                                                                 *)

\* D has registered the name n in the directory h, or stretched its table only.
Enters(d, gone, v, D, ch, ch2, tb, tb2, h, n) ==
    /\ Window(d, gone, D.s) /\ Stored(D.s.vol, ch2, tb2) /\ DOMAIN tb2 = DOMAIN tb /\ Sane(tb2)
    /\ Longer(ch, ch2, h) /\ D.chain = ch2[h] /\ h \in DOMAIN tb /\ Only(v, D.s.vol, OnIt(ch2[h]))
    /\ D.pos = 0 => NoOther(tb, tb2)
    /\ D.pos # 0 => /\ Others(tb, tb2, h, D.pos) /\ ~Listed(tb, h, D.pos) /\ IsFile(tb2, h, D.pos)
                    /\ Entry(D) = tb2[h][D.pos] /\ Entry(D) = Blank(Entry(D).sfn)
                    /\ NameAt(tb2[h], D.pos) = n

\* dir_register, as the other tables see it.
LEMMA EntersIs ==
    ASSUME NEW d, NEW gone, NEW S, Window(d, gone, S), NEW ch, NEW tb, Stored(S.vol, ch, tb), Sane(tb),
           NEW h \in DOMAIN tb, NEW dc, h = (IF dc = 0 THEN Root ELSE dc), NEW n
    PROVE  \E ch2, tb2 : Enters(d, gone, S.vol, dir_register(S, dc, n), ch, ch2, tb, tb2, h, n)
<1> DEFINE D == dir_register(S, dc, n)
<1>1. Registers(d, gone, D, ch, tb, h, dc, n)
  BY RegisterIs DEF Sane
<1>10. WellFormed(tb[h])
  BY DEF Sane
<1>9. Only(S.vol, D.s.vol, OnIt(D.chain))
  BY <1>10, RegisterOnly
<1> HIDE DEF D
<1>2. PICK U : Laid(D.s.vol, ch, tb, h, D.chain, U) /\ Entered(tb[h], U, D.pos, n)
  BY <1>1 DEF Registers
<1>4. /\ h \in DOMAIN ch /\ D.chain \in Seq(Cluster) /\ Len(D.chain) \in Nat \ {0}
  <2> DEFINE w == D.s.vol
             s == D.chain
  <2>1. Laid(w, ch, tb, h, s, U)
    BY <1>2
  <2> HIDE DEF w, s
  <2>2. h \in DOMAIN ch
    BY <2>1, LaidIs
  <2>3. s \in Seq(Cluster) /\ Len(s) \in Nat \ {0}
    BY <2>1, LaidIs
  <2> QED
    BY <2>2, <2>3 DEF s
<1> DEFINE ch2 == Put(ch, h, D.chain)
           tb2 == Put(tb, h, U)
<1>3. Stored(D.s.vol, ch2, tb2)
  BY <1>2 DEF Laid, Put
<1>5. Len(tb[h]) \in Nat /\ Len(ch[h]) \in Nat
  BY TableIs
<1>6. Longer(ch, ch2, h) /\ ch2[h] = D.chain
  BY <1>1, <1>4, <1>5 DEF Registers, Longer, Put
<1>7. CASE D.pos = 0
  <2>1. Keeping(tb[h], U, {})
    BY <1>2, <1>7 DEF Entered
  <2>2. DOMAIN tb2 = DOMAIN tb /\ Sane(tb2) /\ NoOther(tb, tb2)
    BY <1>5, <2>1, PutNoSpot
  <2> HIDE DEF ch2, tb2
  <2>3. Enters(d, gone, S.vol, D, ch, ch2, tb, tb2, h, n)
    BY <1>1, <1>3, <1>6, <1>7, <1>9, <2>2 DEF Enters, Registers
  <2> QED
    BY <2>3 DEF D
<1>8. CASE D.pos # 0
  <2>1. /\ D.pos \in 1 .. Len(U) /\ KeepsBut(tb[h], U, D.pos) /\ ~(D.pos <= Len(tb[h]) /\ tb[h][D.pos].k = "sfn")
        /\ U[D.pos] = Blank(U[D.pos].sfn) /\ NameAt(U, D.pos) = n
    BY <1>2, <1>8 DEF Entered, KeepsBut
  <2>2. DOMAIN tb2 = DOMAIN tb /\ Sane(tb2) /\ tb2[h] = U /\ Others(tb, tb2, h, D.pos)
    BY <1>5, <2>1, PutSpot
  <2> HIDE DEF ch2, tb2
  <2>3. ~Listed(tb, h, D.pos)
    BY <1>5, <2>1 DEF Listed
  <2>4. U[D.pos].k = "sfn" /\ ~U[D.pos].dir
    <3> DEFINE b == U[D.pos].sfn
    <3>1. U[D.pos] = Blank(b)
      BY <2>1
    <3> HIDE DEF b
    <3> QED
      BY <3>1 DEF Blank
  <2>5. IsFile(tb2, h, D.pos)
    BY <2>1, <2>2, <2>4 DEF IsFile, Listed
  <2>6. Entry(D) = U[D.pos]
    BY <1>3, <1>6, <2>1, <2>2, TableIs DEF Entry
  <2>7. Enters(d, gone, S.vol, D, ch, ch2, tb, tb2, h, n)
    BY <1>1, <1>3, <1>6, <1>8, <1>9, <2>1, <2>2, <2>3, <2>5, <2>6 DEF Enters, Registers
  <2> QED
    BY <2>7 DEF D
<1> QED
  BY <1>7, <1>8

\* A table grows: nothing changes for the files.
LEMMA GrownFiles ==
    ASSUME NEW v, NEW ch, NEW tb, Stored(v, ch, tb), NEW h \in DOMAIN tb, NEW ch2, Longer(ch, ch2, h),
           NEW tb2, DOMAIN tb2 = DOMAIN tb
    PROVE  /\ \A a, k : IsFile(tb, a, k) => ch2[a][At(k)] = ch[a][At(k)]
           /\ \A E : Held(ch2, tb2, E) = Held(ch, tb, E)
           /\ \A E : \A e \in Held(ch, tb, E) : ch2[e] = ch[e]
           /\ 0 \notin DOMAIN ch /\ 0 \notin DOMAIN ch2 /\ 0 \notin DOMAIN tb
<1>1. DOMAIN ch2 = DOMAIN ch /\ h \in DOMAIN ch /\ 0 \notin DOMAIN ch /\ DOMAIN tb \subseteq DOMAIN ch
  BY HeadsAre DEF Longer, Stored
<1>2. ASSUME NEW a, NEW k, IsFile(tb, a, k) PROVE ch2[a][At(k)] = ch[a][At(k)]
  <2>1. a \in DOMAIN tb /\ k \in 1 .. Len(tb[a])
    BY <1>2 DEF IsFile, Listed
  <2>2. At(k) \in 1 .. Len(ch[a]) /\ a \in DOMAIN ch
    BY <2>1, TableIs
  <2> QED
    BY <1>1, <2>2 DEF Longer
<1> QED
  BY <1>1, <1>2 DEF Held, Longer

\* What dir_register writes is on no chain of a file.
LEMMA EntersSpares ==
    ASSUME NEW v, NEW ch, NEW tb, Stored(v, ch, tb), NEW pt, NEW F, NEW E, FilesForm(F, ch, tb, pt, E),
           NEW d, NEW gone, NEW D, NEW ch2, NEW tb2, NEW h, NEW n,
           Enters(d, gone, v, D, ch, ch2, tb, tb2, h, n)
    PROVE  Spares(F, ch, tb, pt, OnIt(ch2[h]))
<1> SUFFICES ASSUME NEW a, NEW k, IsFile(tb, a, k), FirstAt(F, tb, pt, a, k) # 0, NEW x \in OnIt(ch2[h]),
                    On(ch[FirstAt(F, tb, pt, a, k)], x)
             PROVE  FALSE
  BY DEF Spares
<1> DEFINE c == FirstAt(F, tb, pt, a, k)
<1>1. c \in DOMAIN ch /\ c \notin DOMAIN tb
  BY DEF FilesForm, Held
<1> HIDE DEF c
<1>2. /\ Chains(D.s.vol, ch2) /\ h \in DOMAIN tb /\ h \in DOMAIN ch2 /\ DOMAIN ch2 = DOMAIN ch
      /\ c # h => ch2[c] = ch[c]
  BY <1>1 DEF Enters, Stored, Longer
<1>3. c # h /\ ch2[c] = ch[c]
  BY <1>1, <1>2
<1>4. x \in Cluster
  BY <1>2, ChainHas DEF OnIt
<1>5. On(ch2[h], x) /\ On(ch2[c], x)
  BY <1>3 DEF c, On, OnIt
<1> QED
  BY <1>1, <1>2, <1>3, <1>4, <1>5 DEF Chains

\* A name that was not entered leaves the shape.
LEMMA EntersNot ==
    ASSUME NEW v, NEW ch, NEW tb, Stored(v, ch, tb), NEW pt, Tree(tb, pt), NEW F, FilesForm(F, ch, tb, pt, {}),
           NEW W, Matches(v, F, ch, tb, pt, W), NEW d, NEW gone, NEW D, NEW ch2, NEW tb2, NEW h, NEW n,
           Enters(d, gone, v, D, ch, ch2, tb, tb2, h, n), D.pos = 0
    PROVE  Intact(D.s.vol, F, ch2, tb2, pt, W)
<1> DEFINE none == {}
<1>1. /\ Stored(D.s.vol, ch2, tb2) /\ DOMAIN tb2 = DOMAIN tb /\ Sane(tb2) /\ Longer(ch, ch2, h)
      /\ h \in DOMAIN tb /\ NoOther(tb, tb2)
  BY DEF Enters
<1>2. Tree(tb2, pt)
  BY <1>1, TreeNone
<1> HIDE DEF none
<1>3. HandChanges(ch, tb, pt, none, ch2, tb2, pt, none) /\ 0 \notin DOMAIN ch /\ 0 \notin DOMAIN ch2 /\ 0 \notin DOMAIN tb
  BY <1>1, GrownFiles DEF HandChanges, NoOther
<1>4. FilesForm(F, ch, tb, pt, none)
  BY DEF none
<1>5. FilesForm(F, ch2, tb2, pt, none)
  BY <1>2, <1>3, <1>4, HandPasses
<1> DEFINE X == OnIt(ch2[h])
<1>6. Only(v, D.s.vol, X) /\ Spares(F, ch, tb, pt, X) /\ Chains(v, ch)
  BY <1>4, EntersSpares, ZenonT(30) DEF Enters, Stored
<1> HIDE DEF X
<1>7. Matches(D.s.vol, F, ch2, tb2, pt, W)
  BY <1>3, <1>4, <1>6, HandMatches
<1> QED
  BY <1>1, <1>2, <1>5, <1>7 DEF Intact, Whole, none

\* No open file is at a path that no object has.
LEMMA NoneOpen ==
    ASSUME NEW F, NEW ch, NEW tb, NEW pt, NEW E, FilesForm(F, ch, tb, pt, E), Tree(tb, pt),
           NEW h \in DOMAIN tb, NEW n, \A i : Listed(tb, h, i) => NameAt(tb[h], i) # n,
           NEW f \in Fil
    PROVE  ~OpenAt(F, f, Append(pt[h], n))
<1> SUFFICES ASSUME OpenAt(F, f, Append(pt[h], n)) PROVE FALSE
  OBVIOUS
<1>1. PICK g, i : HasFile(F, ch, tb, pt, f, g, i)
  BY DEF OpenAt, FilesForm
<1>2. Listed(tb, g, i) /\ g \in DOMAIN tb /\ Append(pt[g], NameAt(tb[g], i)) = Append(pt[h], n)
  BY <1>1 DEF HasFile, OpenAt, IsFile, Listed, Path
<1>3. TreeForm(tb, pt)
  BY TreeIs
<1>4. IsSeq(pt[g]) /\ IsSeq(pt[h]) /\ (pt[g] = pt[h] => g = h)
  BY <1>2, <1>3 DEF TreeForm
<1>5. pt[g] = pt[h] /\ NameAt(tb[g], i) = n
  BY <1>2, <1>4, AppendBoth
<1> QED
  BY <1>2, <1>4, <1>5

\* A new file without data keeps the shape.
LEMMA EntersFile ==
    ASSUME NEW v, NEW ch, NEW tb, Stored(v, ch, tb), NEW pt, Tree(tb, pt), NEW F, FilesForm(F, ch, tb, pt, {}),
           NEW W, Matches(v, F, ch, tb, pt, W), NEW d, NEW gone, NEW D, NEW ch2, NEW tb2, NEW h, NEW n,
           Enters(d, gone, v, D, ch, ch2, tb, tb2, h, n), D.pos # 0,
           \A i : Listed(tb, h, i) => NameAt(tb[h], i) # n
    PROVE  /\ Intact(D.s.vol, F, ch2, tb2, pt, With(W, Append(pt[h], n), File(<<>>)))
           /\ Unused(F, tb2, pt, h, D.pos)
<1> DEFINE none == {}
           z == 0
           i == D.pos
           b == Entry(D).sfn
<1>1. /\ Stored(D.s.vol, ch2, tb2) /\ DOMAIN tb2 = DOMAIN tb /\ Sane(tb2) /\ Longer(ch, ch2, h)
      /\ h \in DOMAIN tb /\ Others(tb, tb2, h, i) /\ ~Listed(tb, h, i) /\ IsFile(tb2, h, i)
      /\ tb2[h][i] = Blank(b) /\ NameAt(tb2[h], i) = n
  BY DEF Enters
<1> HIDE DEF i, b
<1>2. ~IsDir(tb, h, i) /\ ~IsDir(tb2, h, i) /\ ~IsFile(tb, h, i)
  BY <1>1 DEF IsDir, IsFile
<1>3. Tree(tb2, pt)
  <2>1. \A j : Listed(tb2, h, i) /\ Listed(tb, h, j) /\ NameAt(tb[h], j) = NameAt(tb2[h], i) => i = j
    BY <1>1
  <2> QED
    BY <1>1, <1>2, <2>1, TreeOne
<1>9. FilesForm(F, ch, tb, pt, none)
  OBVIOUS
<1> HIDE DEF none
<1>4. Unused(F, tb2, pt, h, i)
  <2>1. Path(tb2, pt, h, i) = Append(pt[h], n)
    BY <1>1 DEF Path
  <2>2. \A f \in Fil : ~OpenAt(F, f, Append(pt[h], n))
    BY <1>1, <1>9, NoneOpen
  <2> QED
    BY <2>1, <2>2 DEF Unused
<1>5. /\ \A a, k : IsFile(tb, a, k) => ch2[a][At(k)] = ch[a][At(k)]
      /\ Held(ch2, tb2, none) = Held(ch, tb, none) /\ \A e \in Held(ch, tb, none) : ch2[e] = ch[e]
      /\ 0 \notin DOMAIN ch /\ 0 \notin DOMAIN ch2 /\ 0 \notin DOMAIN tb
  BY <1>1, GrownFiles
<1>6. tb2[h][i].clust = 0 /\ tb2[h][i].size = 0
  BY <1>1 DEF Blank
<1>7. 0 \notin Held(ch2, tb2, none)
  BY <1>5 DEF Held
<1>8. UnusedChanges(F, ch, tb, pt, none, ch2, tb2, pt, none, h, i, z)
  BY <1>1, <1>2, <1>4, <1>5, <1>6, <1>7 DEF UnusedChanges, Others
<1> HIDE DEF z
<1>10. FilesForm(F, ch2, tb2, pt, none)
  BY <1>3, <1>5, <1>8, <1>9, UnusedPasses
<1> DEFINE X == OnIt(ch2[h])
           p == Append(pt[h], n)
           y == File(<<>>)
           W2 == With(W, p, y)
<1>11. Only(v, D.s.vol, X) /\ Spares(F, ch, tb, pt, X) /\ Chains(v, ch)
  BY <1>9, EntersSpares DEF Enters, Stored
<1>12. p = Path(tb2, pt, h, i) /\ Listed(tb2, h, i)
  BY <1>1 DEF Path, IsFile
<1> HIDE DEF X, p, y
<1>13. y = File(<<>>)
  BY DEF y
<1>14. OneChanged(tb, pt, W, tb2, pt, W2, h, i)
  BY <1>1, <1>2, <1>3, <1>12, <1>13, ChangedWith
<1> HIDE DEF W2
<1>15. Matches(D.s.vol, F, ch2, tb2, pt, W2)
  BY <1>8, <1>9, <1>11, <1>14, UnusedMatches
<1> QED
  BY <1>1, <1>3, <1>4, <1>10, <1>15 DEF Intact, Whole, none, i, W2, p, y

\* The file at p is the one in the slot D.pos of the directory h.
Spot(w, D, F, ch, tb, pt, h, p, W) ==
    /\ Intact(w, F, ch, tb, pt, W) /\ IsFile(tb, h, D.pos) /\ Path(tb, pt, h, D.pos) = p /\ D.chain = ch[h]

\* An entry without data.
LEMMA BlankIs ==
    ASSUME NEW sfn
    PROVE  /\ IsObject(Blank(sfn)) /\ Blank(sfn).sfn = sfn /\ ~Blank(sfn).dir
           /\ Blank(sfn).clust = 0 /\ Blank(sfn).size = 0
BY DEF IsObject, Blank

\* Where the data of a file begins that is not open.
LEMMA UnusedClust ==
    ASSUME NEW vol, NEW F, NEW ch, NEW tb, NEW pt, Whole(vol, F, ch, tb, pt),
           NEW h, NEW i, IsFile(tb, h, i), Unused(F, tb, pt, h, i)
    PROVE  /\ tb[h][i].clust = 0 \/ (tb[h][i].clust \in DOMAIN ch /\ tb[h][i].clust \notin DOMAIN tb)
           /\ Reaches(ch, tb[h][i].clust, tb[h][i].size) /\ tb[h][i].size \in Nat
           /\ FirstAt(F, tb, pt, h, i) = tb[h][i].clust
<1> DEFINE none == {}
<1>1. FilesForm(F, ch, tb, pt, none) /\ TreeForm(tb, pt)
  BY TreeIs DEF Whole
<1>2. FirstAt(F, tb, pt, h, i) = tb[h][i].clust /\ ~Busy(F, Path(tb, pt, h, i))
  BY UnusedFirst
<1>3. IsObject(tb[h][i])
  BY <1>1 DEF TreeForm, Sane, WellFormed, IsFile, Listed
<1> QED
  BY <1>1, <1>2, <1>3 DEF FilesForm, Held, IsObject

\* The entry of a file that is not open is emptied: its chain is in hand.
LEMMA Blanked ==
    ASSUME NEW vol, NEW F, NEW ch, NEW tb, NEW pt, NEW W, Intact(vol, F, ch, tb, pt, W),
           NEW h, NEW i, IsFile(tb, h, i), Unused(F, tb, pt, h, i),
           NEW w, NEW x, NEW tb2, Rewrites(w, ch, tb, pt, h, i, x, tb2), x.clust = 0, x.size = 0,
           NEW c, c = tb[h][i].clust, Only(vol, w, {ch[h][At(i)]}), NEW p, p = Path(tb, pt, h, i)
    PROVE  \E E : InHand(w, F, ch, tb2, pt, E, c) /\ Matches(w, F, ch, tb2, pt, With(W, p, File(<<>>)))
<1> DEFINE E == {c}
           none == {}
<1>1. /\ Stored(w, ch, tb2) /\ Tree(tb2, pt) /\ DOMAIN tb2 = DOMAIN tb
      /\ IsFile(tb2, h, i) /\ tb2[h][i] = x /\ NameAt(tb2[h], i) = NameAt(tb[h], i)
      /\ Others(tb, tb2, h, i)
  BY DEF Rewrites
<1>2. c = 0 \/ (c \in DOMAIN ch /\ c \notin DOMAIN tb)
  BY UnusedClust DEF Intact
<1>3. Unused(F, tb2, pt, h, i)
  BY <1>1 DEF Unused, Path
<1>4. /\ Tree(tb, pt) /\ FilesForm(F, ch, tb, pt, none) /\ 0 \notin DOMAIN ch /\ Stored(vol, ch, tb)
      /\ Chains(vol, ch) /\ Matches(vol, F, ch, tb, pt, W) /\ DOMAIN tb \subseteq DOMAIN ch
  BY HeadsAre DEF Intact, Whole, Stored
<1>5. \A e : e \in E <=> e = c
  OBVIOUS
<1>6. \A e : e \notin none
  OBVIOUS
<1> HIDE DEF E, none
<1>7. \A e : e # c => (e \in Held(ch, tb2, E) <=> e \in Held(ch, tb, none))
  BY <1>1, <1>5, <1>6 DEF Held
<1>8. c \notin Held(ch, tb2, E)
  BY <1>5 DEF Held
<1>9. UnusedChanges(F, ch, tb, pt, none, ch, tb2, pt, E, h, i, c)
  BY <1>1, <1>3, <1>7, <1>8 DEF UnusedChanges, Others
<1>10. FilesForm(F, ch, tb2, pt, E)
  BY <1>1, <1>4, <1>9, UnusedPasses
<1>11. InHand(w, F, ch, tb2, pt, E, c)
  BY <1>1, <1>2, <1>5, <1>10 DEF InHand
<1> DEFINE X == {ch[h][At(i)]}
           y == File(<<>>)
           W2 == With(W, p, y)
<1>12. h \in DOMAIN tb /\ i \in 1 .. Len(tb[h]) /\ Listed(tb, h, i)
  BY DEF IsFile, Listed
<1>13. Spares(F, ch, tb, pt, X)
  <2>1. At(i) \in 1 .. Len(ch[h]) /\ h \in DOMAIN ch
    BY <1>4, <1>12, TableIs
  <2>2. ch[h][At(i)] \in Cluster /\ On(ch[h], ch[h][At(i)])
    BY <1>4, <2>1, ChainHas DEF On
  <2>3. \A x1 \in X : x1 \in Cluster /\ \E g \in DOMAIN tb : On(ch[g], x1)
    BY <1>12, <2>2
  <2> HIDE DEF X
  <2> QED
    BY <1>4, <2>3, TableSpares
<1>14. /\ Listed(tb2, h, i) /\ ~IsDir(tb2, h, i) /\ p = Path(tb2, pt, h, i) /\ y = File(<<>>)
       /\ Only(vol, w, X)
  BY <1>1 DEF IsFile, IsDir, Path
<1> HIDE DEF X, y
<1>15. OneChanged(tb, pt, W, tb2, pt, W2, h, i)
  BY <1>1, <1>4, <1>14, ChangedWith
<1> HIDE DEF W2
<1>16. Matches(w, F, ch, tb2, pt, W2)
  BY <1>4, <1>9, <1>13, <1>14, <1>15, UnusedMatches
<1> QED
  BY <1>11, <1>16 DEF W2, y

\* What Emptied writes.
LEMMA EmptiedVol ==
    ASSUME NEW d, NEW gone, NEW D, NEW A, A = PutSlot(D.s, D.chain, D.pos, Blank(Entry(D).sfn)), Window(d, gone, A)
    PROVE  Emptied(D).vol = Given(A, Entry(D).clust).vol
<1> DEFINE c == Entry(D).clust
           M == move_window(remove_chain(A, c, 0), A.sect)
           N == [M EXCEPT !.last = c - 1]
<1>1. Emptied(D) = IF c = 0 THEN A ELSE N
  BY DEF Emptied
<1> HIDE DEF c
<1>2. Window(d, gone, remove_chain(A, c, 0))
  BY RemoveChain
<1>3. Window(d, gone, M) /\ M.vol = remove_chain(A, c, 0).vol
  BY <1>2, MoveWindow
<1> HIDE DEF M
<1>4. N.vol = M.vol
  BY <1>3 DEF Window, Through, Fields
<1> HIDE DEF N
<1> QED
  BY <1>1, <1>3, <1>4 DEF Given, c

\* A file that is not open may be emptied.
LEMMA EmptiedIs ==
    ASSUME NEW d, NEW gone, NEW D, Window(d, gone, D.s), NEW F, NEW ch, NEW tb, NEW pt, NEW h, NEW p,
           NEW W, Spot(D.s.vol, D, F, ch, tb, pt, h, p, W), Unused(F, tb, pt, h, D.pos), Entry(D) = tb[h][D.pos]
    PROVE  \E ch2, tb2 : /\ Spot(Emptied(D).vol, D, F, ch2, tb2, pt, h, p, With(W, p, File(<<>>)))
                         /\ Unused(F, tb2, pt, h, D.pos)
<1> DEFINE i == D.pos
           x == Blank(Entry(D).sfn)
           A == PutSlot(D.s, D.chain, i, x)
           c == Entry(D).clust
<1>1. /\ Stored(D.s.vol, ch, tb) /\ Tree(tb, pt) /\ Intact(D.s.vol, F, ch, tb, pt, W)
      /\ IsFile(tb, h, i) /\ Path(tb, pt, h, i) = p /\ D.chain = ch[h]
  BY DEF Spot, Intact, Whole
<1>2. IsObject(x) /\ x.sfn = tb[h][i].sfn /\ ~x.dir /\ x.clust = 0 /\ x.size = 0
  BY BlankIs
<1>3. Window(d, gone, A)
  BY PutSlotKeeps
<1>4. Emptied(D).vol = Given(A, c).vol
  BY <1>3, EmptiedVol
<1>5. c = tb[h][i].clust
  OBVIOUS
<1>15. Only(D.s.vol, A.vol, {D.chain[At(i)]})
  BY PutOnly
<1> DEFINE W2 == With(W, p, File(<<>>))
<1> HIDE DEF x, c, i, W2
<1>6. D.chain[At(i)] = ch[h][At(i)]
  BY <1>1
<1>7. PICK tb2 : Rewrites(A.vol, ch, tb, pt, h, i, x, tb2)
  BY <1>1, <1>2, <1>6, FileRewritten
<1>8. Unused(F, tb, pt, h, i)
  BY DEF i
<1> HIDE DEF A
<1>14. Only(D.s.vol, A.vol, {ch[h][At(i)]})
  BY <1>1, <1>15
<1>9. PICK E : InHand(A.vol, F, ch, tb2, pt, E, c) /\ Matches(A.vol, F, ch, tb2, pt, W2)
  BY <1>1, <1>2, <1>5, <1>7, <1>8, <1>14, Blanked DEF W2
<1>10. Kept(Given(A, c).vol, F, ch, tb2, pt, W2)
  BY <1>3, <1>9, DropWhole
<1>11. PICK ch2 : Intact(Given(A, c).vol, F, ch2, tb2, pt, W2) /\ \A g \in DOMAIN tb2 : ch2[g] = ch[g]
  BY <1>10 DEF Kept
<1>12. IsFile(tb2, h, i) /\ Path(tb2, pt, h, i) = p /\ h \in DOMAIN tb2 /\ Unused(F, tb2, pt, h, i)
  BY <1>1, <1>7, <1>8 DEF Rewrites, Path, IsFile, Listed, Unused
<1>13. Spot(Emptied(D).vol, D, F, ch2, tb2, pt, h, p, W2)
  BY <1>1, <1>4, <1>11, <1>12 DEF Spot, i
<1> QED
  BY <1>12, <1>13 DEF i, W2

OpenedAt(o, D, p, x) ==
    /\ DOMAIN o = FilFields /\ o.open /\ o.path = p /\ ~o.err
    /\ o.dir_sect = D.chain[At(D.pos)] /\ o.dir_slot = In(D.pos)
    /\ o.sclust = x.clust /\ o.objsize = x.size

\* What f_open puts into a file object.
LEMMA OpenedFields ==
    ASSUME NEW S, NEW D, NEW p, NEW m, NEW x, x = S.vol[Data(D.chain[At(D.pos)])].tab[In(D.pos)],
           NEW s, s = SubSeq(Chain(S.vol, x.clust), 1, x.size)
    PROVE  /\ OpenedAt(Opened(S, D, p, m).fil, D, p, x)
           /\ \/ Opened(S, D, p, m).fil.fptr = 0
              \/ /\ x.size > 0 /\ Opened(S, D, p, m).fil.fptr = x.size
                 /\ Opened(S, D, p, m).fil.clust = Last(s)
<1> HIDE DEF Last
<1> DEFINE end == "FA_SEEKEND" \in m /\ x.size > 0
           o == [open |-> TRUE, path |-> p, dir_sect |-> D.chain[At(D.pos)], dir_slot |-> In(D.pos),
                  sclust |-> x.clust, objsize |-> x.size,
                  fptr |-> IF end THEN x.size ELSE 0,
                  clust |-> IF end THEN Last(s) ELSE 0,
                  write |-> "FA_WRITE" \in m, read |-> "FA_READ" \in m,
                  modified |-> "FA_CREATE_ALWAYS" \in m,
                  cut |-> FALSE, err |-> FALSE]
<1>1. Opened(S, D, p, m).fil = o
  BY ZenonT(60) DEF Opened
<1>2. OpenedAt(o, D, p, x)
  BY ZenonT(60) DEF OpenedAt, FilFields
<1>3. o.fptr = 0 \/ (x.size > 0 /\ o.fptr = x.size /\ o.clust = Last(s))
  BY Zenon
<1> HIDE DEF o
<1> QED
  BY <1>1, <1>2, <1>3, ZenonT(60)

\* Files of which the file objects say the same.
LEMMA SameViews ==
    ASSUME NEW v, NEW F, NEW ch, NEW tb, NEW pt, NEW W, Matches(v, F, ch, tb, pt, W), NEW G,
           \A a, k : IsFile(tb, a, k) => /\ FirstAt(G, tb, pt, a, k) = FirstAt(F, tb, pt, a, k)
                                         /\ LongAt(G, tb, pt, a, k) = LongAt(F, tb, pt, a, k)
    PROVE  Matches(v, G, ch, tb, pt, W)
BY DEF Matches, ShownAt, HasData

\* A file object made by f_open fits its file.
LEMMA OpenedIs ==
    ASSUME NEW d, NEW gone, NEW S, Window(d, gone, S), NEW D, NEW F, Typed(F), NEW ch, NEW tb, NEW pt, NEW h,
           NEW p, NEW W, Spot(S.vol, D, F, ch, tb, pt, h, p, W), Unused(F, tb, pt, h, D.pos),
           NEW f \in Fil, ~F[f].open, NEW m
    PROVE  /\ Faithful(Opened(S, D, p, m).s.vol, [F EXCEPT ![f] = Opened(S, D, p, m).fil], W)
           /\ Typed([F EXCEPT ![f] = Opened(S, D, p, m).fil])
<1> DEFINE i == D.pos
           x == tb[h][i]
           o == Opened(S, D, p, m).fil
           s == SubSeq(Chain(S.vol, x.clust), 1, x.size)
<1>1. /\ Stored(S.vol, ch, tb) /\ Tree(tb, pt) /\ Whole(S.vol, F, ch, tb, pt) /\ FilesForm(F, ch, tb, pt, {})
      /\ IsFile(tb, h, i) /\ Path(tb, pt, h, i) = p /\ D.chain = ch[h] /\ 0 \notin DOMAIN ch
      /\ DOMAIN F = Fil /\ Chains(S.vol, ch) /\ Matches(S.vol, F, ch, tb, pt, W)
  BY HeadsAre DEF Spot, Intact, Whole, Stored, Typed
<1>2. x = S.vol[Data(D.chain[At(i)])].tab[In(i)]
  BY <1>1, TableIs DEF IsFile, Listed
<1>3. OpenedAt(o, D, p, x)
  BY <1>2, OpenedFields
<1>4. o.fptr = 0 \/ (x.size > 0 /\ o.fptr = x.size /\ o.clust = Last(s))
  BY <1>2, OpenedFields, ZenonT(60)
<1>5. Opened(S, D, p, m).s.vol = S.vol
  <2>1. \E cs, n : Opened(S, D, p, m).s \in {S, Walked(S, cs, n)}
    BY Zenon DEF Opened
  <2> QED
    BY <2>1, WalkedKeeps
<1>6. /\ x.clust = 0 \/ (x.clust \in DOMAIN ch /\ x.clust \notin DOMAIN tb)
      /\ Reaches(ch, x.clust, x.size) /\ x.size \in Nat /\ FirstAt(F, tb, pt, h, i) = x.clust
  BY <1>1, UnusedClust
<1> HIDE DEF o, x
<1>7. ASSUME x.size > 0 PROVE s # <<>> /\ Last(s) = ch[x.clust][x.size]
  <2>1. x.clust \in DOMAIN ch /\ x.size \in 1 .. Len(ch[x.clust])
    BY <1>6, <1>7 DEF Reaches
  <2> DEFINE c == ch[x.clust]
  <2>2. Linked(S.vol, c) /\ c[1] = x.clust
    BY <1>1, <2>1 DEF Chains
  <2>3. c \in Seq(Cluster) /\ Len(c) \in Nat
    BY <1>1, <2>1, ChainHas
  <2>4. Chain(S.vol, x.clust) = c
    <3> HIDE DEF c
    <3>1. Chain(S.vol, c[1]) = c
      BY <2>2, ChainIs
    <3> QED
      BY <2>2, <3>1
  <2>5. s = SubSeq(c, 1, x.size)
    BY <2>4
  <2> HIDE DEF s
  <2>6. IsSeq(c) /\ x.size \in 0 .. Len(c)
    BY <2>1, <2>3, SeqIs
  <2> HIDE DEF c
  <2>7. IsSeq(s) /\ Len(s) = x.size /\ \A j \in 1 .. x.size : s[j] = c[j]
    BY <2>5, <2>6, StartIs
  <2>8. Last(s) = s[Len(s)]
    BY DEF Last
  <2> HIDE DEF Last
  <2>9. x.size \in 1 .. x.size
    BY <1>6, <1>7
  <2>10. Last(s) = c[x.size]
    BY <2>7, <2>8, <2>9
  <2>11. s # <<>>
    BY <1>7, <2>7
  <2> QED
    BY <2>10, <2>11 DEF c
<1> HIDE DEF s
<1>8. Handle(o, ch, x, ch[h][At(i)], In(i))
  <2> HIDE DEF Last
  <2>1. /\ o.dir_sect = ch[h][At(i)] /\ o.dir_slot = In(i) /\ o.sclust = x.clust /\ o.objsize = x.size /\ ~o.err
    BY <1>1, <1>3 DEF OpenedAt
  <2>2. o.fptr \in 0 .. x.size
    BY <1>4, <1>6
  <2>3. o.fptr > 0 => o.clust = ch[x.clust][o.fptr]
    BY <1>4, <1>7
  <2> QED
    BY <1>6, <2>1, <2>2, <2>3 DEF Handle
<1>9. Takes(F, ch, tb, pt, ch, h, i, f, o)
  <2>1. Rechained(ch, ch, x.clust, x.clust)
    BY <1>6, SameChained
  <2>2. o.open /\ o.path = p /\ o.sclust = x.clust
    BY <1>3 DEF OpenedAt
  <2> QED
    BY <1>1, <1>6, <1>8, <2>1, <2>2 DEF Takes, Unused, OpenAt, x
<1>10. FilesForm([F EXCEPT ![f] = o], ch, tb, pt, {})
  BY <1>1, <1>9, FileChanges
<1>14. Matches(S.vol, [F EXCEPT ![f] = o], ch, tb, pt, W)
  <2> DEFINE G == [F EXCEPT ![f] = o]
  <2>1. G[f] = o /\ \A g \in Fil : g # f => G[g] = F[g]
    BY <1>1
  <2>2. o.open /\ o.path = p /\ o.sclust = x.clust /\ o.objsize = x.size
    BY <1>3 DEF OpenedAt
  <2> HIDE DEF G
  <2>3. ASSUME NEW a, NEW k, IsFile(tb, a, k)
        PROVE  /\ FirstAt(G, tb, pt, a, k) = FirstAt(F, tb, pt, a, k)
               /\ LongAt(G, tb, pt, a, k) = LongAt(F, tb, pt, a, k)
    <3>1. CASE Path(tb, pt, a, k) = p
      <4>1. a = h /\ k = i
        BY <1>1, <2>3, <3>1, PathsApart DEF IsFile
      <4>2. \A g \in Fil : ~OpenAt(F, g, p)
        BY <1>1 DEF Unused
      <4>3. OpenAt(G, f, p) /\ \A g \in Fil : OpenAt(G, g, p) => g = f
        BY <2>1, <2>2, <4>2 DEF OpenAt
      <4>4. (CHOOSE g \in Fil : OpenAt(G, g, p)) = f /\ Busy(G, p) /\ ~Busy(F, p)
        BY <4>2, <4>3 DEF Busy
      <4> QED
        BY <2>1, <2>2, <3>1, <4>1, <4>4 DEF FirstAt, First, LongAt, Long, x
    <3>2. CASE Path(tb, pt, a, k) # p
      <4> DEFINE q == Path(tb, pt, a, k)
      <4>1. \A g \in Fil : (OpenAt(G, g, q) <=> OpenAt(F, g, q)) /\ (OpenAt(F, g, q) => G[g] = F[g])
        BY <2>1, <2>2, <3>2 DEF OpenAt
      <4> HIDE DEF q
      <4>2. (Busy(G, q) <=> Busy(F, q))
        BY <4>1 DEF Busy
      <4>3. Busy(F, q) => /\ (CHOOSE g \in Fil : OpenAt(G, g, q)) = (CHOOSE g \in Fil : OpenAt(F, g, q))
                          /\ OpenAt(F, CHOOSE g \in Fil : OpenAt(F, g, q), q)
                          /\ (CHOOSE g \in Fil : OpenAt(F, g, q)) \in Fil
        BY <4>1 DEF Busy
      <4> DEFINE e == CHOOSE g \in Fil : OpenAt(F, g, q)
      <4>4. Busy(F, q) => G[e] = F[e]
        BY <4>1, <4>3
      <4>5. First(G, q, tb[a][k]) = First(F, q, tb[a][k]) /\ Long(G, q, tb[a][k]) = Long(F, q, tb[a][k])
        <5>1. CASE ~Busy(F, q)
          BY <4>2, <5>1 DEF First, Long
        <5>2. CASE Busy(F, q)
          <6> DEFINE e2 == CHOOSE g \in Fil : OpenAt(G, g, q)
          <6>1. e2 = e /\ G[e] = F[e] /\ Busy(G, q)
            BY <4>2, <4>3, <4>4, <5>2
          <6>2. /\ First(G, q, tb[a][k]) = G[e2].sclust /\ First(F, q, tb[a][k]) = F[e].sclust
                /\ Long(G, q, tb[a][k]) = G[e2].objsize /\ Long(F, q, tb[a][k]) = F[e].objsize
            BY <5>2, <6>1, Zenon DEF First, Long
          <6> HIDE DEF e, e2
          <6> QED
            BY <6>1, <6>2
        <5> QED
          BY <5>1, <5>2
      <4> QED
        BY <4>5 DEF FirstAt, LongAt, q
    <3> QED
      BY <3>1, <3>2
  <2>4. Matches(S.vol, G, ch, tb, pt, W)
    BY <1>1, <2>3, SameViews
  <2> QED
    BY <2>4 DEF G
<1>11. Faithful(S.vol, [F EXCEPT ![f] = o], W)
  BY <1>1, <1>10, <1>14 DEF Faithful, Intact, Whole
<1>12. o.open => DOMAIN o = FilFields
  BY <1>3 DEF OpenedAt
<1>13. Typed([F EXCEPT ![f] = o])
  BY <1>12, TypedStays
<1> QED
  BY <1>5, <1>11, <1>13 DEF o

\* Cluster 0 stands for the root.
LEMMA HeadOf ==
    ASSUME NEW tb, NEW h \in DOMAIN tb, 0 \notin DOMAIN tb, NEW dc, dc = (IF h = Root THEN 0 ELSE h)
    PROVE  h = (IF dc = 0 THEN Root ELSE dc)
BY DEF Root

\* The slot f_open goes on with.
Ready(d, gone, D, F, p, W) ==
    \E ch, tb, pt, h : /\ Window(d, gone, D.s) /\ Spot(D.s.vol, D, F, ch, tb, pt, h, p, W)
                       /\ Unused(F, tb, pt, h, D.pos) /\ Entry(D) = tb[h][D.pos]

\* A file that was found may be opened.
LEMMA FoundReady ==
    ASSUME NEW d, NEW gone, NEW vol, NEW D, NEW F, NEW ch, NEW tb, NEW pt, NEW W, Intact(vol, F, ch, tb, pt, W),
           NEW p, IsSeq(p), Lone(F, p),
           Followed(d, gone, vol, ch, tb, pt, p, D), D.res = "OK", ~Entry(D).dir
    PROVE  Ready(d, gone, D, F, p, W)
<1>1. Window(d, gone, D.s) /\ D.s.vol = vol
  BY DEF Followed
<1>2. PICK h : Finds(D, ch, tb, pt, p, h)
  BY DEF Followed
<1>3. Listed(tb, h, D.pos) /\ Entry(D) = tb[h][D.pos] /\ Path(tb, pt, h, D.pos) = p /\ D.chain = ch[h]
  BY <1>2 DEF Finds
<1>4. Spot(D.s.vol, D, F, ch, tb, pt, h, p, W)
  BY <1>1, <1>3 DEF Spot, IsFile
<1>5. Unused(F, tb, pt, h, D.pos)
  BY <1>3, LoneUnused
<1> QED
  BY <1>1, <1>3, <1>4, <1>5 DEF Ready

\* A file that was made may be opened.
LEMMA MadeReady ==
    ASSUME NEW d, NEW gone, NEW vol, NEW G, NEW F, NEW ch, NEW tb, NEW pt, NEW W, Intact(vol, F, ch, tb, pt, W),
           NEW p, Followed(d, gone, vol, ch, tb, pt, p, G), G.res = "NO_FILE",
           NEW D, D = dir_register(G.s, G.dc, Last(p))
    PROVE  /\ D.pos = 0 => Faithful(D.s.vol, F, W)
           /\ D.pos # 0 => Ready(d, gone, D, F, p, With(W, p, File(<<>>)))
<1> DEFINE n == Last(p)
           S == G.s
           dc == G.dc
<1>1. /\ Window(d, gone, S) /\ S.vol = vol /\ Stored(vol, ch, tb) /\ Tree(tb, pt) /\ FilesForm(F, ch, tb, pt, {})
      /\ Sane(tb) /\ 0 \notin DOMAIN tb /\ Matches(vol, F, ch, tb, pt, W)
  BY HeadsAre, TreeIs DEF Followed, Intact, Whole, TreeForm, Stored
<1>2. PICK h : Lacks(G, ch, tb, pt, p, h)
  BY DEF Followed
<1>3. h \in DOMAIN tb /\ h = (IF dc = 0 THEN Root ELSE dc)
  BY <1>1, <1>2, HeadOf DEF Lacks
<1>4. Append(pt[h], n) = p /\ \A i : Listed(tb, h, i) => NameAt(tb[h], i) # n
  BY <1>2 DEF Lacks
<1> HIDE DEF n, S, dc
<1>5. PICK ch2, tb2 : Enters(d, gone, S.vol, dir_register(S, dc, n), ch, ch2, tb, tb2, h, n)
  BY <1>1, <1>3, EntersIs
<1>6. Enters(d, gone, vol, D, ch, ch2, tb, tb2, h, n)
  BY <1>1, <1>5 DEF S, dc, n
<1>7. ASSUME D.pos = 0 PROVE Faithful(D.s.vol, F, W)
  <2>1. Intact(D.s.vol, F, ch2, tb2, pt, W)
    BY <1>1, <1>6, <1>7, EntersNot
  <2> QED
    BY <2>1 DEF Faithful
<1>8. ASSUME D.pos # 0 PROVE Ready(d, gone, D, F, p, With(W, p, File(<<>>)))
  <2> DEFINE W2 == With(W, p, File(<<>>))
  <2>6. Intact(D.s.vol, F, ch2, tb2, pt, With(W, Append(pt[h], n), File(<<>>)))
    BY <1>1, <1>4, <1>6, <1>8, EntersFile
  <2>1. Intact(D.s.vol, F, ch2, tb2, pt, W2)
    BY <1>4, <2>6
  <2> HIDE DEF W2
  <2>2. Unused(F, tb2, pt, h, D.pos)
    BY <1>1, <1>4, <1>6, <1>8, EntersFile
  <2>3. /\ Window(d, gone, D.s) /\ D.chain = ch2[h] /\ IsFile(tb2, h, D.pos) /\ Entry(D) = tb2[h][D.pos]
        /\ NameAt(tb2[h], D.pos) = n
    BY <1>6, <1>8 DEF Enters
  <2>4. Path(tb2, pt, h, D.pos) = p
    BY <1>4, <2>3 DEF Path
  <2>5. Spot(D.s.vol, D, F, ch2, tb2, pt, h, p, W2)
    BY <2>1, <2>3, <2>4 DEF Spot
  <2> QED
    BY <2>2, <2>3, <2>5 DEF Ready, W2
<1> QED
  BY <1>7, <1>8

\* A file made empty twice is empty.
LEMMA WithTwice ==
    ASSUME NEW W, NEW p, NEW y
    PROVE  With(With(W, p, y), p, y) = With(W, p, y)
BY DEF With

\* The volume S and what the callers have put, when the file at p was emptied and when it was not.
Either(S, D, W2, W, p) == (S = D.s /\ W2 = W) \/ (S = Emptied(D) /\ W2 = With(W, p, File(<<>>)))

\* The two together with the choice to empty it.
LEMMA ReadyOpens ==
    ASSUME NEW d, NEW gone, NEW D, NEW F, NEW p, NEW W, Ready(d, gone, D, F, p, W), Typed(F), NEW f \in Fil, ~F[f].open,
           NEW m, NEW S, NEW W2, Either(S, D, W2, W, p)
    PROVE  /\ Faithful(Opened(S, D, p, m).s.vol, [F EXCEPT ![f] = Opened(S, D, p, m).fil], W2)
           /\ Typed([F EXCEPT ![f] = Opened(S, D, p, m).fil])
<1>1. PICK ch, tb, pt, h : /\ Window(d, gone, D.s) /\ Spot(D.s.vol, D, F, ch, tb, pt, h, p, W)
                           /\ Unused(F, tb, pt, h, D.pos) /\ Entry(D) = tb[h][D.pos]
  BY DEF Ready
<1>2. Window(d, gone, S)
  BY <1>1, EmptiedKeeps DEF Either
<1>3. PICK ch2, tb2 : Spot(S.vol, D, F, ch2, tb2, pt, h, p, W2) /\ Unused(F, tb2, pt, h, D.pos)
  <2>1. CASE S = D.s /\ W2 = W
    BY <1>1, <2>1
  <2>2. CASE S = Emptied(D) /\ W2 = With(W, p, File(<<>>))
    <3>1. PICK ch2, tb2 : /\ Spot(Emptied(D).vol, D, F, ch2, tb2, pt, h, p, With(W, p, File(<<>>)))
                          /\ Unused(F, tb2, pt, h, D.pos)
      BY <1>1, EmptiedIs
    <3> QED
      BY <2>2, <3>1
  <2> QED
    BY <2>1, <2>2 DEF Either
<1> QED
  BY <1>2, <1>3, OpenedIs

\* f_open keeps the shape; a file that is made or emptied is there without data.
LEMMA OpenIs ==
    ASSUME NEW ch, NEW tb, NEW pt, Intact(lib.vol, fil, ch, tb, pt, want), Typed(fil), WindowInv,
           NEW f \in Fil, NEW p, IsSeq(p), p # <<>>, NEW m, f_open(f, p, m)
    PROVE  Faithful(lib'.vol, fil', want') /\ Typed(fil')
<1> DEFINE F == follow_path(lib, p)
           D == IF F.res = "OK" THEN F ELSE dir_register(F.s, F.dc, Last(p))
           mode == IF F.res = "OK" THEN m ELSE m \cup {"FA_CREATE_ALWAYS"}
           new == "FA_CREATE_ALWAYS" \in mode
           E == IF new THEN Emptied(D) ELSE D.s
           O == Opened(E, D, p, mode)
           made == With(want, p, File(<<>>))
<1>1. Stored(lib.vol, ch, tb) /\ Tree(tb, pt) /\ Window(disk, crashed, lib) /\ Faithful(lib.vol, fil, want)
  BY DEF Intact, Whole, Faithful, WindowInv
<1>2. /\ ~fil[f].open
      /\ \/ lib' = F.s /\ fil' = fil /\ want' = want
         \/ Refusal(F, m) = "OK" /\ D.pos = 0 /\ lib' = D.s /\ fil' = fil /\ want' = want
         \/ /\ Refusal(F, m) = "OK" /\ D.pos # 0 /\ lib' = O.s /\ fil' = [fil EXCEPT ![f] = O.fil]
            /\ want' = IF new THEN made ELSE want
  BY DEF f_open, Done
<1>3. Lone(fil, p)
  BY DEF f_open, Legal, OpenFils, Lone
<1>4. Followed(disk, crashed, lib.vol, ch, tb, pt, p, F)
  BY <1>1, FollowFinds
<1>5. (E = D.s /\ ~new) \/ (E = Emptied(D) /\ new)
  OBVIOUS
<1>6. (F.res = "OK" /\ D = F) \/ (F.res # "OK" /\ D = dir_register(F.s, F.dc, Last(p)) /\ new)
  OBVIOUS
<1>12. With(made, p, File(<<>>)) = made
  BY WithTwice
<1>13. made = With(want, p, File(<<>>))
  OBVIOUS
<1> HIDE DEF F, D, mode, new, E, made
<1>7. F.s.vol = lib.vol
  BY <1>4 DEF Followed
<1>8. ASSUME Refusal(F, m) = "OK"
      PROVE  /\ D.pos = 0 => Faithful(D.s.vol, fil, want)
             /\ D.pos # 0 => \E W : Ready(disk, crashed, D, fil, p, W) /\ (W = want \/ (W = made /\ new))
  <2>1. CASE F.res = "OK"
    <3>1. ~Entry(D).dir /\ D.res = "OK" /\ D = F
      BY <1>6, <1>8, <2>1 DEF Refusal
    <3>2. Ready(disk, crashed, D, fil, p, want)
      BY <1>3, <1>4, <3>1, FoundReady
    <3>3. Faithful(D.s.vol, fil, want)
      BY <1>1, <1>7, <3>1
    <3> QED
      BY <3>2, <3>3
  <2>2. CASE F.res # "OK"
    <3>1. F.res = "NO_FILE" /\ D = dir_register(F.s, F.dc, Last(p)) /\ new
      BY <1>6, <1>8, <2>2 DEF Refusal
    <3>2. D.pos = 0 => Faithful(D.s.vol, fil, want)
      BY <1>4, <3>1, MadeReady
    <3>3. D.pos # 0 => Ready(disk, crashed, D, fil, p, made)
      BY <1>4, <3>1, MadeReady DEF made
    <3> QED
      BY <3>1, <3>2, <3>3
  <2> QED
    BY <2>1, <2>2
<1>9. CASE lib' = F.s /\ fil' = fil /\ want' = want
  BY <1>1, <1>7, <1>9
<1>10. CASE Refusal(F, m) = "OK" /\ D.pos = 0 /\ lib' = D.s /\ fil' = fil /\ want' = want
  BY <1>8, <1>10
<1>11. CASE /\ Refusal(F, m) = "OK" /\ D.pos # 0 /\ lib' = O.s /\ fil' = [fil EXCEPT ![f] = O.fil]
            /\ want' = IF new THEN made ELSE want
  <2>1. PICK W : Ready(disk, crashed, D, fil, p, W) /\ (W = want \/ (W = made /\ new))
    BY <1>8, <1>11
  <2> DEFINE W2 == IF new THEN made ELSE want
  <2>3. Either(E, D, W2, W, p)
    BY <1>5, <1>12, <1>13, <2>1 DEF Either
  <2> HIDE DEF W2
  <2>2. Faithful(O.s.vol, [fil EXCEPT ![f] = O.fil], W2)
    BY <1>2, <2>1, <2>3, ReadyOpens
  <2>4. Typed([fil EXCEPT ![f] = O.fil])
    BY <1>2, <2>1, <2>3, ReadyOpens
  <2> QED
    BY <1>11, <2>2, <2>4 DEF W2
<1> QED
  BY <1>2, <1>9, <1>10, <1>11

-----------------------------------------------------------------------------
(* f_mkdir.                                                                *)

\* The object in the slot i of the table at h is x now, with the name it had.
ObjectAt(w, ch, tb, h, i, x, tb2) ==
    /\ Stored(w, ch, tb2) /\ DOMAIN tb2 = DOMAIN tb /\ Sane(tb2) /\ Others(tb, tb2, h, i)
    /\ Listed(tb2, h, i) /\ tb2[h][i] = x /\ NameAt(tb2[h], i) = NameAt(tb[h], i)

\* PutSlot of an object under the name that was there.
LEMMA ObjectPut ==
    ASSUME NEW d, NEW gone, NEW S, Window(d, gone, S), NEW ch, NEW tb, Stored(S.vol, ch, tb), Sane(tb),
           NEW h, NEW i, Listed(tb, h, i), NEW s, s[At(i)] = ch[h][At(i)],
           NEW x, IsObject(x), x.sfn = tb[h][i].sfn
    PROVE  \E tb2 : ObjectAt(PutSlot(S, s, i, x).vol, ch, tb, h, i, x, tb2)
<1> DEFINE R == PutSlot(S, s, i, x)
           U == Put(tb[h], i, x)
           tb2 == Put(tb, h, U)
<1>1. h \in DOMAIN tb /\ i \in 1 .. Len(tb[h]) /\ tb[h][i].k = "sfn"
  BY DEF Listed
<1>2. WellFormed(tb[h])
  BY <1>1 DEF Sane
<1>3. IsTable(tb[h]) /\ Len(tb[h]) \in Nat
  BY <1>1, <1>2, TableOf, TableIs
<1>4. IsSeq(tb[h])
  BY <1>3 DEF IsTable
<1>5. Stored(R.vol, ch, tb2)
  BY <1>1, PutInTable DEF Put
<1>6. /\ Len(U) = Len(tb[h])
      /\ \A j \in 1 .. Len(tb[h]) : U[j] = IF j = i THEN x ELSE tb[h][j]
  BY <1>1, <1>4, PutIs
<1> HIDE DEF U
<1>7. Keeping(tb[h], U, {i}) /\ NameAt(U, i) = NameAt(tb[h], i)
  BY <1>1, <1>3, <1>6, Changed, ZenonT(30)
<1>8. KeepsBut(tb[h], U, i)
  BY <1>7 DEF KeepsBut
<1>9. DOMAIN tb2 = DOMAIN tb /\ Sane(tb2) /\ tb2[h] = U /\ Others(tb, tb2, h, i)
  <2>1. Others(tb, Put(tb, h, U), h, i)
    BY <1>1, <1>3, <1>8, PutSpot
  <2>2. Sane(tb2)
    BY <1>1, <1>3, <1>8, PutSpot
  <2>3. DOMAIN tb2 = DOMAIN tb
    BY <1>1, <1>3, <1>8, PutSpot
  <2>4. tb2[h] = U
    BY <1>1, <1>3, <1>8, PutSpot
  <2> QED
    BY <2>1, <2>2, <2>3, <2>4
<1> HIDE DEF tb2
<1>10. U[i] = x /\ i \in 1 .. Len(U)
  BY <1>1, <1>6
<1>11. Listed(tb2, h, i) /\ tb2[h][i] = x /\ NameAt(tb2[h], i) = NameAt(tb[h], i)
  BY <1>1, <1>7, <1>9, <1>10 DEF Listed, IsObject
<1>12. ObjectAt(R.vol, ch, tb, h, i, x, tb2)
  BY <1>5, <1>9, <1>11 DEF ObjectAt
<1> QED
  BY <1>12

\* Others is transitive.
LEMMA OthersBoth ==
    ASSUME NEW a, NEW b, NEW c, NEW h, NEW i, Others(a, b, h, i) \/ NoOther(a, b), Others(b, c, h, i) \/ NoOther(b, c)
    PROVE  Others(a, c, h, i)
<1> SUFFICES ASSUME NEW g, NEW k, ~(g = h /\ k = i) PROVE SameSpot(a, c, g, k)
  BY DEF Others
<1>1. SameSpot(a, b, g, k) /\ SameSpot(b, c, g, k)
  BY DEF Others, NoOther
<1> QED
  BY <1>1 DEF SameSpot

\* The state with a table at n that no directory has yet.
WithTable(v, w, ch, ch1, tb, tb1, n) ==
    /\ \A c \in Cluster : c # n => w[Data(c)] = v[Data(c)]
    /\ Stored(w, ch1, tb1) /\ Sane(tb1) /\ n \notin DOMAIN tb /\ n # 0 /\ n \notin DOMAIN ch
    /\ DOMAIN tb1 = DOMAIN tb \cup {n} /\ NoOther(tb, tb1) /\ \A j : ~Listed(tb1, n, j)
    /\ DOMAIN ch1 = DOMAIN ch \cup {n} /\ \A g \in DOMAIN ch : ch1[g] = ch[g]

\* A new table has its two entries and no object.
LEMMA DotsAre ==
    ASSUME NEW c, NEW dc
    PROVE  /\ "tab" \in DOMAIN Dots(c, dc) /\ DOMAIN Dots(c, dc).tab = 1 .. SPS
           /\ Len(Dots(c, dc).tab) = SPS /\ Dots(c, dc).tab[2].k = "dots"
           /\ WellFormed(Dots(c, dc).tab)
           /\ \A i \in 1 .. SPS : Dots(c, dc).tab[i].k # "sfn"
<1> DEFINE T == [i \in 1 .. SPS |-> CASE i = 1 -> [k |-> "dot", clust |-> c]
                                      [] i = 2 -> [k |-> "dots", clust |-> dc]
                                      [] OTHER -> [k |-> "end"]]
<1>1. SPS \in Nat /\ 2 \in 1 .. SPS /\ 1 \in 1 .. SPS
  BY FatAssumption
<1>2. Dots(c, dc) = [tab |-> T]
  BY DEF Dots
<1>3. /\ T = [i \in 1 .. SPS |-> T[i]]
      /\ \A i \in 1 .. SPS : T[i].k \in {"dot", "dots", "end"}
      /\ \A i \in 1 .. SPS : T[i].k = "end" <=> i # 1 /\ i # 2
      /\ \A i \in 1 .. SPS : T[i].k = "end" => T[i] = [k |-> "end"]
      /\ T[2].k = "dots"
  BY <1>1
<1> HIDE DEF T
<1>4. Len(T) = SPS /\ DOMAIN T = 1 .. SPS
  BY <1>1, <1>3
<1>5. WellFormed(T)
  <2>1. ASSUME NEW i \in 1 .. Len(T), T[i].k = "end"
        PROVE  T[i] = [k |-> "end"] /\ \A j \in i .. Len(T) : T[j].k = "end"
    BY <1>1, <1>3, <1>4, <2>1
  <2>2. \A i \in 1 .. Len(T) : T[i].k # "lfn" /\ T[i].k # "sfn"
    BY <1>3, <1>4
  <2> QED
    BY <2>1, <2>2 DEF WellFormed
<1>6. \A i \in 1 .. SPS : T[i].k # "sfn"
  BY <1>3
<1>7. Dots(c, dc).tab = T /\ "tab" \in DOMAIN Dots(c, dc)
  BY <1>2
<1> QED
  BY <1>3, <1>4, <1>5, <1>6, <1>7

\* The table f_mkdir writes to its new cluster.
LEMMA NewTable ==
    ASSUME NEW d, NEW gone, NEW S, Window(d, gone, S), NEW ch, NEW ch1, NEW tb, NEW n, Sane(tb), NEW v,
           Stored(v, ch, tb), Begun(S.vol, ch, ch1, tb, n), Aside(v, S.vol), NEW dc, NEW N, N = Dirty(dir_clear(S, n), Dots(n, dc))
    PROVE  Window(d, gone, N) /\ \E tb1 : WithTable(v, N.vol, ch, ch1, tb, tb1, n)
<1> DEFINE T == dir_clear(S, n)
           X == Dots(n, dc)
           tb1 == With(tb, n, X.tab)
<1>1. /\ Stored(S.vol, ch1, tb) /\ n \in Cluster /\ n \notin DOMAIN ch /\ DOMAIN ch1 = DOMAIN ch \cup {n}
      /\ ch1[n] = <<n>> /\ \A g \in DOMAIN ch : ch1[g] = ch[g]
  BY DEF Begun
<1>2. DOMAIN tb \subseteq DOMAIN ch /\ n \notin DOMAIN tb /\ n # 0
  BY <1>1, Sizes DEF Stored, Cluster
<1>3. /\ Window(d, gone, T) /\ T.sect = Data(n) /\ T.vol = [S.vol EXCEPT ![Data(n)] = EmptyTable]
      /\ Data(n) \in DOMAIN S.vol
  BY <1>1, ClearIs
<1>4. Window(d, gone, N)
  BY <1>3, Apart, DirtyWindow
<1>5. N.vol[Data(n)] = X /\ \A s \in Sector : s # Data(n) => N.vol[s] = S.vol[s]
  <2> HIDE DEF X, T
  <2>1. N = [T EXCEPT !.vol[T.sect] = X, !.wf = TRUE]
    BY DEF Dirty, T, X
  <2>2. DOMAIN T = Fields
    BY <1>3 DEF Window, Through
  <2>3. N.vol = [T.vol EXCEPT ![T.sect] = X]
    BY <2>1, <2>2 DEF Fields
  <2>4. DOMAIN S.vol = Sector
    BY DEF Window, Through
  <2> QED
    BY <1>3, <2>3, <2>4
<1> HIDE DEF T
<1>6. Stored(N.vol, ch1, tb)
  <2> DEFINE w == N.vol
  <2>1. n \in DOMAIN ch1 /\ 1 \in 1 .. Len(ch1[n]) /\ ch1[n][1] = n
    BY <1>1
  <2>2. \A s \in Sector : s # Data(ch1[n][1]) => w[s] = S.vol[s]
    BY <1>5, <2>1
  <2> HIDE DEF w
  <2>3. Stored(w, ch1, tb)
    <3> DEFINE one == 1
    <3>1. one \in 1 .. Len(ch1[n]) /\ \A s \in Sector : s # Data(ch1[n][one]) => w[s] = S.vol[s]
      BY <2>1, <2>2
    <3> HIDE DEF one
    <3> QED
      BY <1>1, <1>2, <2>1, <3>1, DataWritten, ZenonT(30)
  <2> QED
    BY <2>3 DEF w
<1>7. DOMAIN tb1 = DOMAIN tb \cup {n} /\ tb1[n] = X.tab /\ \A g \in DOMAIN tb : tb1[g] = tb[g]
  BY <1>2 DEF With
<1> HIDE DEF tb1
<1>8. /\ "tab" \in DOMAIN X /\ DOMAIN X.tab = 1 .. SPS /\ Len(X.tab) = SPS /\ X.tab[2].k = "dots"
      /\ WellFormed(X.tab) /\ \A i \in 1 .. SPS : X.tab[i].k # "sfn"
      /\ X.tab = [i \in 1 .. SPS |-> X.tab[i]]
  <2>1. X.tab = [i \in 1 .. SPS |-> X.tab[i]]
    BY DEF Dots
  <2> QED
    BY <2>1, DotsAre
<1> HIDE DEF X
<1>9. Stored(N.vol, ch1, tb1)
  <2>1. Chains(N.vol, ch1) /\ DOMAIN tb1 \subseteq DOMAIN ch1
    BY <1>1, <1>2, <1>6, <1>7 DEF Stored
  <2>2. Tabled(N.vol, n)
    BY <1>5, <1>8 DEF Tabled
  <2>3. Slots(N.vol, <<n>>) = X.tab
    <3> DEFINE s == <<n>>
    <3>1. s \in Seq(Cluster) /\ Len(s) = 1 /\ s[1] = n
      BY <1>1
    <3>2. Len(s) * SPS = SPS
      BY <3>1, FatAssumption
    <3> HIDE DEF s
    <3>3. \A i \in 1 .. SPS : N.vol[Data(s[At(i)])].tab[In(i)] = X.tab[i]
      BY <1>5, <3>1, FirstPositions
    <3>4. Slots(N.vol, s) = [i \in 1 .. SPS |-> N.vol[Data(s[At(i)])].tab[In(i)]]
      BY <3>2 DEF Slots
    <3>5. Slots(N.vol, s) = X.tab
      BY <1>8, <3>3, <3>4
    <3> QED
      BY <3>5 DEF s
  <2>4. /\ \A j \in 1 .. Len(ch1[n]) : Tabled(N.vol, ch1[n][j])
        /\ tb1[n] = Slots(N.vol, ch1[n])
    BY <1>1, <1>7, <2>2, <2>3
  <2>5. \A h \in DOMAIN tb : /\ \A j \in 1 .. Len(ch1[h]) : Tabled(N.vol, ch1[h][j])
                             /\ tb1[h] = Slots(N.vol, ch1[h])
    BY <1>6, <1>7 DEF Stored
  <2> QED
    BY <1>7, <2>1, <2>4, <2>5 DEF Stored
<1>10. Sane(tb1)
  BY <1>7, <1>8 DEF Sane
<1>11. \A j : ~Listed(tb1, n, j)
  BY <1>7, <1>8 DEF Listed
<1>12. NoOther(tb, tb1)
  <2> SUFFICES ASSUME NEW a, NEW k PROVE SameSpot(tb, tb1, a, k)
    BY DEF NoOther
  <2>1. CASE a = n
    BY <1>2, <1>11, <2>1 DEF SameSpot, IsDir, IsFile, Listed
  <2>2. CASE a # n
    <3>1. a \in DOMAIN tb1 <=> a \in DOMAIN tb
      BY <1>7, <2>2
    <3>2. a \in DOMAIN tb => tb1[a] = tb[a]
      BY <1>7
    <3> QED
      BY <3>1, <3>2 DEF SameSpot, IsDir, IsFile, Listed
  <2> QED
    BY <2>1, <2>2
<1>14. \A c \in Cluster : c # n => N.vol[Data(c)] = v[Data(c)]
  <2> SUFFICES ASSUME NEW c \in Cluster, c # n PROVE N.vol[Data(c)] = v[Data(c)]
    OBVIOUS
  <2>1. Data(c) # Data(n) /\ Data(c) \in Sector
    BY DEF Data, Sector
  <2>2. N.vol[Data(c)] = S.vol[Data(c)]
    BY <1>5, <2>1
  <2>3. S.vol[Data(c)] = v[Data(c)]
    BY DEF Aside
  <2> QED
    BY <2>2, <2>3
<1>13. WithTable(v, N.vol, ch, ch1, tb, tb1, n)
  BY <1>14, <1>1, <1>2, <1>7, <1>9, <1>10, <1>11, <1>12 DEF WithTable
<1> QED
  BY <1>4, <1>13

\* sync_fs keeps the shape.
LEMMA FaithfulSync ==
    ASSUME NEW d, NEW gone, NEW S, Window(d, gone, S), NEW F, NEW W, Faithful(S.vol, F, W)
    PROVE  Faithful(sync_fs(S).vol, F, W)
<1>1. PICK ch, tb, pt : Intact(S.vol, F, ch, tb, pt, W)
  BY DEF Faithful
<1>2. Intact(sync_fs(S).vol, F, ch, tb, pt, W)
  BY <1>1, SyncFsIntact
<1> QED
  BY <1>2 DEF Faithful

\* What lies in the chains and the tables while there is a table at n without entry.
LEMMA TableHeld ==
    ASSUME NEW v, NEW ch, NEW tb, Stored(v, ch, tb), NEW w, NEW ch1, NEW tb1, NEW n,
           WithTable(v, w, ch, ch1, tb, tb1, n), NEW h \in DOMAIN tb, NEW ch2, Longer(ch1, ch2, h)
    PROVE  /\ \A a, k : IsFile(tb, a, k) => ch2[a][At(k)] = ch[a][At(k)]
           /\ DOMAIN ch2 = DOMAIN ch \cup {n} /\ DOMAIN tb \subseteq DOMAIN ch
           /\ \A e : e \in DOMAIN ch /\ e \notin DOMAIN tb => ch2[e] = ch[e]
           /\ 0 \notin DOMAIN ch /\ 0 \notin DOMAIN ch2 /\ 0 \notin DOMAIN tb
<1>1. /\ Stored(w, ch1, tb1) /\ n \notin DOMAIN tb /\ n # 0 /\ n \notin DOMAIN ch
      /\ DOMAIN tb1 = DOMAIN tb \cup {n} /\ NoOther(tb, tb1)
      /\ DOMAIN ch1 = DOMAIN ch \cup {n} /\ \A g \in DOMAIN ch : ch1[g] = ch[g]
  BY DEF WithTable
<1>2. 0 \notin DOMAIN ch /\ DOMAIN tb \subseteq DOMAIN ch
  BY HeadsAre DEF Stored
<1>3. DOMAIN ch2 = DOMAIN ch1 /\ \A g \in DOMAIN ch1 : g # h => ch2[g] = ch1[g]
  BY DEF Longer
<1>4. h \in DOMAIN tb1
  BY <1>1
<1>5. \A a, k : IsFile(tb1, a, k) => ch2[a][At(k)] = ch1[a][At(k)]
  BY <1>1, <1>4, GrownFiles
<1>6. ASSUME NEW a, NEW k, IsFile(tb, a, k) PROVE ch2[a][At(k)] = ch[a][At(k)]
  <2>1. IsFile(tb1, a, k) /\ a \in DOMAIN tb
    BY <1>1, <1>6 DEF NoOther, SameSpot, IsFile, Listed
  <2> QED
    BY <1>1, <1>2, <1>5, <2>1
<1> QED
  BY <1>1, <1>2, <1>3, <1>6

\* What was written to make the table and to enter a name is on no chain of a file.
LEMMA TableWrites ==
    ASSUME NEW v, NEW F, NEW ch, NEW tb, NEW pt, NEW W, Intact(v, F, ch, tb, pt, W), NEW w, NEW ch1, NEW tb1, NEW n,
           WithTable(v, w, ch, ch1, tb, tb1, n), NEW d, NEW gone, NEW D, NEW ch2, NEW tb2, NEW h \in DOMAIN tb,
           NEW m, Enters(d, gone, w, D, ch1, ch2, tb1, tb2, h, m)
    PROVE  \E X : Only(v, D.s.vol, X) /\ Spares(F, ch, tb, pt, X) /\ OnIt(ch2[h]) \subseteq X
<1> DEFINE none == {}
           X == OnIt(ch2[h]) \cup {n}
<1>1. /\ Stored(v, ch, tb) /\ FilesForm(F, ch, tb, pt, none) /\ n \notin DOMAIN tb /\ n # 0 /\ n \notin DOMAIN ch
      /\ DOMAIN ch1 = DOMAIN ch \cup {n} /\ \A g \in DOMAIN ch : ch1[g] = ch[g]
  BY DEF Intact, Whole, WithTable
<1>2. /\ Stored(D.s.vol, ch2, tb2) /\ DOMAIN ch2 = DOMAIN ch1 /\ \A g \in DOMAIN ch1 : g # h => ch2[g] = ch1[g]
      /\ Only(w, D.s.vol, OnIt(ch2[h]))
  BY DEF Enters, Longer
<1>3. Only(v, D.s.vol, X)
  BY <1>2 DEF Only, WithTable
<1>4. Chains(D.s.vol, ch2) /\ DOMAIN tb \subseteq DOMAIN ch
  BY <1>1, <1>2 DEF Stored
<1> HIDE DEF none
<1>5. Spares(F, ch, tb, pt, X)
  <2> SUFFICES ASSUME NEW a, NEW k, IsFile(tb, a, k), FirstAt(F, tb, pt, a, k) # 0, NEW x \in X,
                      On(ch[FirstAt(F, tb, pt, a, k)], x)
               PROVE  FALSE
    BY DEF Spares
  <2> DEFINE c == FirstAt(F, tb, pt, a, k)
  <2>1. c \in DOMAIN ch /\ c \notin DOMAIN tb
    BY <1>1 DEF FilesForm, Held
  <2>2. On(ch[c], x)
    OBVIOUS
  <2> HIDE DEF c
  <2>3. c # h /\ c # n /\ ch2[c] = ch[c] /\ c \in DOMAIN ch2 /\ h \in DOMAIN ch2 /\ n \in DOMAIN ch2 /\ h # n
    BY <1>1, <1>2, <1>4, <2>1
  <2>4. On(ch2[c], x)
    BY <2>2, <2>3
  <2>5. CASE x \in OnIt(ch2[h])
    <3>1. x \in Cluster /\ On(ch2[h], x)
      BY <1>4, <2>3, <2>5, ChainHas DEF OnIt, On
    <3> QED
      BY <1>4, <2>3, <2>4, <3>1 DEF Chains
  <2>6. CASE x = n
    <3>1. ch2[n][1] = n /\ Len(ch2[n]) \in Nat \ {0} /\ ch2[n] \in Seq(Cluster)
      BY <1>4, <2>3, ChainHas
    <3>2. n \in Cluster /\ On(ch2[n], n)
      BY <3>1 DEF On
    <3> QED
      BY <1>4, <2>3, <2>4, <2>6, <3>2 DEF Chains
  <2> QED
    BY <2>5, <2>6
<1> QED
  BY <1>3, <1>5

\* A directory that was not entered gives its cluster back.
LEMMA NotMade ==
    ASSUME NEW v, NEW F, NEW ch, NEW tb, NEW pt, NEW W, Intact(v, F, ch, tb, pt, W), NEW w, NEW ch1, NEW tb1, NEW n,
           WithTable(v, w, ch, ch1, tb, tb1, n), NEW d, NEW gone, NEW D, NEW ch2, NEW tb2, NEW h \in DOMAIN tb,
           NEW m, Enters(d, gone, w, D, ch1, ch2, tb1, tb2, h, m), D.pos = 0
    PROVE  Faithful(Withdrawn(D.s, n).vol, F, W)
<1> DEFINE tb3 == Without(tb2, {n})
           none == {}
           E == {n}
<1>1. /\ Stored(v, ch, tb) /\ Tree(tb, pt) /\ FilesForm(F, ch, tb, pt, none) /\ Chains(v, ch)
      /\ Matches(v, F, ch, tb, pt, W)
      /\ n \notin DOMAIN tb /\ n # 0 /\ n \notin DOMAIN ch /\ DOMAIN tb1 = DOMAIN tb \cup {n} /\ NoOther(tb, tb1)
      /\ \A j : ~Listed(tb1, n, j)
  BY DEF Intact, Whole, WithTable, Stored
<1>2. /\ Window(d, gone, D.s) /\ Stored(D.s.vol, ch2, tb2) /\ DOMAIN tb2 = DOMAIN tb1 /\ Sane(tb2)
      /\ Longer(ch1, ch2, h) /\ NoOther(tb1, tb2)
  BY DEF Enters
<1>3. DOMAIN tb3 = DOMAIN tb /\ \A g \in DOMAIN tb : tb3[g] = tb2[g]
  BY <1>1, <1>2 DEF Without
<1>4. \A e : e \in E <=> e = n
  OBVIOUS
<1>5. \A e : e \notin none
  OBVIOUS
<1> HIDE DEF tb3, none, E
<1>6. Sane(tb3)
  BY <1>1, <1>2, <1>3 DEF Sane
<1>7. NoOther(tb, tb3)
  <2> SUFFICES ASSUME NEW a, NEW k PROVE SameSpot(tb, tb3, a, k)
    BY DEF NoOther
  <2>1. SameSpot(tb, tb1, a, k) /\ SameSpot(tb1, tb2, a, k)
    BY <1>1, <1>2 DEF NoOther
  <2>2. SameSpot(tb, tb2, a, k)
    BY <2>1 DEF SameSpot
  <2>3. CASE a \in DOMAIN tb
    <3>1. a \in DOMAIN tb3 /\ a \in DOMAIN tb2 /\ tb3[a] = tb2[a]
      BY <1>1, <1>2, <1>3, <2>3
    <3>2. SameSpot(tb2, tb3, a, k)
      BY <3>1 DEF SameSpot, IsDir, IsFile, Listed
    <3> QED
      BY <2>2, <3>2 DEF SameSpot
  <2>4. CASE a \notin DOMAIN tb
    BY <1>3, <2>4 DEF SameSpot, IsDir, IsFile, Listed
  <2> QED
    BY <2>3, <2>4
<1>8. Tree(tb3, pt)
  BY <1>1, <1>3, <1>6, <1>7, TreeNone
<1>9. Stored(D.s.vol, ch2, tb3)
  BY <1>1, <1>2, <1>3 DEF Stored
<1>10. /\ \A a, k : IsFile(tb, a, k) => ch2[a][At(k)] = ch[a][At(k)]
       /\ DOMAIN ch2 = DOMAIN ch \cup {n} /\ DOMAIN tb \subseteq DOMAIN ch
       /\ \A e : e \in DOMAIN ch /\ e \notin DOMAIN tb => ch2[e] = ch[e]
       /\ 0 \notin DOMAIN ch /\ 0 \notin DOMAIN ch2 /\ 0 \notin DOMAIN tb
  BY <1>1, <1>2, TableHeld
<1>11. \A e : /\ e \in Held(ch2, tb3, E) <=> e \in Held(ch, tb, none)
              /\ e \in Held(ch, tb, none) => ch2[e] = ch[e]
  BY <1>1, <1>3, <1>4, <1>5, <1>10 DEF Held
<1>12. HandChanges(ch, tb, pt, none, ch2, tb3, pt, E)
  BY <1>7, <1>10, <1>11 DEF HandChanges, NoOther
<1>13. FilesForm(F, ch2, tb3, pt, E)
  BY <1>1, <1>8, <1>10, <1>12, HandPasses
<1>14. InHand(D.s.vol, F, ch2, tb3, pt, E, n)
  BY <1>1, <1>3, <1>4, <1>8, <1>9, <1>10, <1>13 DEF InHand
<1>17. PICK X : Only(v, D.s.vol, X) /\ Spares(F, ch, tb, pt, X)
  BY TableWrites
<1>18. Matches(D.s.vol, F, ch2, tb3, pt, W)
  BY <1>1, <1>12, <1>17, HandMatches
<1>15. Kept(Given(D.s, n).vol, F, ch2, tb3, pt, W)
  <2> DEFINE S == D.s
  <2>1. Window(d, gone, S) /\ InHand(S.vol, F, ch2, tb3, pt, E, n) /\ Matches(S.vol, F, ch2, tb3, pt, W)
    BY <1>2, <1>14, <1>18
  <2> HIDE DEF S
  <2>2. Kept(Given(S, n).vol, F, ch2, tb3, pt, W)
    BY <2>1, DropWhole
  <2> QED
    BY <2>2 DEF S
<1>16. Given(D.s, n) = Withdrawn(D.s, n)
  BY <1>1 DEF Given, Withdrawn
<1> QED
  BY <1>15, <1>16 DEF Kept, Faithful

\* The entry of a directory at n in the slot D has registered.
Led(D, n) == PutSlot(D.s, D.chain, D.pos, [Entry(D) EXCEPT !.dir = TRUE, !.clust = n])

\* A directory that was entered keeps the shape.
LEMMA MadeDir ==
    ASSUME NEW v, NEW F, NEW ch, NEW tb, NEW pt, NEW W, Intact(v, F, ch, tb, pt, W), NEW w, NEW ch1, NEW tb1, NEW n,
           WithTable(v, w, ch, ch1, tb, tb1, n), NEW d, NEW gone, NEW D, NEW ch2, NEW tb2, NEW h \in DOMAIN tb,
           NEW m, Enters(d, gone, w, D, ch1, ch2, tb1, tb2, h, m), D.pos # 0,
           \A i : Listed(tb, h, i) => NameAt(tb[h], i) # m
    PROVE  Faithful(Led(D, n).vol, F, With(W, Append(pt[h], m), Directory))
<1> DEFINE none == {}
           i == D.pos
           x == [Entry(D) EXCEPT !.dir = TRUE, !.clust = n]
           R == PutSlot(D.s, D.chain, i, x)
           z == 0
<1>1. /\ Stored(v, ch, tb) /\ Tree(tb, pt) /\ FilesForm(F, ch, tb, pt, none) /\ Chains(v, ch)
      /\ Matches(v, F, ch, tb, pt, W)
      /\ n \notin DOMAIN tb /\ n # 0 /\ n \notin DOMAIN ch /\ DOMAIN tb1 = DOMAIN tb \cup {n} /\ NoOther(tb, tb1)
      /\ \A j : ~Listed(tb1, n, j)
  BY DEF Intact, Whole, WithTable, Stored
<1>2. /\ Window(d, gone, D.s) /\ Stored(D.s.vol, ch2, tb2) /\ DOMAIN tb2 = DOMAIN tb1 /\ Sane(tb2)
      /\ Longer(ch1, ch2, h) /\ D.chain = ch2[h] /\ Others(tb1, tb2, h, i) /\ ~Listed(tb1, h, i)
      /\ IsFile(tb2, h, i) /\ Entry(D) = tb2[h][i] /\ NameAt(tb2[h], i) = m
  BY DEF Enters
<1>3. IsObject(x) /\ x.sfn = tb2[h][i].sfn /\ x.dir /\ x.clust = n
  <2>1. IsObject(Entry(D))
    BY <1>2 DEF Sane, WellFormed, IsFile, Listed
  <2> QED
    BY <1>2, <2>1 DEF IsObject
<1>4. \A e : e \notin none
  OBVIOUS
<1>5. Listed(tb2, h, i) /\ ~Listed(tb, h, i)
  BY <1>1, <1>2 DEF IsFile, NoOther, SameSpot
<1> HIDE DEF i, x, none
<1>6. PICK tb3 : ObjectAt(R.vol, ch2, tb2, h, i, x, tb3)
  BY <1>2, <1>3, <1>5, ObjectPut
<1>7. /\ Stored(R.vol, ch2, tb3) /\ DOMAIN tb3 = DOMAIN tb \cup {n} /\ Sane(tb3) /\ Others(tb2, tb3, h, i)
      /\ Listed(tb3, h, i) /\ tb3[h][i] = x /\ NameAt(tb3[h], i) = m
  BY <1>1, <1>2, <1>6 DEF ObjectAt
<1> HIDE DEF R
<1>8. Others(tb, tb3, h, i)
  <2>1. Others(tb, tb2, h, i)
    BY <1>1, <1>2, OthersBoth
  <2> QED
    BY <1>7, <2>1, OthersBoth
<1>9. IsDir(tb3, h, i) /\ tb3[h][i].clust = n /\ ~IsFile(tb3, h, i) /\ ~IsFile(tb, h, i)
  BY <1>3, <1>5, <1>7 DEF IsDir, IsFile
<1>10. \A j : ~Listed(tb3, n, j)
  <2>1. \A j : SameSpot(tb, tb3, n, j)
    BY <1>1, <1>8 DEF Others
  <2>2. \A j : ~Listed(tb, n, j)
    BY <1>1 DEF Listed
  <2> QED
    BY <2>1, <2>2 DEF SameSpot
<1> DEFINE pt2 == [g \in DOMAIN tb \cup {n} |-> IF g = n THEN Append(pt[h], m) ELSE pt[g]]
<1>11. pt2[n] = Append(pt[h], m) /\ \A g \in DOMAIN tb : pt2[g] = pt[g]
  BY <1>1
<1> HIDE DEF pt2
<1>12. Tree(tb3, pt2)
  <2>1. Alike(tb, tb3, {<<h, i>>})
    BY <1>8, OthersIs
  <2>2. \A j : Listed(tb, h, j) => NameAt(tb[h], j) # NameAt(tb3[h], i)
    BY <1>7
  <2>3. pt2[n] = Append(pt[h], NameAt(tb3[h], i))
    BY <1>7, <1>11
  <2> QED
    BY <1>1, <1>5, <1>7, <1>9, <1>10, <1>11, <2>1, <2>2, <2>3, TreeGrows
<1>13. /\ \A a, k : IsFile(tb, a, k) => ch2[a][At(k)] = ch[a][At(k)]
       /\ DOMAIN ch2 = DOMAIN ch \cup {n} /\ DOMAIN tb \subseteq DOMAIN ch
       /\ \A e : e \in DOMAIN ch /\ e \notin DOMAIN tb => ch2[e] = ch[e]
       /\ 0 \notin DOMAIN ch /\ 0 \notin DOMAIN ch2 /\ 0 \notin DOMAIN tb
  BY <1>1, <1>2, TableHeld
<1>14. \A e : /\ e \in Held(ch2, tb3, none) <=> e \in Held(ch, tb, none)
              /\ e \in Held(ch, tb, none) => ch2[e] = ch[e]
  BY <1>1, <1>4, <1>7, <1>13 DEF Held
<1>15. \A a, k : IsFile(tb, a, k) => pt2[a] = pt[a]
  BY <1>11 DEF IsFile, Listed
<1>16. UnusedChanges(F, ch, tb, pt, none, ch2, tb3, pt2, none, h, i, z)
  <2>1. 0 \notin Held(ch2, tb3, none)
    BY <1>13 DEF Held
  <2> QED
    BY <1>8, <1>9, <1>13, <1>14, <1>15, <2>1 DEF UnusedChanges, Others
<1> HIDE DEF z
<1>17. FilesForm(F, ch2, tb3, pt2, none)
  BY <1>1, <1>12, <1>13, <1>16, UnusedPasses
<1>18. PICK X : Only(v, D.s.vol, X) /\ Spares(F, ch, tb, pt, X) /\ OnIt(ch2[h]) \subseteq X
  BY TableWrites
<1> DEFINE one == {D.chain[At(i)]}
<1>19. Only(v, R.vol, X)
  <2>1. Only(D.s.vol, R.vol, one)
    BY <1>2, PutOnly DEF R
  <2>2. one \subseteq X
    <3>1. h \in DOMAIN tb2 /\ i \in 1 .. Len(tb2[h])
      BY <1>2 DEF IsFile, Listed
    <3>2. At(i) \in 1 .. Len(ch2[h])
      BY <1>2, <3>1, TableIs
    <3> QED
      BY <1>2, <1>18, <3>2 DEF OnIt
  <2> HIDE DEF one
  <2>3. Only(D.s.vol, R.vol, X)
    BY <2>1, <2>2, OnlyMore
  <2> QED
    BY <1>18, <2>3, OnlyBoth
<1> DEFINE q == Append(pt[h], m)
           y == Directory
           W2 == With(W, q, y)
<1>20. q = Path(tb3, pt2, h, i) /\ (IsDir(tb3, h, i) => y = Directory) /\ (IsFile(tb3, h, i) => y = File(<<>>))
  BY <1>7, <1>9, <1>11 DEF Path
<1>21. (Listed(tb, h, i) => Path(tb, pt, h, i) = q) /\ \A a, k : Listed(tb, a, k) => pt2[a] = pt[a]
  BY <1>5, <1>11 DEF Listed
<1> HIDE DEF q, y
<1>22. OneChanged(tb, pt, W, tb3, pt2, W2, h, i)
  BY <1>1, <1>7, <1>8, <1>12, <1>20, <1>21, ChangedWith
<1> HIDE DEF W2
<1>23. Matches(R.vol, F, ch2, tb3, pt2, W2)
  BY <1>1, <1>16, <1>18, <1>19, <1>22, UnusedMatches
<1>24. Faithful(R.vol, F, W2)
  BY <1>7, <1>12, <1>17, <1>23 DEF Faithful, Intact, Whole, none
<1> QED
  BY <1>24 DEF Led, R, x, i, W2, q, y

\* f_mkdir keeps the shape.
LEMMA MkdirIs ==
    ASSUME NEW ch, NEW tb, NEW pt, Intact(lib.vol, fil, ch, tb, pt, want), Typed(fil), WindowInv,
           NEW p, IsSeq(p), p # <<>>, f_mkdir(p)
    PROVE  Faithful(lib'.vol, fil', want') /\ Typed(fil')
<1> DEFINE F == follow_path(lib, p)
           C == create_chain(F.s, 0)
           N == Dirty(dir_clear(C.s, C.n), Dots(C.n, F.dc))
           D == dir_register(N, F.dc, Last(p))
           x == [Entry(D) EXCEPT !.dir = TRUE, !.clust = C.n]
           P == PutSlot(D.s, D.chain, D.pos, x)
           made == With(want, p, Directory)
<1>1. /\ Stored(lib.vol, ch, tb) /\ Tree(tb, pt) /\ Window(disk, crashed, lib) /\ Faithful(lib.vol, fil, want)
      /\ Sane(tb) /\ 0 \notin DOMAIN tb
  BY HeadsAre, TreeIs DEF Intact, Whole, Faithful, WindowInv, TreeForm, Stored
<1>2. /\ fil' = fil
      /\ \/ lib' = F.s /\ want' = want
         \/ F.res = "NO_FILE" /\ C.n = 0 /\ lib' = C.s /\ want' = want
         \/ F.res = "NO_FILE" /\ C.n # 0 /\ D.pos = 0 /\ lib' = Withdrawn(D.s, C.n) /\ want' = want
         \/ F.res = "NO_FILE" /\ C.n # 0 /\ D.pos # 0 /\ lib' = sync_fs(P) /\ want' = made
  BY DEF f_mkdir, Done
<1>4. Followed(disk, crashed, lib.vol, ch, tb, pt, p, F)
  BY <1>1, FollowFinds
<1> HIDE DEF F, made
<1>5. F.s.vol = lib.vol /\ Window(disk, crashed, F.s)
  BY <1>4 DEF Followed
<1>6. \/ C.n = 0 /\ C.s.vol = lib.vol
      \/ \E ch1 : Begun(C.s.vol, ch, ch1, tb, C.n)
  BY <1>1, <1>5, Begins
<1>7. Window(disk, crashed, C.s)
  BY <1>5, CreateChain
<1>10. Aside(lib.vol, C.s.vol)
  BY <1>1, <1>5, CreateAside DEF Stored, Chains
<1> HIDE DEF C
<1>8. C.n = 0 => C.s.vol = lib.vol
  <2>1. ASSUME NEW ch1, Begun(C.s.vol, ch, ch1, tb, C.n) PROVE C.n # 0
    BY <2>1, Sizes DEF Begun, Cluster
  <2> QED
    BY <1>6, <2>1
<1>9. ASSUME F.res = "NO_FILE", C.n # 0
      PROVE  /\ D.pos = 0 => Faithful(Withdrawn(D.s, C.n).vol, fil, want)
             /\ D.pos # 0 => Faithful(sync_fs(P).vol, fil, made)
  <2>1. PICK ch1 : Begun(C.s.vol, ch, ch1, tb, C.n)
    BY <1>6, <1>9
  <2> DEFINE n == C.n
             S == C.s
             dc == F.dc
             m == Last(p)
  <2>2. /\ Window(disk, crashed, S) /\ Begun(S.vol, ch, ch1, tb, n) /\ N = Dirty(dir_clear(S, n), Dots(n, dc))
        /\ Aside(lib.vol, S.vol)
    BY <1>7, <1>10, <2>1
  <2> HIDE DEF N, S
  <2>3. Window(disk, crashed, N)
    BY <1>1, <2>2, NewTable
  <2>4. PICK tb1 : WithTable(lib.vol, N.vol, ch, ch1, tb, tb1, n)
    <3> HIDE DEF n
    <3> QED
      BY <1>1, <2>2, NewTable
  <2>5. PICK h : Lacks(F, ch, tb, pt, p, h)
    BY <1>4, <1>9 DEF Followed
  <2>6. h \in DOMAIN tb /\ h = (IF dc = 0 THEN Root ELSE dc) /\ \A i : Listed(tb, h, i) => NameAt(tb[h], i) # m
    BY <1>1, <2>5, HeadOf DEF Lacks
  <2>13. Append(pt[h], m) = p
    BY <2>5 DEF Lacks
  <2>7. Stored(N.vol, ch1, tb1) /\ Sane(tb1) /\ h \in DOMAIN tb1
    BY <2>4, <2>6 DEF WithTable
  <2> HIDE DEF n, m, dc
  <2>8. PICK ch2, tb2 : Enters(disk, crashed, N.vol, dir_register(N, dc, m), ch1, ch2, tb1, tb2, h, m)
    BY <2>3, <2>6, <2>7, EntersIs
  <2>9. Enters(disk, crashed, N.vol, D, ch1, ch2, tb1, tb2, h, m)
    BY <2>8 DEF dc, m
  <2>10. Window(disk, crashed, D.s)
    BY <2>9 DEF Enters
  <2> HIDE DEF D
  <2>11. ASSUME D.pos = 0 PROVE Faithful(Withdrawn(D.s, n).vol, fil, want)
    BY <2>4, <2>6, <2>9, <2>11, NotMade
  <2>12. ASSUME D.pos # 0 PROVE Faithful(sync_fs(P).vol, fil, made)
    <3>4. Faithful(Led(D, n).vol, fil, With(want, Append(pt[h], m), Directory))
      BY <2>4, <2>6, <2>9, <2>12, MadeDir
    <3>1. Faithful(Led(D, n).vol, fil, made)
      BY <2>13, <3>4 DEF made
    <3>2. Faithful(P.vol, fil, made)
      BY <3>1 DEF Led, n
    <3>3. Window(disk, crashed, P)
      BY <2>10, PutSlotKeeps
    <3> HIDE DEF P
    <3> QED
      BY <3>2, <3>3, FaithfulSync
  <2> QED
    BY <2>11, <2>12 DEF n
<1> QED
  BY <1>1, <1>2, <1>5, <1>8, <1>9

-----------------------------------------------------------------------------
(* f_rename.                                                               *)

\* The clusters of the tables.
OnTables(ch, tb) == {c \in Cluster : \E h \in DOMAIN tb : On(ch[h], c)}

\* The object of the slot i of h has become that of the slot j of g.
Renames(v, w, ch, ch2, tb, tb2, h, i, g, j, x, m) ==
    /\ Only(v, w, OnTables(ch2, tb)) /\ Stored(w, ch2, tb2) /\ Longer(ch, ch2, g) /\ g \in DOMAIN tb /\ DOMAIN tb2 = DOMAIN tb /\ Sane(tb2)
    /\ \A a, k : ~(a = h /\ k = i) /\ ~(a = g /\ k = j) => SameSpot(tb, tb2, a, k)
    /\ ~Listed(tb2, h, i) /\ Listed(tb, h, i) /\ ~Listed(tb, g, j)
    /\ Listed(tb2, g, j) /\ tb2[g][j] = x /\ NameAt(tb2[g], j) = m

\* The table of a moved directory gets a new "..".
Dotted(N, c, dc, really) == IF really THEN PutSlot(N, <<c>>, 2, [k |-> "dots", clust |-> dc]) ELSE N

Redotted(w, ch, tb, tb2) ==
    Stored(w, ch, tb2) /\ DOMAIN tb2 = DOMAIN tb /\ Sane(tb2) /\ NoOther(tb, tb2)

\* Another ".." changes no object.
LEMMA DotsPut ==
    ASSUME NEW d, NEW gone, NEW N, Window(d, gone, N), NEW ch, NEW tb, Stored(N.vol, ch, tb), Sane(tb),
           NEW c, NEW dc, NEW really, really => c \in DOMAIN tb /\ c # Root
    PROVE  Window(d, gone, Dotted(N, c, dc, really)) /\ \E tb2 : Redotted(Dotted(N, c, dc, really).vol, ch, tb, tb2)
<1> DEFINE x == [k |-> "dots", clust |-> dc]
           s == <<c>>
           two == 2
           P == PutSlot(N, s, two, x)
<1>1. CASE ~really
  <2>1. NoOther(tb, tb)
    BY SameItself DEF NoOther
  <2>2. Redotted(N.vol, ch, tb, tb)
    BY <2>1 DEF Redotted
  <2> QED
    BY <1>1, <2>2 DEF Dotted
<1>2. CASE really
  <2>1. c \in DOMAIN tb /\ c # Root /\ WellFormed(tb[c]) /\ tb[c][2].k = "dots"
    BY <1>2 DEF Sane
  <2>2. IsTable(tb[c]) /\ Len(tb[c]) \in Nat
    BY <2>1, TableOf, TableIs
  <2>3. two \in 1 .. Len(tb[c]) /\ IsSeq(tb[c])
    BY <2>2 DEF IsTable
  <2>4. s[At(two)] = ch[c][At(two)]
    <3>1. two \in 1 .. SPS
      BY FatAssumption
    <3>2. At(two) = 1
      BY <3>1, FirstPositions
    <3>3. ch[c][1] = c
      BY <2>1, TableIs
    <3> QED
      BY <3>2, <3>3
  <2>5. Window(d, gone, P)
    BY PutSlotKeeps
  <2>6. x.k = "dots"
    OBVIOUS
  <2>7. tb[c][two].k = "dots"
    BY <2>1
  <2> DEFINE U == Put(tb[c], two, x)
             tb2 == Put(tb, c, U)
  <2>14. Dotted(N, c, dc, really) = P
    BY <1>2 DEF Dotted
  <2>15. two = 2
    OBVIOUS
  <2> HIDE DEF s, x, two
  <2>8. Stored(P.vol, ch, tb2)
    BY <2>1, <2>3, <2>4, PutInTable DEF Put
  <2>9. Len(U) = Len(tb[c]) /\ \A j \in 1 .. Len(tb[c]) : U[j] = IF j = two THEN x ELSE tb[c][j]
    BY <2>3, PutIs
  <2> HIDE DEF U, P
  <2>10. Keeping(tb[c], U, {})
    <3>1. \A j \in 1 .. Len(tb[c]) : U[j] = IF j = 2 THEN x ELSE tb[c][j]
      BY <2>9, <2>15
    <3> QED
      BY <2>1, <2>2, <2>6, <2>9, <3>1, DotsAgain
  <2>11. DOMAIN tb2 = DOMAIN tb /\ Sane(tb2)
    BY <2>1, <2>2, <2>10, PutNoSpot
  <2>12. NoOther(tb, tb2)
    BY <2>1, <2>2, <2>10, PutNoSpot
  <2> HIDE DEF tb2
  <2>13. Redotted(P.vol, ch, tb, tb2)
    BY <2>8, <2>11, <2>12 DEF Redotted
  <2> QED
    BY <2>5, <2>13, <2>14
<1> QED
  BY <1>1, <1>2

\* An object that did not change is where it was.
LEMMA HitStays ==
    ASSUME NEW tb, NEW tb2, NEW h, NEW pos, NEW blk, NEW n, Hit(tb[h], pos, blk, n), Listed(tb, h, pos),
           SameSpot(tb, tb2, h, pos)
    PROVE  Hit(tb2[h], pos, blk, n) /\ h \in DOMAIN tb2
BY DEF Hit, SameSpot, Listed

\* Every slot lies in a cluster of the tables.
LEMMA TablePlace ==
    ASSUME NEW v, NEW ch, NEW tb, Stored(v, ch, tb), NEW h \in DOMAIN tb, NEW k \in 1 .. Len(tb[h])
    PROVE  ch[h][At(k)] \in OnTables(ch, tb)
<1>1. At(k) \in 1 .. Len(ch[h]) /\ h \in DOMAIN ch /\ Chains(v, ch)
  BY TableIs DEF Stored
<1>2. ch[h][At(k)] \in Cluster
  BY <1>1, ChainHas
<1> QED
  BY <1>1, <1>2 DEF OnTables, On

\* No file has a cluster of the tables.
LEMMA TablesSpare ==
    ASSUME NEW v, NEW ch, NEW tb, Stored(v, ch, tb), NEW pt, NEW F, NEW E, FilesForm(F, ch, tb, pt, E),
           NEW w, NEW ch2, Chains(w, ch2), NEW g \in DOMAIN tb, Longer(ch, ch2, g)
    PROVE  Spares(F, ch, tb, pt, OnTables(ch2, tb))
<1> SUFFICES ASSUME NEW a, NEW k, IsFile(tb, a, k), FirstAt(F, tb, pt, a, k) # 0, NEW x \in OnTables(ch2, tb),
                    On(ch[FirstAt(F, tb, pt, a, k)], x)
             PROVE  FALSE
  BY DEF Spares
<1> DEFINE c == FirstAt(F, tb, pt, a, k)
<1>1. c \in DOMAIN ch /\ c \notin DOMAIN tb /\ On(ch[c], x)
  BY DEF FilesForm, Held
<1> HIDE DEF c
<1>2. DOMAIN tb \subseteq DOMAIN ch
  BY DEF Stored
<1>3. c \in DOMAIN ch2 /\ ch2[c] = ch[c] /\ DOMAIN ch2 = DOMAIN ch
  BY <1>1 DEF Longer
<1>4. PICK h \in DOMAIN tb : On(ch2[h], x) /\ x \in Cluster
  BY DEF OnTables
<1>5. c # h /\ On(ch2[c], x) /\ h \in DOMAIN ch2
  BY <1>1, <1>2, <1>3, <1>4
<1> QED
  BY <1>3, <1>4, <1>5 DEF Chains

\* The old entry goes, the new one stands.
LEMMA RenamesIs ==
    ASSUME NEW v, NEW ch, NEW tb, Stored(v, ch, tb), Sane(tb), NEW d, NEW gone,
           NEW F, NEW pt, NEW old, NEW h, Finds(F, ch, tb, pt, old, h),
           NEW D, NEW ch2, NEW tb2, NEW g, NEW m, Enters(d, gone, v, D, ch, ch2, tb, tb2, g, m), D.pos # 0,
           NEW x, IsObject(x), x.sfn = Entry(D).sfn,
           NEW N, N = PutSlot(D.s, D.chain, D.pos, x),
           NEW c, NEW dc, NEW really, really => c \in DOMAIN tb /\ c # Root,
           NEW P, P = Dotted(N, c, dc, really)
    PROVE  /\ Window(d, gone, dir_remove(P, F))
           /\ \E tb3 : Renames(v, dir_remove(P, F).vol, ch, ch2, tb, tb3, h, F.pos, g, D.pos, x, m)
<1> DEFINE i == F.pos
           j == D.pos
           n == Last(old)
<1>1. /\ h \in DOMAIN tb /\ Listed(tb, h, i) /\ Hit(tb[h], i, F.blk, n) /\ F.chain = ch[h]
  BY DEF Finds
<1>2. /\ Window(d, gone, D.s) /\ Stored(D.s.vol, ch2, tb2) /\ DOMAIN tb2 = DOMAIN tb /\ Sane(tb2)
      /\ Longer(ch, ch2, g) /\ D.chain = ch2[g] /\ Others(tb, tb2, g, j) /\ ~Listed(tb, g, j)
      /\ IsFile(tb2, g, j) /\ Entry(D) = tb2[g][j] /\ NameAt(tb2[g], j) = m /\ g \in DOMAIN tb
  BY DEF Enters
<1> HIDE DEF n
<1>3. Listed(tb2, g, j) /\ ~(h = g /\ i = j)
  BY <1>1, <1>2 DEF IsFile
<1>4. Window(d, gone, N)
  BY <1>2, PutSlotKeeps
<1>5. PICK tb3 : ObjectAt(N.vol, ch2, tb2, g, j, x, tb3)
  <2> DEFINE s == D.chain
  <2>1. s[At(j)] = ch2[g][At(j)] /\ x.sfn = tb2[g][j].sfn
    BY <1>2
  <2>2. \E t : ObjectAt(PutSlot(D.s, s, j, x).vol, ch2, tb2, g, j, x, t)
    <3> HIDE DEF s, j
    <3> QED
      BY <1>2, <1>3, <2>1, ObjectPut
  <2> QED
    BY <2>2
<1> HIDE DEF i, j
<1>6. /\ Stored(N.vol, ch2, tb3) /\ DOMAIN tb3 = DOMAIN tb /\ Sane(tb3) /\ Others(tb2, tb3, g, j)
      /\ Listed(tb3, g, j) /\ tb3[g][j] = x /\ NameAt(tb3[g], j) = m
  BY <1>2, <1>5 DEF ObjectAt
<1>7. Window(d, gone, P)
  BY <1>4, <1>6, DotsPut
<1>8. PICK tb4 : Redotted(P.vol, ch2, tb3, tb4)
  BY <1>4, <1>6, DotsPut
<1>9. /\ Stored(P.vol, ch2, tb4) /\ DOMAIN tb4 = DOMAIN tb /\ Sane(tb4) /\ NoOther(tb3, tb4)
      /\ Listed(tb4, g, j) /\ tb4[g][j] = x /\ NameAt(tb4[g], j) = m
  BY <1>6, <1>8 DEF Redotted, NoOther, SameSpot
<1>10. Others(tb, tb4, g, j)
  <2>1. Others(tb, tb3, g, j)
    BY <1>2, <1>6, OthersBoth
  <2> QED
    BY <1>9, <2>1, OthersBoth
<1>11. Hit(tb4[h], i, F.blk, n) /\ h \in DOMAIN tb4
  <2>1. SameSpot(tb, tb4, h, i)
    BY <1>3, <1>10 DEF Others, i, j
  <2> DEFINE b == F.blk
  <2>2. Hit(tb[h], i, b, n)
    BY <1>1
  <2> HIDE DEF b
  <2>3. Hit(tb4[h], i, b, n) /\ h \in DOMAIN tb4
    BY <1>1, <2>1, <2>2, HitStays
  <2> QED
    BY <2>3 DEF b
<1>12. Fore(F.chain, ch2[h]) /\ At(F.pos) \in 1 .. Len(F.chain)
  <2>1. Len(ch[h]) \in Nat /\ At(i) \in 1 .. Len(ch[h]) /\ h \in DOMAIN ch
    BY <1>1, TableIs DEF Listed
  <2>2. \A k \in 1 .. Len(ch[h]) : ch[h][k] = ch2[h][k]
    BY <1>2, <2>1 DEF Longer
  <2> QED
    BY <1>1, <2>1, <2>2 DEF Fore, i
<1>13. Window(d, gone, dir_remove(P, F))
  BY <1>7, DirRemove
<1>14. \E t : Removes(dir_remove(P, F).vol, ch2, tb4, h, F.pos, t)
  <2>1. Hit(tb4[h], F.pos, F.blk, n)
    BY <1>11 DEF i
  <2> QED
    BY <1>7, <1>9, <1>11, <1>12, <2>1, EntryRemoved
<1>15. PICK tb5 : Removes(dir_remove(P, F).vol, ch2, tb4, h, F.pos, tb5)
  BY <1>14
<1> DEFINE w == dir_remove(P, F).vol
<1>16. /\ Stored(w, ch2, tb5) /\ DOMAIN tb5 = DOMAIN tb /\ Sane(tb5) /\ Others(tb4, tb5, h, i)
       /\ ~Listed(tb5, h, i)
  BY <1>9, <1>15 DEF Removes, i
<1> HIDE DEF w
<1>17. SameSpot(tb4, tb5, g, j)
  BY <1>3, <1>16 DEF Others, i, j
<1>18. Listed(tb5, g, j) /\ tb5[g][j] = x /\ NameAt(tb5[g], j) = m
  BY <1>9, <1>17 DEF SameSpot
<1>19. ASSUME NEW a, NEW k, ~(a = h /\ k = i), ~(a = g /\ k = j) PROVE SameSpot(tb, tb5, a, k)
  <2>1. SameSpot(tb, tb4, a, k) /\ SameSpot(tb4, tb5, a, k)
    BY <1>10, <1>16, <1>19 DEF Others
  <2> QED
    BY <2>1 DEF SameSpot
<1>21. Only(v, w, OnTables(ch2, tb))
  <2> DEFINE X == OnTables(ch2, tb)
  <2>1. X = OnTables(ch2, tb2) /\ X = OnTables(ch2, tb3)
    BY <1>2, <1>6 DEF OnTables
  <2>2. Only(v, D.s.vol, X)
    <3>1. Only(v, D.s.vol, OnIt(ch2[g])) /\ OnIt(ch2[g]) \subseteq X
      <4>1. g \in DOMAIN tb /\ Only(v, D.s.vol, OnIt(ch2[g]))
        BY DEF Enters
      <4>2. \A k \in 1 .. Len(ch2[g]) : ch2[g][k] \in Cluster /\ On(ch2[g], ch2[g][k])
        BY <1>2, <4>1, ChainHas DEF Stored, On
      <4> QED
        BY <4>1, <4>2 DEF OnIt, OnTables
    <3> HIDE DEF X
    <3> QED
      BY <3>1, OnlyMore
  <2>3. D.chain[At(j)] \in X
    <3>1. j \in 1 .. Len(tb2[g]) /\ g \in DOMAIN tb2
      BY <1>3 DEF Listed
    <3>2. ch2[g][At(j)] \in OnTables(ch2, tb2)
      BY <1>2, <3>1, TablePlace
    <3> QED
      BY <1>2, <2>1, <3>2
  <2>4. Only(D.s.vol, N.vol, X)
    <3> DEFINE s == D.chain
               Y == {s[At(j)]}
    <3>1. N = PutSlot(D.s, s, j, x)
      BY DEF j
    <3>2. Only(D.s.vol, PutSlot(D.s, s, j, x).vol, Y)
      <4> HIDE DEF s
      <4> QED
        BY <1>2, PutOnly
    <3>3. Y \subseteq X
      BY <2>3
    <3> HIDE DEF X, Y
    <3> QED
      BY <3>1, <3>2, <3>3, OnlyMore
  <2>5. Only(N.vol, P.vol, X)
    <3>1. CASE ~really
      BY <3>1 DEF Dotted, Only
    <3>2. CASE really
      <4> DEFINE s == <<c>>
                 two == 2
                 y == [k |-> "dots", clust |-> dc]
                 Y == {s[At(two)]}
      <4>1. P = PutSlot(N, s, two, y)
        BY <3>2 DEF Dotted
      <4>2. s[At(two)] = c
        <5>1. two \in 1 .. SPS
          BY FatAssumption
        <5>2. At(two) = 1
          BY <5>1, FirstPositions
        <5> QED
          BY <5>2
      <4>3. c \in X
        <5>1. c \in DOMAIN ch2 /\ c \in DOMAIN tb /\ Chains(D.s.vol, ch2)
          BY <1>2, <3>2 DEF Stored
        <5>2. Len(ch2[c]) \in Nat \ {0} /\ ch2[c][1] = c /\ \A k \in 1 .. Len(ch2[c]) : ch2[c][k] \in Cluster
          BY <5>1, ChainHas
        <5>3. 1 \in 1 .. Len(ch2[c])
          BY <5>2
        <5>4. c \in Cluster /\ On(ch2[c], c)
          BY <5>2, <5>3 DEF On
        <5> QED
          BY <5>1, <5>4 DEF OnTables
      <4>4. Y \subseteq X
        BY <4>2, <4>3
      <4> HIDE DEF s, two, y, X
      <4>5. Only(N.vol, PutSlot(N, s, two, y).vol, {s[At(two)]})
        BY <1>4, PutOnly
      <4> HIDE DEF Y
      <4>6. Only(N.vol, PutSlot(N, s, two, y).vol, Y)
        BY <4>5 DEF Y
      <4> QED
        BY <4>1, <4>4, <4>6, OnlyMore
    <3> QED
      BY <3>1, <3>2
  <2>6. Only(P.vol, w, X)
    <3> DEFINE Y == {F.chain[At(F.blk)], F.chain[At(F.pos)]}
    <3>1. Only(P.vol, w, Y)
      BY <1>7, RemoveOnly DEF w
    <3>2. F.blk \in 1 .. Len(tb[h]) /\ F.pos \in 1 .. Len(tb[h])
      BY <1>1, TableIs DEF Hit, Listed, Sane, WellFormed, i
    <3>3. \A k \in {F.blk, F.pos} : ch[h][At(k)] = ch2[h][At(k)] /\ ch2[h][At(k)] \in OnTables(ch2, tb)
      <4> SUFFICES ASSUME NEW k \in {F.blk, F.pos}
                   PROVE  ch[h][At(k)] = ch2[h][At(k)] /\ ch2[h][At(k)] \in OnTables(ch2, tb)
        OBVIOUS
      <4>1. k \in 1 .. Len(tb[h]) /\ h \in DOMAIN ch
        BY <1>1, <3>2 DEF Stored
      <4>2. At(k) \in 1 .. Len(ch[h]) /\ Len(ch[h]) \in Nat
        BY <1>1, <4>1, TableIs
      <4>3. ch[h][At(k)] \in OnTables(ch, tb)
        BY <1>1, <4>1, TablePlace
      <4>4. At(k) \in 1 .. Len(ch2[h]) /\ ch2[h][At(k)] = ch[h][At(k)]
        BY <1>2, <4>1, <4>2 DEF Longer
      <4>5. ch2[h][At(k)] \in Cluster /\ On(ch2[h], ch2[h][At(k)])
        BY <4>3, <4>4 DEF OnTables, On
      <4> QED
        BY <1>1, <4>4, <4>5 DEF OnTables
    <3>4. Y \subseteq X
      BY <1>1, <3>3
    <3> HIDE DEF X, Y
    <3> QED
      BY <3>1, <3>4, OnlyMore
  <2> HIDE DEF X
  <2>7. Only(v, N.vol, X)
    BY <2>2, <2>4, OnlyBoth
  <2>8. Only(v, P.vol, X)
    BY <2>5, <2>7, OnlyBoth
  <2>9. Only(v, w, X)
    BY <2>6, <2>8, OnlyBoth
  <2> QED
    BY <2>9 DEF X
<1>20. Renames(v, w, ch, ch2, tb, tb5, h, i, g, j, x, m)
  BY <1>1, <1>2, <1>16, <1>18, <1>19, <1>21 DEF Renames, i, j
<1> QED
  BY <1>13, <1>20 DEF w, i, j

\* No open file is at a path that only an object without open file has.
LEMMA TargetUnused ==
    ASSUME NEW F, NEW ch, NEW tb, NEW pt, NEW E, FilesForm(F, ch, tb, pt, E), Tree(tb, pt),
           NEW g \in DOMAIN tb, NEW m, NEW h, NEW i, Target(tb, g, m, h, i),
           NEW f \in Fil, ~HasFile(F, ch, tb, pt, f, h, i)
    PROVE  ~OpenAt(F, f, Append(pt[g], m))
<1> SUFFICES ASSUME OpenAt(F, f, Append(pt[g], m)) PROVE FALSE
  OBVIOUS
<1>1. PICK a, k : HasFile(F, ch, tb, pt, f, a, k)
  BY DEF OpenAt, FilesForm
<1>2. Listed(tb, a, k) /\ a \in DOMAIN tb /\ Append(pt[a], NameAt(tb[a], k)) = Append(pt[g], m)
  BY <1>1 DEF HasFile, OpenAt, IsFile, Listed, Path
<1>3. TreeForm(tb, pt)
  BY TreeIs
<1>4. IsSeq(pt[g]) /\ IsSeq(pt[a]) /\ (pt[a] = pt[g] => a = g)
  BY <1>2, <1>3 DEF TreeForm
<1>5. pt[a] = pt[g] /\ NameAt(tb[a], k) = m
  BY <1>2, <1>4, AppendBoth
<1>6. a = h /\ k = i
  BY <1>2, <1>4, <1>5 DEF Target
<1> QED
  BY <1>1, <1>6

\* The tables but for two slots.
LEMMA TwoSpots ==
    ASSUME NEW v, NEW w, NEW ch, NEW ch2, NEW tb, NEW tb2, NEW h, NEW i, NEW g, NEW j, NEW x, NEW m,
           Renames(v, w, ch, ch2, tb, tb2, h, i, g, j, x, m)
    PROVE  \E P : /\ \A a, k : <<a, k>> \in P <=> (a = h /\ k = i) \/ (a = g /\ k = j)
                  /\ Alike(tb, tb2, P) /\ \A a, k : <<a, k>> \notin P => SameSpot(tb, tb2, a, k)
<1> DEFINE P == {<<h, i>>, <<g, j>>}
<1>1. \A a, k : <<a, k>> \in P <=> (a = h /\ k = i) \/ (a = g /\ k = j)
  OBVIOUS
<1> HIDE DEF P
<1>2. \A a, k : <<a, k>> \notin P => SameSpot(tb, tb2, a, k)
  BY <1>1 DEF Renames
<1>3. Alike(tb, tb2, P)
  BY <1>2 DEF Alike, SameSpot
<1> QED
  BY <1>1, <1>2, <1>3

\* A prefix that is none of the path without its last name is the whole path.
LEMMA PrefixOne ==
    ASSUME NEW s, IsSeq(s), NEW q, IsSeq(q), NEW n, IsPrefix(s, Append(q, n)), ~IsPrefix(s, q)
    PROVE  s = Append(q, n)
BY PrefixNext

\* No open file is under the new path of a directory that has none under the old one.
LEMMA LoneToo ==
    ASSUME NEW F, NEW ch, NEW tb, NEW pt, NEW E, FilesForm(F, ch, tb, pt, E), Tree(tb, pt),
           NEW tb2, NEW h, NEW i, NEW g, NEW j, Moves(tb, tb2, pt, h, i, g, j),
           NEW old, old = Path(tb, pt, h, i), NEW new, new = Append(pt[g], NameAt(tb2[g], j)),
           IsSeq(new), IsSeq(old), g \in DOMAIN tb, Lone(F, old)
    PROVE  Lone(F, new)
<1> SUFFICES ASSUME NEW f \in Fil, F[f].open, IsPrefix(new, F[f].path) PROVE FALSE
  BY DEF Lone
<1>1. PICK b, l : HasFile(F, ch, tb, pt, f, b, l)
  BY DEF FilesForm
<1> DEFINE n == NameAt(tb[b], l)
<1>2. IsFile(tb, b, l) /\ Listed(tb, b, l) /\ b \in DOMAIN tb /\ F[f].path = Append(pt[b], n)
  BY <1>1 DEF HasFile, OpenAt, IsFile, Listed, Path
<1>3. TreeForm(tb, pt)
  BY TreeIs
<1>4. IsSeq(pt[b]) /\ IsSeq(pt[g]) /\ (pt[b] = pt[g] => b = g)
  BY <1>2, <1>3 DEF TreeForm
<1>5. ~IsPrefix(old, pt[b])
  <2>1. ~IsPrefix(old, Append(pt[b], n))
    BY <1>2 DEF Lone
  <2> HIDE DEF n
  <2> QED
    BY <1>4, <2>1, PrefixNext
<1>6. ~IsPrefix(new, pt[b])
  BY <1>2, <1>5, NoneBelow
<1>7. new = Append(pt[b], n)
  <2> DEFINE q == pt[b]
  <2>1. IsPrefix(new, Append(q, n)) /\ IsSeq(q) /\ ~IsPrefix(new, q)
    BY <1>2, <1>4, <1>6
  <2> HIDE DEF n, q
  <2>3. new = Append(q, n)
    BY <2>1, PrefixOne
  <2> QED
    BY <2>3 DEF q
<1>8. pt[b] = pt[g] /\ n = NameAt(tb2[g], j)
  BY <1>4, <1>7, AppendBoth
<1>9. b = h /\ l = i
  BY <1>2, <1>4, <1>8 DEF Moves
<1> QED
  BY <1>2, <1>9 DEF Moves, IsDir, IsFile

\* What lies below stays below.
LEMMA MovedBelow ==
    ASSUME NEW q, IsSeq(q), NEW old, IsSeq(old), NEW new, IsSeq(new), IsPrefix(old, q), NEW n
    PROVE  IsPrefix(new, Append(Moved(q, old, new), n)) /\ IsPrefix(old, Append(q, n))
<1>1. Len(old) <= Len(q) /\ Len(q) \in Nat /\ Len(new) \in Nat /\ Len(old) \in Nat
  BY PrefixIs DEF IsSeq
<1> DEFINE e == Moved(q, old, new)
<1>2. Shifted(e, q, old, new)
  BY <1>1, MovedIs
<1> HIDE DEF e
<1>3. IsSeq(e) /\ Len(new) <= Len(e) /\ \A k \in 1 .. Len(new) : e[k] = new[k]
  BY <1>1, <1>2 DEF Shifted
<1>4. IsPrefix(new, e)
  BY <1>3, PrefixIs
<1>5. IsPrefix(new, Append(e, n)) /\ IsPrefix(old, Append(q, n))
  BY <1>3, <1>4, PrefixNext
<1> QED
  BY <1>5 DEF e

\* The files' paths do not change, as no open file is under the old or the new path.
PathsKept(F, tb, tb2, pt, pt2, P) ==
    \A a, k : <<a, k>> \notin P /\ IsFile(tb, a, k) =>
        \A f \in Fil : OpenAt(F, f, Path(tb2, pt2, a, k)) <=> OpenAt(F, f, Path(tb, pt, a, k))

\* No open file has another path after a directory has moved.
LEMMA PathsKeep ==
    ASSUME NEW F, NEW tb, NEW tb2, NEW pt, NEW pt2, NEW old, IsSeq(old), NEW new, IsSeq(new), Tree(tb, pt),
           Repath(tb, pt, pt2, old, new), Lone(F, old), Lone(F, new),
           NEW P, \A a, k : <<a, k>> \notin P => SameSpot(tb, tb2, a, k)
    PROVE  PathsKept(F, tb, tb2, pt, pt2, P)
<1> SUFFICES ASSUME NEW a, NEW k, <<a, k>> \notin P, IsFile(tb, a, k), NEW f \in Fil
             PROVE  OpenAt(F, f, Path(tb2, pt2, a, k)) <=> OpenAt(F, f, Path(tb, pt, a, k))
  BY DEF PathsKept
<1> DEFINE n == NameAt(tb[a], k)
<1>1. a \in DOMAIN tb /\ NameAt(tb2[a], k) = n
  BY DEF SameSpot, IsFile, Listed
<1>2. Path(tb, pt, a, k) = Append(pt[a], n) /\ Path(tb2, pt2, a, k) = Append(pt2[a], n)
  BY <1>1 DEF Path
<1> HIDE DEF n
<1>3. IsSeq(pt[a])
  BY <1>1, TreeIs DEF TreeForm
<1>4. CASE ~IsPrefix(old, pt[a])
  BY <1>1, <1>2, <1>4 DEF Repath
<1>5. CASE IsPrefix(old, pt[a])
  <2>1. pt2[a] = Moved(pt[a], old, new)
    BY <1>1, <1>5 DEF Repath
  <2>2. IsPrefix(new, Append(pt2[a], n)) /\ IsPrefix(old, Append(pt[a], n))
    BY <1>3, <1>5, <2>1, MovedBelow
  <2> QED
    BY <1>2, <2>2 DEF Lone, OpenAt
<1> QED
  BY <1>4, <1>5

\* The table g is where new is to be, and nothing but the slot i of h is there already.
Aimed(G, tb, pt, new, g, h, i) ==
    /\ g \in DOMAIN tb /\ g = (IF G.dc = 0 THEN Root ELSE G.dc) /\ IsSeq(pt[g])
    /\ Append(pt[g], Last(new)) = new /\ Target(tb, g, Last(new), h, i)

\* Where f_rename puts the new entry no other object has its name.
LEMMA AimedIs ==
    ASSUME NEW ch, NEW tb, NEW pt, Tree(tb, pt), 0 \notin DOMAIN tb,
           NEW F, NEW old, NEW h, Finds(F, ch, tb, pt, old, h),
           NEW d, NEW gone, NEW vol, NEW G, NEW new, IsSeq(new), new # <<>>,
           Followed(d, gone, vol, ch, tb, pt, new, G),
           G.res = "NO_FILE" \/ (G.res = "OK" /\ G.dc = F.dc /\ G.pos = F.pos)
    PROVE  \E g : Aimed(G, tb, pt, new, g, h, F.pos)
<1> DEFINE m == Last(new)
           dc == G.dc
<1>1. TreeForm(tb, pt)
  BY TreeIs
<1>2. CASE G.res = "NO_FILE"
  <2>1. PICK g : Lacks(G, ch, tb, pt, new, g)
    BY <1>2 DEF Followed
  <2>2. /\ g \in DOMAIN tb /\ dc = (IF g = Root THEN 0 ELSE g) /\ Append(pt[g], m) = new
        /\ \A i : Listed(tb, g, i) => NameAt(tb[g], i) # m
    BY <2>1 DEF Lacks
  <2>3. IsSeq(pt[g]) /\ Target(tb, g, m, h, F.pos)
    BY <1>1, <2>2 DEF TreeForm, Target
  <2> HIDE DEF dc
  <2>4. g = (IF dc = 0 THEN Root ELSE dc)
    BY <2>2, HeadOf
  <2> QED
    BY <2>2, <2>3, <2>4 DEF Aimed, dc
<1>3. CASE G.res = "OK" /\ G.dc = F.dc /\ G.pos = F.pos
  <2>1. PICK g : Finds(G, ch, tb, pt, new, g)
    BY <1>3 DEF Followed
  <2>2. g \in DOMAIN tb /\ Listed(tb, g, F.pos) /\ Path(tb, pt, g, F.pos) = new /\ dc = (IF g = Root THEN 0 ELSE g)
    BY <1>3, <2>1 DEF Finds
  <2>3. h \in DOMAIN tb /\ dc = (IF h = Root THEN 0 ELSE h)
    BY <1>3 DEF Finds
  <2> DEFINE q == SubSeq(new, 1, Len(new) - 1)
             n == NameAt(tb[g], F.pos)
  <2>4. Append(q, m) = new /\ IsSeq(q)
    BY UpIs
  <2>5. Append(pt[g], n) = new /\ IsSeq(pt[g])
    BY <1>1, <2>2 DEF Path, TreeForm
  <2> DEFINE r == pt[g]
  <2>9. Append(r, n) = Append(q, m) /\ IsSeq(r)
    BY <2>4, <2>5
  <2> HIDE DEF dc, q, n, m, r
  <2>6. g = (IF dc = 0 THEN Root ELSE dc) /\ h = (IF dc = 0 THEN Root ELSE dc)
    BY <2>2, <2>3, HeadOf
  <2>10. r = q /\ n = m
    BY <2>4, <2>9, AppendBoth
  <2>7. pt[g] = q /\ n = m
    BY <2>10 DEF r
  <2>8. Target(tb, g, m, h, F.pos)
    <3> SUFFICES ASSUME NEW k, Listed(tb, g, k), NameAt(tb[g], k) = m PROVE g = h /\ k = F.pos
      BY DEF Target
    <3>1. NameAt(tb[g], F.pos) = m
      BY <2>7 DEF n
    <3> QED
      BY <1>1, <2>2, <2>6, <3>1 DEF TreeForm
  <2> QED
    BY <2>2, <2>4, <2>5, <2>6, <2>7, <2>8 DEF Aimed, dc, m
<1> QED
  BY <1>2, <1>3

\* The object e with another name is one.
LEMMA RetitledIs ==
    ASSUME NEW e, IsObject(e), NEW sfn, NEW x, x = [e EXCEPT !.sfn = sfn]
    PROVE  IsObject(x) /\ x.sfn = sfn /\ x.dir = e.dir /\ x.clust = e.clust /\ x.size = e.size
<1>1. /\ DOMAIN x = DOMAIN e /\ DOMAIN e = {"k", "sfn", "dir", "clust", "size"}
      /\ e.k = "sfn" /\ e.dir \in BOOLEAN /\ e.size \in Nat
  BY DEF IsObject
<1>2. x.k = e.k /\ x.dir = e.dir /\ x.clust = e.clust /\ x.size = e.size
  BY <1>1
<1>3. x.sfn = sfn
  BY <1>1
<1> HIDE DEF IsObject
<1>4. IsObject(x)
  BY <1>1, <1>2 DEF IsObject
<1> QED
  BY <1>2, <1>3, <1>4

\* A directory is not moved below itself.
LEMMA NotBelow ==
    ASSUME NEW old, IsSeq(old), NEW q, IsSeq(q), NEW m, NEW new, new = Append(q, m),
           IsPrefix(old, new) => old = new
    PROVE  ~IsPrefix(old, q)
<1> SUFFICES ASSUME IsPrefix(old, q) PROVE FALSE
  OBVIOUS
<1>1. IsPrefix(old, Append(q, m))
  BY PrefixNext
<1>2. old = Append(q, m)
  BY <1>1
<1>3. ~IsPrefix(Append(q, m), q)
  BY PrefixNext
<1> QED
  BY <1>2, <1>3

\* Where an object is after the path old has become new, and those below with it.
LEMMA PathAfter ==
    ASSUME NEW tb, NEW pt, Tree(tb, pt), NEW h, NEW i, Listed(tb, h, i), NEW old, old = Path(tb, pt, h, i), IsSeq(old),
           NEW new, IsSeq(new), NEW pt2, Repath(tb, pt, pt2, old, new),
           NEW a, NEW k, Listed(tb, a, k), ~(a = h /\ k = i)
    PROVE  Path(tb, pt2, a, k) = IF IsPrefix(old, Path(tb, pt, a, k)) THEN Moved(Path(tb, pt, a, k), old, new)
                                 ELSE Path(tb, pt, a, k)
<1> DEFINE p == pt[a]
           n == NameAt(tb[a], k)
<1>1. /\ IsSeq(p) /\ a \in DOMAIN tb /\ Path(tb, pt, a, k) = Append(p, n)
      /\ Path(tb, pt2, a, k) = Append(pt2[a], n)
      /\ pt2[a] = IF IsPrefix(old, p) THEN Moved(p, old, new) ELSE p
  BY PathIs DEF Path, Repath, Listed
<1>2. Path(tb, pt, a, k) # old
  BY PathsApart
<1> HIDE DEF p, n
<1>3. IsPrefix(old, Append(p, n)) <=> IsPrefix(old, p)
  BY <1>1, <1>2, PrefixNext
<1>4. IsPrefix(old, p) => Moved(Append(p, n), old, new) = Append(Moved(p, old, new), n)
  BY <1>1, MovedNext
<1> QED
  BY <1>1, <1>3, <1>4

\* What is said of the paths is what was said of them before, the one of the slot i of h
\* under that of the slot j of g.
Relisted(tb, pt, W, tb2, pt2, W2, h, i, g, j) ==
    /\ \A a, k : Listed(tb, a, k) /\ ~(a = h /\ k = i) =>
          Path(tb2, pt2, a, k) \in DOMAIN W2 /\ W2[Path(tb2, pt2, a, k)] = W[Path(tb, pt, a, k)]
    /\ Path(tb2, pt2, g, j) \in DOMAIN W2 /\ W2[Path(tb2, pt2, g, j)] = W[Path(tb, pt, h, i)]
    /\ \A q \in DOMAIN W2 : \E a, k : Listed(tb2, a, k) /\ Path(tb2, pt2, a, k) = q

\* f_rename: every object has its place in the new tables, and the path it should have
\* there.
LEMMA RelistedIs ==
    ASSUME NEW v, NEW F, NEW w, NEW ch, NEW ch2, NEW tb, NEW tb2, NEW h, NEW i, NEW g, NEW j, NEW x, NEW m,
           Renames(v, w, ch, ch2, tb, tb2, h, i, g, j, x, m), NEW pt, Tree(tb, pt),
           NEW old, old = Path(tb, pt, h, i), IsSeq(old), NEW new, new = Append(pt[g], m), IsSeq(new),
           ~IsPrefix(old, pt[g]), NEW pt2, Repath(tb, pt, pt2, old, new),
           NEW W, Matches(v, F, ch, tb, pt, W), NEW W2, Retold(W, W2, old, new)
    PROVE  Relisted(tb, pt, W, tb2, pt2, W2, h, i, g, j)
<1>1. /\ g \in DOMAIN tb /\ Listed(tb, h, i) /\ ~Listed(tb, g, j) /\ Listed(tb2, g, j) /\ NameAt(tb2[g], j) = m
  BY DEF Renames
<1>2. \A a, k : Listed(tb, a, k) => Path(tb, pt, a, k) \in DOMAIN W
  BY DEF Matches, ShownAt
<1>3. ASSUME NEW a, NEW k, Listed(tb, a, k), ~(a = h /\ k = i)
      PROVE  Listed(tb2, a, k) /\ Path(tb2, pt2, a, k) = Path(tb, pt2, a, k)
  <2>1. ~(a = g /\ k = j)
    BY <1>1, <1>3
  <2>2. SameSpot(tb, tb2, a, k)
    BY <1>3, <2>1 DEF Renames
  <2> QED
    BY <1>3, <2>2 DEF SameSpot, Path
<1>4. ASSUME NEW a, NEW k, Listed(tb, a, k), ~(a = h /\ k = i)
      PROVE  Path(tb2, pt2, a, k) = IF IsPrefix(old, Path(tb, pt, a, k)) THEN Moved(Path(tb, pt, a, k), old, new)
                                    ELSE Path(tb, pt, a, k)
  BY <1>1, <1>3, <1>4, PathAfter
<1>5. ASSUME NEW a, NEW k, Listed(tb, a, k), ~(a = h /\ k = i)
      PROVE  Path(tb2, pt2, a, k) \in DOMAIN W2 /\ W2[Path(tb2, pt2, a, k)] = W[Path(tb, pt, a, k)]
  BY <1>2, <1>4, <1>5 DEF Retold
<1>6. Path(tb2, pt2, g, j) = new
  BY <1>1 DEF Path, Repath
<1>7. IsPrefix(old, old) /\ Moved(old, old, new) = new
  <2>1. Len(old) \in Nat
    BY DEF IsSeq
  <2>2. IsPrefix(old, old)
    BY <2>1, PrefixIs
  <2> QED
    BY <2>2, MovedSelf
<1>8. new \in DOMAIN W2 /\ W2[new] = W[old]
  <2>1. old \in DOMAIN W
    BY <1>1, <1>2
  <2> QED
    BY <1>7, <2>1 DEF Retold
<1>9. ASSUME NEW q \in DOMAIN W2 PROVE \E a, k : Listed(tb2, a, k) /\ Path(tb2, pt2, a, k) = q
  <2>1. PICK r \in DOMAIN W : q = IF IsPrefix(old, r) THEN Moved(r, old, new) ELSE r
    BY <1>9 DEF Retold
  <2>2. PICK a, k : Listed(tb, a, k) /\ Path(tb, pt, a, k) = r
    BY DEF Matches
  <2>3. CASE a = h /\ k = i
    BY <1>1, <1>6, <1>7, <2>1, <2>2, <2>3
  <2>4. CASE ~(a = h /\ k = i)
    BY <1>3, <1>4, <2>1, <2>2, <2>4
  <2> QED
    BY <2>3, <2>4
<1> QED
  BY <1>5, <1>6, <1>8, <1>9 DEF Relisted

\* A file under its new name.
LEMMA RenamedFile ==
    ASSUME NEW v, NEW F, NEW ch, NEW tb, NEW pt, NEW W, Intact(v, F, ch, tb, pt, W),
           NEW w, NEW ch2, NEW tb2, NEW h, NEW i, NEW g, NEW j, NEW x, NEW m,
           Renames(v, w, ch, ch2, tb, tb2, h, i, g, j, x, m), Target(tb, g, m, h, i),
           ~tb[h][i].dir, ~x.dir, x.clust = tb[h][i].clust, x.size = tb[h][i].size,
           Unused(F, tb, pt, h, i), NEW W2, Relisted(tb, pt, W, tb2, pt, W2, h, i, g, j)
    PROVE  Intact(w, F, ch2, tb2, pt, W2)
<1> DEFINE none == {}
           c == tb[h][i].clust
<1>1. /\ Stored(v, ch, tb) /\ Tree(tb, pt) /\ FilesForm(F, ch, tb, pt, none) /\ Chains(v, ch)
      /\ Matches(v, F, ch, tb, pt, W) /\ Whole(v, F, ch, tb, pt)
  BY DEF Intact, Whole, Stored
<1>2. /\ Stored(w, ch2, tb2) /\ Longer(ch, ch2, g) /\ g \in DOMAIN tb /\ DOMAIN tb2 = DOMAIN tb /\ Sane(tb2)
      /\ ~Listed(tb2, h, i) /\ Listed(tb, h, i) /\ ~Listed(tb, g, j)
      /\ Listed(tb2, g, j) /\ tb2[g][j] = x /\ NameAt(tb2[g], j) = m
  BY DEF Renames
<1> HIDE DEF none
<1>3. PICK P : /\ \A a, k : <<a, k>> \in P <=> (a = h /\ k = i) \/ (a = g /\ k = j)
               /\ Alike(tb, tb2, P) /\ \A a, k : <<a, k>> \notin P => SameSpot(tb, tb2, a, k)
  BY TwoSpots
<1>4. IsFile(tb, h, i) /\ IsFile(tb2, g, j) /\ ~IsFile(tb2, h, i) /\ ~IsFile(tb, g, j)
  BY <1>2 DEF IsFile
<1>5. ~IsDir(tb, h, i) /\ ~IsDir(tb2, g, j) /\ ~IsDir(tb2, h, i) /\ ~IsDir(tb, g, j)
  BY <1>2 DEF IsDir
<1>6. Tree(tb2, pt)
  <2>1. \A a, k : <<a, k>> \in P => ~IsDir(tb, a, k) /\ ~IsDir(tb2, a, k)
    BY <1>3, <1>5
  <2>2. ASSUME NEW a, NEW k, NEW l, <<a, k>> \in P, Listed(tb2, a, k), Listed(tb2, a, l),
               NameAt(tb2[a], k) = NameAt(tb2[a], l)
        PROVE  k = l
    <3> SUFFICES ASSUME k # l PROVE FALSE
      OBVIOUS
    <3>1. a = g /\ k = j
      BY <1>2, <1>3, <2>2
    <3>2. SameSpot(tb, tb2, g, l)
      <4>1. ~(g = h /\ l = i) /\ ~(g = g /\ l = j)
        BY <1>2, <2>2, <3>1
      <4> QED
        BY <4>1 DEF Renames
    <3>3. Listed(tb, g, l) /\ NameAt(tb[g], l) = m
      BY <1>2, <2>2, <3>1, <3>2 DEF SameSpot
    <3>4. g = h /\ l = i
      BY <3>3 DEF Target
    <3> QED
      BY <1>2, <2>2, <3>1, <3>4
  <2> QED
    BY <1>1, <1>2, <1>3, <2>1, <2>2, TreeSame
<1>7. /\ c = 0 \/ (c \in DOMAIN ch /\ c \notin DOMAIN tb)
      /\ Reaches(ch, c, tb[h][i].size) /\ tb[h][i].size \in Nat /\ FirstAt(F, tb, pt, h, i) = c
  BY <1>1, <1>4, UnusedClust
<1>8. Unused(F, tb2, pt, g, j)
  <2>1. \A f \in Fil : ~HasFile(F, ch, tb, pt, f, h, i)
    BY DEF HasFile, Unused
  <2>2. \A f \in Fil : ~OpenAt(F, f, Append(pt[g], m))
    BY <1>1, <1>2, <2>1, TargetUnused
  <2> QED
    BY <1>2, <2>2 DEF Unused, Path
<1>9. FirstAt(F, tb2, pt, g, j) = c /\ ~Busy(F, Path(tb2, pt, g, j))
  BY <1>2, <1>8, UnusedFirst
<1>10. /\ \A a, k : IsFile(tb, a, k) => ch2[a][At(k)] = ch[a][At(k)]
       /\ Held(ch2, tb2, none) = Held(ch, tb, none) /\ \A e \in Held(ch, tb, none) : ch2[e] = ch[e]
       /\ 0 \notin DOMAIN ch /\ 0 \notin DOMAIN ch2 /\ 0 \notin DOMAIN tb
  BY <1>1, <1>2, GrownFiles
<1>11. Reaches(ch2, x.clust, x.size)
  <2>1. g \in DOMAIN ch
    BY <1>1, <1>2 DEF Stored
  <2> QED
    BY <1>2, <1>7, <2>1, LongerReaches
<1>12. c # 0 => c \in Held(ch, tb, none)
  BY <1>7 DEF Held, none
<1>13. \A f \in Fil : F[f].open => \E a, k : <<a, k>> \notin P /\ IsFile(tb, a, k) /\ OpenAt(F, f, Path(tb2, pt, a, k))
  <2> SUFFICES ASSUME NEW f \in Fil, F[f].open
               PROVE  \E a, k : <<a, k>> \notin P /\ IsFile(tb, a, k) /\ OpenAt(F, f, Path(tb2, pt, a, k))
    OBVIOUS
  <2>1. PICK a, k : HasFile(F, ch, tb, pt, f, a, k)
    BY <1>1 DEF FilesForm
  <2>2. IsFile(tb, a, k) /\ OpenAt(F, f, Path(tb, pt, a, k))
    BY <2>1 DEF HasFile
  <2>3. <<a, k>> \notin P
    BY <1>3, <1>4, <2>2 DEF Unused
  <2>4. Path(tb2, pt, a, k) = Path(tb, pt, a, k)
    BY <1>3, <2>2, <2>3 DEF Path, SameSpot, IsFile
  <2> QED
    BY <2>2, <2>3, <2>4
<1>14. Passes(F, ch, tb, pt, none, F, ch2, tb2, pt, none, P, c, c)
  <2> HIDE DEF c
  <2>1. \A a, k : <<a, k>> \notin P /\ IsFile(tb, a, k) => Path(tb2, pt, a, k) = Path(tb, pt, a, k)
    BY <1>3 DEF Path, SameSpot, IsFile
  <2>2. \A a, k : <<a, k>> \in P /\ IsFile(tb, a, k) => Owner(F, tb, pt, a, k, c)
    BY <1>3, <1>4, <1>7 DEF Owner
  <2>3. c # 0 => \E a, k : <<a, k>> \in P /\ Owner(F, tb, pt, a, k, c)
    BY <1>3, <1>4, <1>7 DEF Owner
  <2>4. c # 0 => c \in Held(ch2, tb2, none) /\ \E a, k : <<a, k>> \in P /\ Owner(F, tb2, pt, a, k, c)
    BY <1>3, <1>4, <1>9, <1>10, <1>12 DEF Owner
  <2>5. \A a, k : <<a, k>> \in P /\ IsFile(tb2, a, k) => a = g /\ k = j
    BY <1>3, <1>4
  <2>6. Owner(F, tb2, pt, g, j, c) /\ Reaches(ch2, tb2[g][j].clust, tb2[g][j].size)
    BY <1>2, <1>4, <1>9, <1>11 DEF Owner
  <2>7. \A f \in Fil : ~OpenAt(F, f, Path(tb2, pt, g, j))
    BY <1>8 DEF Unused
  <2>8. \A a, k : <<a, k>> \in P /\ IsFile(tb2, a, k) =>
          /\ Owner(F, tb2, pt, a, k, c)
          /\ Busy(F, Path(tb2, pt, a, k)) \/ Reaches(ch2, tb2[a][k].clust, tb2[a][k].size)
          /\ \A f, e \in Fil : OpenAt(F, f, Path(tb2, pt, a, k)) /\ OpenAt(F, e, Path(tb2, pt, a, k)) => f = e
          /\ \A b, l : <<b, l>> \in P /\ IsFile(tb2, b, l) => b = a /\ l = k
    BY <2>5, <2>6, <2>7
  <2>9. \A f \in Fil : F[f].open =>
          \E a, k : IF <<a, k>> \in P THEN HasFile(F, ch2, tb2, pt, f, a, k)
                    ELSE IsFile(tb, a, k) /\ OpenAt(F, f, Path(tb2, pt, a, k))
    BY <1>13
  <2>10. \A a, k : <<a, k>> \notin P /\ IsFile(tb, a, k) =>
          /\ ch2[a][At(k)] = ch[a][At(k)]
          /\ \A f \in Fil : /\ OpenAt(F, f, Path(tb2, pt, a, k)) <=> OpenAt(F, f, Path(tb, pt, a, k))
                            /\ OpenAt(F, f, Path(tb, pt, a, k)) => F[f] = F[f]
    BY <1>10, <2>1
  <2>11. \A e : e # c /\ e # c => /\ e \in Held(ch2, tb2, none) <=> e \in Held(ch, tb, none)
                                  /\ e \in Held(ch, tb, none) => ch2[e] = ch[e]
    BY <1>10
  <2>12. \A a, k : <<a, k>> \notin P => SameSpot(tb, tb2, a, k)
    BY <1>3
  <2> QED
    BY <2>2, <2>3, <2>4, <2>8, <2>9, <2>10, <2>11, <2>12, Zenon DEF Passes
<1>15. FilesForm(F, ch2, tb2, pt, none)
  <2> HIDE DEF c
  <2> QED
    BY <1>1, <1>6, <1>10, <1>14, FilesPass
<1>16. FirstAt(F, tb, pt, h, i) = c /\ LongAt(F, tb2, pt, g, j) = LongAt(F, tb, pt, h, i)
  <2>1. \A f, e \in Fil : F[f].open /\ F[e].open /\ F[e].path = F[f].path => f = e
    BY <1>1 DEF FilesForm
  <2>2. ~Busy(F, Path(tb, pt, h, i)) /\ ~Busy(F, Path(tb2, pt, g, j))
    BY <1>9 DEF Unused, Busy
  <2>3. LongAt(F, tb, pt, h, i) = tb[h][i].size /\ LongAt(F, tb2, pt, g, j) = tb2[g][j].size
    BY <2>1, <2>2, LongIs DEF LongAt
  <2> QED
    BY <1>2, <1>7, <2>3
<1> DEFINE X == OnTables(ch2, tb)
<1>17. Only(v, w, X) /\ Spares(F, ch, tb, pt, X)
  <2>1. Only(v, w, X) /\ Chains(w, ch2)
    BY <1>2 DEF Renames, Stored
  <2>2. Spares(F, ch, tb, pt, X)
    BY <1>1, <1>2, <2>1, TablesSpare
  <2> QED
    BY <2>1, <2>2
<1> HIDE DEF X
<1>18. c = 0 \/ CarriesOn(v, ch, w, ch2, c)
  <2> SUFFICES ASSUME c # 0 PROVE CarriesOn(v, ch, w, ch2, c)
    OBVIOUS
  <2>1. c \in DOMAIN ch /\ ch2[c] = ch[c]
    BY <1>7, <1>10, <1>12
  <2>2. \A y \in X : ~On(ch[c], y)
    BY <1>4, <1>16, <1>17 DEF Spares
  <2> HIDE DEF c
  <2> QED
    BY <1>1, <1>17, <2>1, <2>2, AwayBefore
<1>19. ASSUME NEW a, NEW k, <<a, k>> \notin P PROVE StaysAt(F, ch, tb, pt, W, F, ch2, tb2, pt, W2, a, k)
  <2>1. SameSpot(tb, tb2, a, k) /\ ~(a = h /\ k = i)
    BY <1>3, <1>19
  <2>2. Listed(tb, a, k) => /\ Path(tb2, pt, a, k) \in DOMAIN W2 /\ Path(tb2, pt, a, k) = Path(tb, pt, a, k)
                            /\ W2[Path(tb2, pt, a, k)] = W[Path(tb, pt, a, k)]
    BY <2>1 DEF Relisted, SameSpot, Path
  <2>3. IsFile(tb, a, k) => Steady(F, tb, pt, F, tb2, pt, a, k)
    BY <2>2 DEF Steady, IsFile
  <2>4. IsFile(tb, a, k) => LET e == FirstAt(F, tb, pt, a, k) IN e = 0 \/ ch2[e] = ch[e]
    BY <1>1, <1>10 DEF FilesForm
  <2> QED
    BY <2>1, <2>2, <2>3, <2>4 DEF StaysAt
<1>20. ASSUME NEW a, NEW k, <<a, k>> \in P, Listed(tb2, a, k) PROVE ShownAt(w, F, ch2, tb2, pt, W2, a, k)
  <2>1. a = g /\ k = j
    BY <1>2, <1>3, <1>20
  <2> DEFINE y == W[Path(tb, pt, h, i)]
  <2>2. Path(tb2, pt, g, j) \in DOMAIN W2 /\ W2[Path(tb2, pt, g, j)] = y
    BY DEF Relisted
  <2>3. HasData(v, F, ch, tb, pt, h, i, y)
    BY <1>1, <1>2, <1>4 DEF Matches, ShownAt
  <2> HIDE DEF y
  <2>4. FirstAt(F, tb2, pt, g, j) = FirstAt(F, tb, pt, h, i) /\ c = FirstAt(F, tb, pt, h, i)
    BY <1>9, <1>16
  <2>5. HasData(w, F, ch2, tb2, pt, g, j, y)
    <3> HIDE DEF c
    <3> QED
      BY <1>1, <1>4, <1>16, <1>18, <2>3, <2>4, ViewCarried
  <2> QED
    BY <1>5, <2>1, <2>2, <2>5 DEF ShownAt
<1>21. \A q \in DOMAIN W2 : \E a, k : Listed(tb2, a, k) /\ Path(tb2, pt, a, k) = q
  BY DEF Relisted
<1>22. Matches(w, F, ch2, tb2, pt, W2)
  BY <1>1, <1>17, <1>19, <1>20, <1>21, AllKept
<1> QED
  BY <1>2, <1>6, <1>15, <1>22 DEF Intact, Whole, none

\* A directory under its new name, and all below it.
LEMMA RenamedDir ==
    ASSUME NEW v, NEW F, NEW ch, NEW tb, NEW pt, NEW W, Intact(v, F, ch, tb, pt, W),
           NEW w, NEW ch2, NEW tb2, NEW h, NEW i, NEW g, NEW j, NEW x, NEW m,
           Renames(v, w, ch, ch2, tb, tb2, h, i, g, j, x, m), Target(tb, g, m, h, i),
           tb[h][i].dir, x.dir, x.clust = tb[h][i].clust,
           NEW old, old = Path(tb, pt, h, i), Lone(F, old), ~IsPrefix(old, pt[g]),
           NEW W2, Retold(W, W2, old, Append(pt[g], m))
    PROVE  Faithful(w, F, W2)
<1> DEFINE none == {}
           z == 0
           new == Append(pt[g], m)
           pt2 == [k \in DOMAIN tb |-> IF IsPrefix(old, pt[k]) THEN Moved(pt[k], old, new) ELSE pt[k]]
<1>1. /\ Stored(v, ch, tb) /\ Tree(tb, pt) /\ FilesForm(F, ch, tb, pt, none) /\ Chains(v, ch)
      /\ Matches(v, F, ch, tb, pt, W)
  BY DEF Intact, Whole, Stored
<1>2. /\ Stored(w, ch2, tb2) /\ Longer(ch, ch2, g) /\ g \in DOMAIN tb /\ DOMAIN tb2 = DOMAIN tb /\ Sane(tb2)
      /\ ~Listed(tb2, h, i) /\ Listed(tb, h, i) /\ ~Listed(tb, g, j)
      /\ Listed(tb2, g, j) /\ tb2[g][j] = x /\ NameAt(tb2[g], j) = m
  BY DEF Renames
<1>3. Repath(tb, pt, pt2, old, new)
  BY DEF Repath
<1>4. new = Append(pt[g], NameAt(tb2[g], j)) /\ new = Append(pt[g], m) /\ Retold(W, W2, old, new)
  BY <1>2
<1> HIDE DEF none, z, new, pt2
<1>5. PICK P : /\ \A a, k : <<a, k>> \in P <=> (a = h /\ k = i) \/ (a = g /\ k = j)
               /\ Alike(tb, tb2, P) /\ \A a, k : <<a, k>> \notin P => SameSpot(tb, tb2, a, k)
  BY TwoSpots
<1>6. IsDir(tb, h, i) /\ IsDir(tb2, g, j)
  BY <1>2 DEF IsDir
<1>7. Moves(tb, tb2, pt, h, i, g, j)
  <2>1. \A a, k : ~(a = h /\ k = i) /\ ~(a = g /\ k = j) => SameSpot(tb, tb2, a, k)
    BY DEF Renames
  <2>2. \A k : Listed(tb, g, k) /\ NameAt(tb[g], k) = NameAt(tb2[g], j) => g = h /\ k = i
    BY <1>2 DEF Target
  <2> QED
    BY <1>2, <1>6, <2>1, <2>2 DEF Moves
<1>8. Tree(tb2, pt2) /\ IsSeq(old) /\ IsSeq(new)
  BY <1>1, <1>3, <1>4, <1>7, TreeMoves
<1>9. Lone(F, new)
  BY <1>1, <1>2, <1>4, <1>7, <1>8, LoneToo
<1>10. PathsKept(F, tb, tb2, pt, pt2, P)
  BY <1>1, <1>3, <1>5, <1>8, <1>9, PathsKeep
<1>11. \A a, k : <<a, k>> \in P => ~IsFile(tb, a, k) /\ ~IsFile(tb2, a, k)
  BY <1>2, <1>5, <1>6 DEF IsFile, IsDir
<1>12. /\ \A a, k : IsFile(tb, a, k) => ch2[a][At(k)] = ch[a][At(k)]
       /\ Held(ch2, tb2, none) = Held(ch, tb, none) /\ \A e \in Held(ch, tb, none) : ch2[e] = ch[e]
       /\ 0 \notin DOMAIN ch /\ 0 \notin DOMAIN ch2 /\ 0 \notin DOMAIN tb
  BY <1>1, <1>2, GrownFiles
<1>13. \A f \in Fil : F[f].open => \E a, k : <<a, k>> \notin P /\ IsFile(tb, a, k) /\ OpenAt(F, f, Path(tb2, pt2, a, k))
  <2> SUFFICES ASSUME NEW f \in Fil, F[f].open
               PROVE  \E a, k : <<a, k>> \notin P /\ IsFile(tb, a, k) /\ OpenAt(F, f, Path(tb2, pt2, a, k))
    OBVIOUS
  <2>1. PICK a, k : HasFile(F, ch, tb, pt, f, a, k)
    BY <1>1 DEF FilesForm
  <2>2. IsFile(tb, a, k) /\ OpenAt(F, f, Path(tb, pt, a, k))
    BY <2>1 DEF HasFile
  <2>3. <<a, k>> \notin P
    BY <1>11, <2>2
  <2> QED
    BY <1>10, <2>2, <2>3 DEF PathsKept
<1>14. Passes(F, ch, tb, pt, none, F, ch2, tb2, pt2, none, P, z, z)
  <2>1. z = 0 /\ z \notin Held(ch, tb, none) /\ z \notin Held(ch2, tb2, none)
    BY <1>12 DEF z, Held
  <2>9. \A f \in Fil : F[f].open =>
          \E a, k : IF <<a, k>> \in P THEN HasFile(F, ch2, tb2, pt2, f, a, k)
                    ELSE IsFile(tb, a, k) /\ OpenAt(F, f, Path(tb2, pt2, a, k))
    BY <1>13
  <2>10. \A a, k : <<a, k>> \notin P /\ IsFile(tb, a, k) =>
          /\ ch2[a][At(k)] = ch[a][At(k)]
          /\ \A f \in Fil : /\ OpenAt(F, f, Path(tb2, pt2, a, k)) <=> OpenAt(F, f, Path(tb, pt, a, k))
                            /\ OpenAt(F, f, Path(tb, pt, a, k)) => F[f] = F[f]
    BY <1>10, <1>12 DEF PathsKept
  <2>11. \A e : e # z /\ e # z => /\ e \in Held(ch2, tb2, none) <=> e \in Held(ch, tb, none)
                                  /\ e \in Held(ch, tb, none) => ch2[e] = ch[e]
    BY <1>12
  <2>12. \A a, k : <<a, k>> \notin P => SameSpot(tb, tb2, a, k)
    BY <1>5
  <2> QED
    BY <1>11, <2>1, <2>9, <2>10, <2>11, <2>12, Zenon DEF Passes
<1>15. FilesForm(F, ch2, tb2, pt2, none)
  BY <1>1, <1>8, <1>12, <1>14, FilesPass
<1>16. Whole(w, F, ch2, tb2, pt2)
  BY <1>2, <1>8, <1>15 DEF Whole, none
<1>17. Relisted(tb, pt, W, tb2, pt2, W2, h, i, g, j)
  BY <1>1, <1>3, <1>4, <1>8, RelistedIs
<1> DEFINE X == OnTables(ch2, tb)
<1>18. Only(v, w, X) /\ Spares(F, ch, tb, pt, X)
  <2>1. Only(v, w, X) /\ Chains(w, ch2)
    BY <1>2 DEF Renames, Stored
  <2>2. Spares(F, ch, tb, pt, X)
    BY <1>1, <1>2, <2>1, TablesSpare
  <2> QED
    BY <2>1, <2>2
<1> HIDE DEF X
<1>19. ASSUME NEW a, NEW k, <<a, k>> \notin P PROVE StaysAt(F, ch, tb, pt, W, F, ch2, tb2, pt2, W2, a, k)
  <2>1. SameSpot(tb, tb2, a, k) /\ ~(a = h /\ k = i)
    BY <1>5, <1>19
  <2>2. Listed(tb, a, k) => /\ Path(tb2, pt2, a, k) \in DOMAIN W2
                            /\ W2[Path(tb2, pt2, a, k)] = W[Path(tb, pt, a, k)]
    BY <1>17, <2>1 DEF Relisted
  <2>3. IsFile(tb, a, k) => Steady(F, tb, pt, F, tb2, pt2, a, k)
    BY <1>10, <1>19 DEF Steady, PathsKept
  <2>4. IsFile(tb, a, k) => LET e == FirstAt(F, tb, pt, a, k) IN e = 0 \/ ch2[e] = ch[e]
    BY <1>1, <1>12 DEF FilesForm
  <2> QED
    BY <2>1, <2>2, <2>3, <2>4 DEF StaysAt
<1>20. ASSUME NEW a, NEW k, <<a, k>> \in P, Listed(tb2, a, k) PROVE ShownAt(w, F, ch2, tb2, pt2, W2, a, k)
  <2>1. a = g /\ k = j
    BY <1>2, <1>5, <1>20
  <2>2. Path(tb2, pt2, g, j) \in DOMAIN W2 /\ W2[Path(tb2, pt2, g, j)] = W[Path(tb, pt, h, i)]
    BY <1>17 DEF Relisted
  <2>3. W[Path(tb, pt, h, i)] = Directory
    BY <1>1, <1>2, <1>6 DEF Matches, ShownAt
  <2> QED
    BY <1>11, <1>20, <2>1, <2>2, <2>3 DEF ShownAt
<1>21. \A q \in DOMAIN W2 : \E a, k : Listed(tb2, a, k) /\ Path(tb2, pt2, a, k) = q
  BY <1>17 DEF Relisted
<1>22. Matches(w, F, ch2, tb2, pt2, W2)
  BY <1>1, <1>18, <1>19, <1>20, <1>21, AllKept
<1>23. Intact(w, F, ch2, tb2, pt2, W2)
  BY <1>2, <1>8, <1>15, <1>22 DEF Intact, Whole, none
<1> QED
  BY <1>23 DEF Faithful

\* The object at h, i is at g, j after that.
LEMMA RenamedGood ==
    ASSUME NEW v, NEW F, NEW ch, NEW tb, NEW pt, NEW W, Intact(v, F, ch, tb, pt, W),
           NEW w, NEW ch2, NEW tb2, NEW h, NEW i, NEW g, NEW j, NEW x, NEW m,
           Renames(v, w, ch, ch2, tb, tb2, h, i, g, j, x, m), Target(tb, g, m, h, i),
           x.dir = tb[h][i].dir, x.clust = tb[h][i].clust, x.size = tb[h][i].size,
           NEW old, old = Path(tb, pt, h, i), Lone(F, old), ~IsPrefix(old, pt[g]), IsSeq(old),
           NEW new, new = Append(pt[g], m), IsSeq(new), NEW W2, Retold(W, W2, old, new)
    PROVE  Faithful(w, F, W2)
<1>1. CASE tb[h][i].dir
  <2>1. Retold(W, W2, old, Append(pt[g], m))
    OBVIOUS
  <2> QED
    BY <1>1, <2>1, RenamedDir
<1>2. CASE ~tb[h][i].dir
  <2>1. Unused(F, tb, pt, h, i)
    BY LoneUnused
  <2>2. Tree(tb, pt) /\ IsFile(tb, h, i) /\ Matches(v, F, ch, tb, pt, W)
    BY <1>2 DEF Intact, Whole, Renames, IsFile
  <2>3. Repath(tb, pt, pt, old, new)
    BY <2>2, FileLeaf DEF Repath
  <2>4. Relisted(tb, pt, W, tb2, pt, W2, h, i, g, j)
    BY <2>2, <2>3, RelistedIs
  <2>5. Intact(w, F, ch2, tb2, pt, W2)
    BY <1>2, <2>1, <2>4, RenamedFile
  <2> QED
    BY <2>5 DEF Faithful
<1> QED
  BY <1>1, <1>2

\* The library after the new entry D, with what the old one F has, is made, and the
\* old one is removed.
Retitled(D, e) == PutSlot(D.s, D.chain, D.pos, [e EXCEPT !.sfn = Entry(D).sfn])
Renaming(D, F, e, dc) == dir_remove(Dotted(Retitled(D, e), e.clust, dc, e.dir /\ F.dc # dc), F)

\* The two entries of f_rename, and the "..".
LEMMA RenamingIs ==
    ASSUME NEW v, NEW fs, NEW ch, NEW tb, NEW pt, NEW W, Intact(v, fs, ch, tb, pt, W),
           NEW d, NEW gone, NEW W2,
           NEW F, NEW old, IsSeq(old), NEW h, Finds(F, ch, tb, pt, old, h), Lone(fs, old),
           NEW G, Window(d, gone, G.s), G.s.vol = v, NEW new, NEW g, Aimed(G, tb, pt, new, g, h, F.pos),
           IsPrefix(old, new) => old = new, IsSeq(new), Retold(W, W2, old, new),
           NEW D, D = dir_register(G.s, G.dc, Last(new)), NEW e, e = Entry(F)
    PROVE  /\ D.pos = 0 => Faithful(D.s.vol, fs, W)
           /\ D.pos # 0 => /\ Window(d, gone, Renaming(D, F, e, G.dc))
                           /\ Faithful(Renaming(D, F, e, G.dc).vol, fs, W2)
<1> DEFINE m == Last(new)
           i == F.pos
           dc == G.dc
           S == G.s
<1>1. /\ Stored(v, ch, tb) /\ Tree(tb, pt) /\ FilesForm(fs, ch, tb, pt, {}) /\ Sane(tb) /\ 0 \notin DOMAIN tb
      /\ Matches(v, fs, ch, tb, pt, W)
  BY HeadsAre, TreeIs DEF Intact, Whole, TreeForm, Stored
<1>2. /\ h \in DOMAIN tb /\ Listed(tb, h, i) /\ e = tb[h][i] /\ Path(tb, pt, h, i) = old
  BY DEF Finds
<1>3. /\ g \in DOMAIN tb /\ g = (IF dc = 0 THEN Root ELSE dc) /\ IsSeq(pt[g]) /\ Append(pt[g], m) = new
      /\ Target(tb, g, m, h, i)
  BY DEF Aimed
<1>4. Window(d, gone, S) /\ Stored(S.vol, ch, tb) /\ S.vol = v
  BY <1>1
<1> HIDE DEF m, dc, S, i
<1>5. PICK ch2, tb2 : Enters(d, gone, v, dir_register(S, dc, m), ch, ch2, tb, tb2, g, m)
  BY <1>1, <1>3, <1>4, EntersIs
<1>6. Enters(d, gone, v, D, ch, ch2, tb, tb2, g, m)
  BY <1>5 DEF S, dc, m
<1>7. ~IsPrefix(old, pt[g])
  <2> DEFINE q == pt[g]
  <2>1. IsSeq(q) /\ new = Append(q, m)
    BY <1>3
  <2> HIDE DEF q
  <2>2. ~IsPrefix(old, q)
    BY <2>1, NotBelow
  <2> QED
    BY <2>2 DEF q
<1>8. ASSUME D.pos = 0 PROVE Faithful(D.s.vol, fs, W)
  <2>1. Intact(D.s.vol, fs, ch2, tb2, pt, W)
    BY <1>1, <1>6, <1>8, EntersNot
  <2> QED
    BY <2>1 DEF Faithful
<1>9. ASSUME D.pos # 0
      PROVE  Window(d, gone, Renaming(D, F, e, G.dc)) /\ Faithful(Renaming(D, F, e, G.dc).vol, fs, W2)
  <2> DEFINE x == [e EXCEPT !.sfn = Entry(D).sfn]
             N == PutSlot(D.s, D.chain, D.pos, x)
             c == e.clust
             really == e.dir /\ F.dc # dc
             P == Dotted(N, c, dc, really)
             R == dir_remove(P, F)
  <2>1. IsObject(e)
    BY <1>1, <1>2 DEF Sane, WellFormed, Listed
  <2>2. /\ IsObject(x) /\ x.sfn = Entry(D).sfn /\ x.dir = e.dir /\ x.clust = e.clust /\ x.size = e.size
    <3> DEFINE n == Entry(D).sfn
    <3>1. x = [e EXCEPT !.sfn = n]
      OBVIOUS
    <3> HIDE DEF x, n
    <3> QED
      BY <2>1, <3>1, RetitledIs DEF n
  <2>3. really => c \in DOMAIN tb /\ c # Root
    BY <1>1, <1>2, TreeIs DEF TreeForm, IsDir
  <2>4. Renaming(D, F, e, G.dc) = R
    BY DEF Renaming, Retitled, dc
  <2>9. N = PutSlot(D.s, D.chain, D.pos, x) /\ P = Dotted(N, c, dc, really)
    OBVIOUS
  <2> HIDE DEF x, N, c, really, P
  <2>5. Window(d, gone, R)
    <3>1. Window(d, gone, D.s)
      BY <1>6 DEF Enters
    <3>2. Window(d, gone, N)
      BY <2>9, <3>1, PutSlotKeeps
    <3>3. Window(d, gone, P)
      BY <2>9, <3>2, PutSlotKeeps DEF Dotted
    <3> QED
      BY <3>3, DirRemove
  <2>6. \E tb3 : Renames(v, R.vol, ch, ch2, tb, tb3, h, F.pos, g, D.pos, x, m)
    BY <1>1, <1>6, <1>9, <2>2, <2>3, <2>9, RenamesIs
  <2> DEFINE w == R.vol
             j == D.pos
  <2>7. PICK tb3 : Renames(v, w, ch, ch2, tb, tb3, h, i, g, j, x, m)
    BY <2>6 DEF i
  <2> HIDE DEF w, j
  <2>8. Faithful(w, fs, W2)
    <3>1. new = Append(pt[g], m) /\ old = Path(tb, pt, h, i)
      BY <1>2, <1>3
    <3> QED
      BY <1>2, <1>3, <1>7, <2>2, <2>7, <3>1, RenamedGood
  <2> QED
    BY <2>4, <2>5, <2>8 DEF w
<1> QED
  BY <1>8, <1>9

\* f_rename keeps the shape.
LEMMA RenameIs ==
    ASSUME NEW ch, NEW tb, NEW pt, Intact(lib.vol, fil, ch, tb, pt, want), Typed(fil), WindowInv,
           NEW old, IsSeq(old), old # <<>>, NEW new, IsSeq(new), new # <<>>, f_rename(old, new)
    PROVE  Faithful(lib'.vol, fil', want') /\ Typed(fil')
<1> DEFINE F == follow_path(lib, old)
           G == follow_path(F.s, new)
           e == Entry(F)
           D == dir_register(G.s, G.dc, Last(new))
           N == PutSlot(D.s, D.chain, D.pos, [e EXCEPT !.sfn = Entry(D).sfn])
           P == IF e.dir /\ F.dc # G.dc
                THEN PutSlot(N, <<e.clust>>, 2, [k |-> "dots", clust |-> G.dc]) ELSE N
           W2 == Renamed(want, old, new)
           Hits == G.res = "NO_FILE" \/ (G.res = "OK" /\ G.dc = F.dc /\ G.pos = F.pos)
<1>1. /\ Stored(lib.vol, ch, tb) /\ Tree(tb, pt) /\ Window(disk, crashed, lib) /\ Faithful(lib.vol, fil, want)
      /\ 0 \notin DOMAIN tb /\ Matches(lib.vol, fil, ch, tb, pt, want)
  BY HeadsAre DEF Intact, Whole, Faithful, WindowInv, Stored
<1>2. /\ fil' = fil
      /\ \/ lib' = F.s /\ want' = want
         \/ lib' = G.s /\ want' = want
         \/ F.res = "OK" /\ Hits /\ D.pos = 0 /\ lib' = D.s /\ want' = want
         \/ F.res = "OK" /\ Hits /\ D.pos # 0 /\ lib' = sync_fs(dir_remove(P, F)) /\ want' = W2
  BY DEF f_rename, Done
<1>3. Lone(fil, old) /\ (IsPrefix(old, new) => old = new)
  BY DEF f_rename, Legal, OpenFils, Lone
<1>4. Followed(disk, crashed, lib.vol, ch, tb, pt, old, F)
  BY <1>1, FollowFinds
<1>5. dir_remove(P, F) = Renaming(D, F, e, G.dc)
  BY DEF Renaming, Retitled, Dotted
<1> HIDE DEF F, P, W2
<1>6. F.s.vol = lib.vol /\ Window(disk, crashed, F.s) /\ (F.res = "OK" => \E h : Finds(F, ch, tb, pt, old, h))
  BY <1>4 DEF Followed
<1>7. Followed(disk, crashed, lib.vol, ch, tb, pt, new, G)
  <2> DEFINE S == F.s
  <2>1. Window(disk, crashed, S) /\ Stored(S.vol, ch, tb) /\ S.vol = lib.vol
    BY <1>1, <1>6
  <2> HIDE DEF S
  <2>2. Followed(disk, crashed, S.vol, ch, tb, pt, new, follow_path(S, new))
    BY <1>1, <2>1, FollowFinds
  <2> QED
    BY <2>1, <2>2 DEF S
<1> HIDE DEF G
<1>8. Window(disk, crashed, G.s) /\ G.s.vol = lib.vol
  BY <1>7 DEF Followed
<1> HIDE DEF D, e
<1>9. ASSUME F.res = "OK", Hits
      PROVE  /\ D.pos = 0 => Faithful(D.s.vol, fil, want)
             /\ D.pos # 0 => Faithful(sync_fs(dir_remove(P, F)).vol, fil, W2)
  <2>1. PICK h : Finds(F, ch, tb, pt, old, h)
    BY <1>6, <1>9
  <2>2. PICK g : Aimed(G, tb, pt, new, g, h, F.pos)
    BY <1>1, <1>7, <1>9, <2>1, AimedIs
  <2>3. D = dir_register(G.s, G.dc, Last(new)) /\ e = Entry(F)
    BY DEF D, e
  <2>8. Retold(want, W2, old, new)
    <3> DEFINE m == Last(new)
               i == F.pos
    <3>1. /\ g \in DOMAIN tb /\ new = Append(pt[g], m) /\ Target(tb, g, m, h, i) /\ old = Path(tb, pt, h, i)
      BY <2>1, <2>2 DEF Aimed, Finds
    <3> HIDE DEF m, i
    <3>2. ASSUME NEW a, NEW k, Listed(tb, a, k), IsPrefix(new, Path(tb, pt, a, k)) PROVE IsPrefix(old, Path(tb, pt, a, k))
      BY <1>1, <3>1, <3>2, PathBelow
    <3>3. ASSUME NEW q \in DOMAIN want PROVE IsSeq(q) /\ (IsPrefix(new, q) => IsPrefix(old, q))
      <4>1. PICK a, k : Listed(tb, a, k) /\ Path(tb, pt, a, k) = q
        BY <1>1 DEF Matches
      <4> QED
        BY <1>1, <3>2, <4>1, PathIs
    <3> QED
      BY <3>3, RetoldIs DEF W2
  <2> DEFINE v == lib.vol
             fs == fil
             W == want
             d == disk
             gone == crashed
             R == Renaming(D, F, e, G.dc)
  <2>4. /\ Intact(v, fs, ch, tb, pt, W) /\ Lone(fs, old) /\ Window(d, gone, G.s) /\ G.s.vol = v
        /\ Retold(W, W2, old, new)
    BY <1>3, <1>8, <2>8
  <2> HIDE DEF v, fs, d, gone, W
  <2>5. D.pos = 0 => Faithful(D.s.vol, fs, W)
    BY <1>3, <2>1, <2>2, <2>3, <2>4, RenamingIs, ZenonT(30)
  <2>6. D.pos # 0 => Window(d, gone, R) /\ Faithful(R.vol, fs, W2)
    BY <1>3, <2>1, <2>2, <2>3, <2>4, RenamingIs, ZenonT(30)
  <2> HIDE DEF R
  <2>7. D.pos # 0 => Faithful(sync_fs(R).vol, fs, W2)
    BY <2>6, FaithfulSync
  <2> QED
    BY <1>5, <2>5, <2>7 DEF R, fs, W
<1> QED
  BY <1>1, <1>2, <1>6, <1>8, <1>9

-----------------------------------------------------------------------------
(* What lies in the files at the start.                                    *)

\* An object of the volume is one of a slot.
LEMMA ObjOf ==
    ASSUME NEW tb, NEW pt, NEW o \in AllObjs(tb, pt)
    PROVE  \E h, i : Listed(tb, h, i) /\ o = Obj(tb, pt, h, i)
<1>1. PICK g \in DOMAIN tb : o \in Objs(tb, pt, g)
  BY DEF AllObjs
<1>2. PICK j \in 1 .. Len(tb[g]) : tb[g][j].k = "sfn" /\ o = Obj(tb, pt, g, j)
  BY <1>1 DEF Objs
<1>3. Listed(tb, g, j)
  BY <1>1, <1>2 DEF Listed
<1> QED
  BY <1>2, <1>3

\* The slot of an object is in its fields.
LEMMA ObjHas ==
    ASSUME NEW tb, NEW pt, NEW h, NEW i, Listed(tb, h, i)
    PROVE  /\ Obj(tb, pt, h, i) \in AllObjs(tb, pt) /\ Obj(tb, pt, h, i).path = Path(tb, pt, h, i)
           /\ Obj(tb, pt, h, i).dir = tb[h][i].dir /\ Obj(tb, pt, h, i).clust = tb[h][i].clust
           /\ Obj(tb, pt, h, i).size = tb[h][i].size
BY DEF Obj, AllObjs, Objs, Listed

\* Content is what the clusters of the chain hold.
LEMMA ContentIs ==
    ASSUME NEW v, NEW ch, Chains(v, ch), NEW c, NEW n \in Nat, c = 0 => n = 0, c # 0 => c \in DOMAIN ch
    PROVE  /\ Len(Content(v, c, n)) = n /\ DOMAIN Content(v, c, n) = 1 .. n
           /\ Content(v, c, n) = [j \in 1 .. n |-> Content(v, c, n)[j]]
           /\ \A j \in 1 .. n : Content(v, c, n)[j] = v[Data(ch[c][j])]
<1> DEFINE s == Chain(v, c)
           C == [j \in 1 .. n |-> v[Data(s[j])]]
<1>1. Content(v, c, n) = C
  BY DEF Content
<1>2. Len(C) = n /\ DOMAIN C = 1 .. n /\ C = [j \in 1 .. n |-> C[j]] /\ \A j \in 1 .. n : C[j] = v[Data(s[j])]
  OBVIOUS
<1>3. c # 0 => s = ch[c]
  <2> SUFFICES ASSUME c # 0 PROVE s = ch[c]
    OBVIOUS
  <2>1. Linked(v, ch[c]) /\ ch[c][1] = c
    BY DEF Chains
  <2> QED
    BY <2>1, ChainIs
<1> HIDE DEF C, s
<1>4. \A j \in 1 .. n : C[j] = v[Data(ch[c][j])]
  <2> SUFFICES ASSUME NEW j \in 1 .. n PROVE C[j] = v[Data(ch[c][j])]
    OBVIOUS
  <2>1. c # 0
    OBVIOUS
  <2> QED
    BY <1>2, <1>3, <2>1
<1> QED
  BY <1>1, <1>2, <1>4

\* Shown, path by path.
LEMMA ShownIs ==
    ASSUME NEW v, NEW ch, NEW tb, Stored(v, ch, tb), NEW pt, Tree(tb, pt)
    PROVE  /\ \A q : q \in DOMAIN Shown(v) <=> \E h, i : Listed(tb, h, i) /\ Path(tb, pt, h, i) = q
           /\ \A h, i : Listed(tb, h, i) =>
                Shown(v)[Path(tb, pt, h, i)] = IF tb[h][i].dir THEN Directory
                                               ELSE File(Content(v, tb[h][i].clust, tb[h][i].size))
<1> DEFINE objs == Objects(v)
           The(p) == CHOOSE x \in objs : x.path = p
           D == {o.path : o \in objs}
           S == [p \in D |-> IF The(p).dir THEN Directory ELSE File(Content(v, The(p).clust, The(p).size))]
<1>1. objs = AllObjs(tb, pt)
  BY ObjectsIs
<1>2. Shown(v) = S
  BY DEF Shown
<1> HIDE DEF objs
<1>3. \A q : q \in D <=> \E h, i : Listed(tb, h, i) /\ Path(tb, pt, h, i) = q
  <2>1. ASSUME NEW q \in D PROVE \E h, i : Listed(tb, h, i) /\ Path(tb, pt, h, i) = q
    <3>1. PICK o \in objs : o.path = q
      BY <2>1
    <3>2. PICK h, i : Listed(tb, h, i) /\ o = Obj(tb, pt, h, i)
      BY <1>1, <3>1, ObjOf
    <3> QED
      BY <3>1, <3>2, ObjHas
  <2>2. ASSUME NEW h, NEW i, Listed(tb, h, i) PROVE Path(tb, pt, h, i) \in D
    BY <1>1, <2>2, ObjHas
  <2> HIDE DEF D
  <2> QED
    BY <2>1, <2>2
<1>4. ASSUME NEW h, NEW i, Listed(tb, h, i)
      PROVE  S[Path(tb, pt, h, i)] = IF tb[h][i].dir THEN Directory
                                     ELSE File(Content(v, tb[h][i].clust, tb[h][i].size))
  <2> DEFINE p == Path(tb, pt, h, i)
             o == The(p)
             x == Obj(tb, pt, h, i)
  <2>1. x \in objs /\ x.path = p
    BY <1>1, <1>4, ObjHas
  <2>2. o \in objs /\ o.path = p
    <3> HIDE DEF x, p
    <3> QED
      BY <2>1
  <2>3. p \in D /\ S[p] = IF o.dir THEN Directory ELSE File(Content(v, o.clust, o.size))
    BY <2>1
  <2> HIDE DEF o, S, D
  <2>4. PICK a, k : Listed(tb, a, k) /\ o = Obj(tb, pt, a, k)
    BY <1>1, <2>2, ObjOf
  <2>5. Path(tb, pt, a, k) = p
    BY <2>2, <2>4, ObjHas
  <2>6. a = h /\ k = i
    BY <1>4, <2>4, <2>5, PathsApart
  <2>7. o.dir = tb[h][i].dir /\ o.clust = tb[h][i].clust /\ o.size = tb[h][i].size
    BY <1>4, <2>4, <2>6, ObjHas
  <2> QED
    BY <2>3, <2>7
<1>5. DOMAIN S = D
  OBVIOUS
<1> HIDE DEF S, D
<1> QED
  BY <1>2, <1>3, <1>4, <1>5

\* At the start the callers take what is there for what they want.
LEMMA ShownMatches ==
    ASSUME NEW v, NEW ch, NEW tb, NEW pt, Whole(v, AllClosed, ch, tb, pt)
    PROVE  Matches(v, AllClosed, ch, tb, pt, Shown(v))
<1> DEFINE F == AllClosed
           W == Shown(v)
           none == {}
<1>1. Stored(v, ch, tb) /\ Tree(tb, pt) /\ FilesForm(F, ch, tb, pt, none) /\ Chains(v, ch)
  BY DEF Whole, Stored
<1>2. /\ \A q : q \in DOMAIN W <=> \E h, i : Listed(tb, h, i) /\ Path(tb, pt, h, i) = q
      /\ \A h, i : Listed(tb, h, i) =>
            W[Path(tb, pt, h, i)] = IF tb[h][i].dir THEN Directory
                                    ELSE File(Content(v, tb[h][i].clust, tb[h][i].size))
  BY <1>1, ShownIs
<1>3. \A f \in Fil : ~F[f].open
  BY DEF AllClosed, Closed
<1> HIDE DEF F, W, none
<1>4. ASSUME NEW h, NEW i, IsFile(tb, h, i)
      PROVE  HasData(v, F, ch, tb, pt, h, i, W[Path(tb, pt, h, i)])
  <2> DEFINE c == tb[h][i].clust
             n == tb[h][i].size
             C == Content(v, c, n)
             y == File(C)
  <2>1. W[Path(tb, pt, h, i)] = y
    BY <1>2, <1>4 DEF IsFile
  <2>2. Unused(F, tb, pt, h, i)
    BY <1>3 DEF Unused, OpenAt
  <2>3. FirstAt(F, tb, pt, h, i) = c /\ ~Busy(F, Path(tb, pt, h, i))
    BY <2>2, UnusedFirst
  <2>4. LongAt(F, tb, pt, h, i) = n
    BY <2>3 DEF LongAt, Long
  <2>5. n \in Nat /\ (c = 0 => n = 0) /\ (c # 0 => c \in DOMAIN ch)
    <3> DEFINE e == FirstAt(F, tb, pt, h, i)
    <3>1. /\ LongAt(F, tb, pt, h, i) \in Nat /\ (e = 0 => LongAt(F, tb, pt, h, i) = 0)
          /\ (e # 0 => e \in Held(ch, tb, none))
      BY <1>1, <1>4, LongFits
    <3> QED
      BY <2>3, <2>4, <3>1 DEF Held
  <2> HIDE DEF c, n
  <2>6. /\ Len(C) = n /\ C = [j \in 1 .. n |-> C[j]] /\ \A j \in 1 .. n : C[j] = v[Data(ch[c][j])]
    BY <1>1, <2>5, ContentIs
  <2>7. y.data = C /\ y = File(y.data)
    BY DEF File
  <2> HIDE DEF C, y
  <2>8. Holds(v, ch[c], n, C)
    BY <2>6 DEF Holds
  <2> QED
    BY <2>1, <2>3, <2>4, <2>7, <2>8 DEF HasData
<1>5. ASSUME NEW h, NEW i, Listed(tb, h, i) PROVE ShownAt(v, F, ch, tb, pt, W, h, i)
  <2>1. Path(tb, pt, h, i) \in DOMAIN W
    BY <1>2, <1>5
  <2>2. IsDir(tb, h, i) => W[Path(tb, pt, h, i)] = Directory
    BY <1>2, <1>5 DEF IsDir
  <2> QED
    BY <1>4, <2>1, <2>2 DEF ShownAt
<1> QED
  BY <1>2, <1>5 DEF Matches, F, W

-----------------------------------------------------------------------------
(* Every call keeps the shape.                                             *)

Shaped == Typed(fil) /\ Faithful(lib.vol, fil, want)
ShapeInv == WindowInv /\ (crashed \/ Shaped)

\* A volume whose files hold what they should is sound.
LEMMA FaithfulGood ==
    ASSUME NEW v, NEW F, NEW W, Faithful(v, F, W)
    PROVE  Good(v, F)
BY DEF Faithful, Intact, Good

\* A volume that is Sound has the shape.
LEMMA ImageGood ==
    ASSUME NEW v \in Images
    PROVE  Faithful(v, AllClosed, Shown(v))
<1> DEFINE none == {}
<1>1. \E ch, tb, pt : Stored(v, ch, tb) /\ Tree(tb, pt) /\ Files(AllClosed, ch, tb, pt)
  BY ImagesAssumption DEF Sound
<1>2. PICK ch, tb, pt : Stored(v, ch, tb) /\ Tree(tb, pt) /\ Files(AllClosed, ch, tb, pt)
  BY <1>1
<1>3. FilesForm(AllClosed, ch, tb, pt, {})
  BY <1>2, FilesIs
<1>4. Whole(v, AllClosed, ch, tb, pt)
  BY <1>2, <1>3 DEF Whole
<1>5. Matches(v, AllClosed, ch, tb, pt, Shown(v))
  BY <1>4, ShownMatches
<1> QED
  BY <1>4, <1>5 DEF Faithful, Intact

\* The shape at the start, with all files closed.
LEMMA InitShape == Init => ShapeInv
<1> SUFFICES ASSUME Init PROVE ShapeInv
  OBVIOUS
<1>1. disk \in Images /\ lib = Mounted(disk) /\ fil = AllClosed /\ want = Shown(disk)
  BY DEF Init, AllClosed
<1>2. lib.vol = disk
  BY <1>1 DEF Mounted
<1>3. Faithful(lib.vol, fil, want)
  BY <1>1, <1>2, ImageGood
<1>4. Typed(fil)
  BY <1>1 DEF Typed, AllClosed, Closed
<1>5. WindowInv
  BY InitWindow
<1> QED
  BY <1>3, <1>4, <1>5 DEF ShapeInv, Shaped

\* Only Crash has the power fail, once.
LEMMA GoneStays == crashed /\ [Next]_vars => crashed'
<1> SUFFICES ASSUME crashed, [Next]_vars PROVE crashed'
  OBVIOUS
<1>1. ASSUME NEW f, f_read(f) PROVE crashed'
  BY <1>1, Zenon DEF f_read, Done
<1>2. ASSUME NEW f, f_write(f) PROVE crashed'
  BY <1>2, Zenon DEF f_write, Done
<1>3. ASSUME NEW f, f_truncate(f) PROVE crashed'
  BY <1>3, Zenon DEF f_truncate, Done
<1>4. ASSUME NEW f, f_sync(f) \/ f_close(f) PROVE crashed'
  BY <1>4, Zenon DEF f_sync, f_close, Sync, Done
<1>5. ASSUME NEW f, NEW n, f_lseek(f, n) PROVE crashed'
  BY <1>5, Zenon DEF f_lseek, Done
<1>6. ASSUME NEW f, NEW p, NEW m, f_open(f, p, m) PROVE crashed'
  BY <1>6, Zenon DEF f_open, Done
<1>7. ASSUME NEW p, f_stat(p) \/ f_unlink(p) PROVE crashed'
  BY <1>7, Zenon DEF f_stat, f_unlink, Done
<1>8. ASSUME NEW p, NEW q, f_rename(p, q) PROVE crashed'
  <2>1. ASSUME NEW S, NEW t, NEW s, NEW r, Done(S, t, s, r) PROVE crashed'
    BY <2>1 DEF Done
  <2> QED
    BY <1>8, <2>1, Zenon DEF f_rename
<1>9. ASSUME NEW p, f_mkdir(p) PROVE crashed'
  BY <1>9, Zenon DEF f_mkdir, Done
<1>10. CASE f_getfree \/ DiskWrite \/ Crash
  BY <1>10 DEF f_getfree, DiskWrite, Crash, Done
<1>11. CASE UNCHANGED vars
  BY <1>11 DEF vars
<1> QED
  BY <1>1, <1>2, <1>3, <1>4, <1>5, <1>6, <1>7, <1>8, <1>9, <1>10, <1>11, Zenon DEF Next

\* Every step keeps the shape until the power fails.
LEMMA NextShape == ShapeInv /\ [Next]_vars => ShapeInv'
<1> SUFFICES ASSUME ShapeInv, [Next]_vars PROVE ShapeInv'
  OBVIOUS
<1>1. WindowInv /\ WindowInv'
  BY NextKeeps DEF ShapeInv
<1>2. CASE crashed
  <2>1. crashed'
    BY <1>2, GoneStays
  <2> QED
    BY <1>1, <2>1 DEF ShapeInv
<1>3. CASE ~crashed
  <2>1. Typed(fil) /\ Faithful(lib.vol, fil, want)
    BY <1>3 DEF ShapeInv, Shaped
  <2>2. PICK ch, tb, pt : Intact(lib.vol, fil, ch, tb, pt, want)
    BY <2>1 DEF Faithful
  <2> DEFINE Fine == Faithful(lib'.vol, fil', want') /\ Typed(fil')
  <2>4. \A p \in Paths \cup Dirs : p # <<>> /\ IsSeq(p)
    BY ImagesAssumption
  <2>5. ASSUME lib'.vol = lib.vol, fil' = fil, want' = want PROVE Fine
    BY <2>1, <2>5
  <2>6. ASSUME NEW f \in Fil, NEW p \in Paths, NEW m \in Modes, f_open(f, p, m) PROVE Fine
    BY <1>1, <2>1, <2>2, <2>4, <2>6, OpenIs
  <2>7. ASSUME NEW f \in Fil, f_read(f) PROVE Fine
    BY <1>1, <2>1, <2>2, <2>7, ReadIs
  <2>8. ASSUME NEW f \in Fil, f_write(f) PROVE Fine
    BY <1>1, <2>1, <2>2, <2>8, WriteIs
  <2>9. ASSUME NEW f \in Fil, f_truncate(f) PROVE Fine
    BY <1>1, <2>1, <2>2, <2>9, TruncateIs
  <2>10. ASSUME NEW f \in Fil, f_sync(f) \/ f_close(f) PROVE Fine
    BY <1>1, <2>1, <2>2, <2>10, SyncIs
  <2>11. ASSUME NEW f \in Fil, NEW n \in 0 .. Size, f_lseek(f, n) PROVE Fine
    <3>1. n \in Nat
      BY CallsAssumption
    <3> QED
      BY <1>1, <2>1, <2>2, <2>11, <3>1, LseekIs
  <2>12. ASSUME NEW p \in Paths, f_stat(p) PROVE Fine
    <3> DEFINE F == follow_path(lib, p)
    <3>1. lib' = F.s /\ fil' = fil /\ want' = want
      BY <2>12 DEF f_stat, Done
    <3>2. Followed(disk, crashed, lib.vol, ch, tb, pt, p, F)
      BY <1>1, <2>2, <2>4, FollowFinds DEF Intact, Whole, WindowInv
    <3> HIDE DEF F
    <3> QED
      BY <2>5, <3>1, <3>2 DEF Followed
  <2>13. ASSUME NEW p \in Paths, f_unlink(p) PROVE Fine
    BY <1>1, <2>1, <2>2, <2>4, <2>13, UnlinkIs
  <2>14. ASSUME NEW p \in Paths, NEW q \in Paths, f_rename(p, q) PROVE Fine
    BY <1>1, <2>1, <2>2, <2>4, <2>14, RenameIs
  <2>15. ASSUME NEW p \in Dirs, f_mkdir(p) PROVE Fine
    BY <1>1, <2>1, <2>2, <2>4, <2>15, MkdirIs
  <2>16. ASSUME f_getfree PROVE Fine
    <3> DEFINE S == Walked(lib, [j \in 1 .. NClust |-> j + 1], NClust)
               N == [S EXCEPT !.free = Cardinality(Vacant(S.vol)), !.fsi = TRUE]
    <3>1. lib' = N /\ fil' = fil /\ want' = want
      BY <2>16 DEF f_getfree, Done
    <3>2. S.vol = lib.vol /\ Window(disk, crashed, S)
      BY <1>1, WalkedKeeps DEF WindowInv
    <3> HIDE DEF S
    <3>3. N.vol = S.vol
      OBVIOUS
    <3> QED
      BY <2>5, <3>1, <3>2, <3>3
  <2>17. ASSUME DiskWrite PROVE Fine
    <3>1. lib'.vol = lib.vol /\ fil' = fil /\ want' = want
      <4>1. lib' = [lib EXCEPT !.out = Tail(@)] /\ fil' = fil /\ want' = want
        BY <2>17 DEF DiskWrite
      <4> QED
        BY <4>1
    <3> QED
      BY <2>5, <3>1
  <2>18. CASE Crash
    BY <1>1, <2>18 DEF Crash, ShapeInv
  <2>19. ASSUME UNCHANGED vars PROVE Fine
    BY <2>5, <2>19 DEF vars
  <2>20. Fine \/ Crash
    <3> HIDE DEF Fine
    <3> QED
      BY <2>6, <2>7, <2>8, <2>9, <2>10, <2>11, <2>12, <2>13, <2>14, <2>15, <2>16, <2>17, <2>19, Zenon DEF Next
  <2> QED
    BY <1>1, <2>18, <2>20 DEF ShapeInv, Shaped
<1> QED
  BY <1>2, <1>3

\* As long as the power has not failed, the volume as the library sees it is sound:
\* chains share no cluster and end, every table is well formed and every directory has
\* one entry, no two objects have one path, every file has room for its data, every
\* file object stands for the file it was opened for and at the cluster of its
\* position, and no cluster in use is without owner.  No call of fat.c, whether it
\* succeeds, is refused or runs out of clusters in the middle, breaks this.
THEOREM VolumeSound == Spec => [](crashed \/ Good(lib.vol, fil))
<1>1. ShapeInv => crashed \/ Good(lib.vol, fil)
  BY FaithfulGood DEF ShapeInv, Shaped
<1> QED
  BY InitShape, NextShape, <1>1, PTL DEF Spec

\* The first clusters of all chains are those Accounting begins at, and 0.
Heads(F, vol) ==
    LET open == {f \in Fil : F[f].open}
        objs == {o \in Objects(vol) : o.dir \/ ~\E f \in open : F[f].path = o.path}
    IN  {Root} \cup {o.clust : o \in objs} \cup {F[f].sclust : f \in open}

\* The chains begin where Accounting says.
LEMMA HeadsHave ==
    ASSUME NEW vol, NEW F, NEW ch, NEW tb, NEW pt, Whole(vol, F, ch, tb, pt)
    PROVE  Heads(F, vol) \ {0} = DOMAIN ch
<1>1. /\ Stored(vol, ch, tb) /\ Tree(tb, pt) /\ FilesForm(F, ch, tb, pt, {}) /\ TreeForm(tb, pt)
      /\ 0 \notin DOMAIN ch /\ DOMAIN tb \subseteq DOMAIN ch
  BY HeadsAre, TreeIs DEF Whole, Stored
<1>2. Objects(vol) = AllObjs(tb, pt)
  BY <1>1, ObjectsIs
<1>3. \A f, g \in Fil : F[f].open /\ F[g].open /\ F[g].path = F[f].path => f = g
  BY <1>1 DEF FilesForm
<1>4. ASSUME NEW c \in Heads(F, vol), c # 0 PROVE c \in DOMAIN ch
  <2>1. CASE c = Root
    BY <1>1, <2>1 DEF TreeForm
  <2>2. ASSUME NEW f \in Fil, F[f].open, c = F[f].sclust PROVE c \in DOMAIN ch
    <3>1. PICK h, i : Mine(F, ch, tb, pt, f, h, i)
      BY <1>1, <2>2, MineIs
    <3>2. IsFile(tb, h, i) /\ FirstAt(F, tb, pt, h, i) = c
      BY <2>2, <3>1 DEF Mine, HasFile
    <3> QED
      BY <1>1, <1>4, <3>2 DEF FilesForm, Held
  <2>3. ASSUME NEW o \in Objects(vol), c = o.clust, o.dir \/ ~\E f \in Fil : F[f].open /\ F[f].path = o.path
        PROVE  c \in DOMAIN ch
    <3>0. o \in AllObjs(tb, pt)
      BY <1>2, <2>3
    <3>1. PICK h, i : Listed(tb, h, i) /\ o = Obj(tb, pt, h, i)
      <4>1. PICK g \in DOMAIN tb : o \in Objs(tb, pt, g)
        BY <3>0 DEF AllObjs
      <4>2. PICK j \in 1 .. Len(tb[g]) : tb[g][j].k = "sfn" /\ o = Obj(tb, pt, g, j)
        BY <4>1 DEF Objs
      <4>3. Listed(tb, g, j)
        BY <4>1, <4>2 DEF Listed
      <4> QED
        BY <4>2, <4>3
    <3>2. Listed(tb, h, i) /\ o.dir = tb[h][i].dir /\ c = tb[h][i].clust /\ o.path = Path(tb, pt, h, i)
      BY <2>3, <3>1 DEF Listed, Obj
    <3>3. CASE tb[h][i].dir
      BY <1>1, <3>2, <3>3 DEF TreeForm, IsDir
    <3>4. CASE ~tb[h][i].dir
      <4>1. IsFile(tb, h, i) /\ Unused(F, tb, pt, h, i)
        BY <2>3, <3>2, <3>4 DEF IsFile, Unused, OpenAt
      <4>2. FirstAt(F, tb, pt, h, i) = c
        BY <3>2, <4>1, UnusedFirst
      <4> QED
        BY <1>1, <1>4, <4>1, <4>2 DEF FilesForm, Held
    <3> QED
      BY <3>3, <3>4
  <2> QED
    BY <1>4, <2>1, <2>2, <2>3 DEF Heads
<1>5. ASSUME NEW c \in DOMAIN ch PROVE c \in Heads(F, vol)
  <2>1. ASSUME NEW h, NEW i, Listed(tb, h, i), tb[h][i].dir \/ Unused(F, tb, pt, h, i), tb[h][i].clust = c
        PROVE  c \in Heads(F, vol)
    <3> DEFINE o == Obj(tb, pt, h, i)
    <3>1. o \in Objects(vol)
      BY <1>2, <2>1 DEF AllObjs, Objs, Listed
    <3>2. o.dir = tb[h][i].dir /\ o.clust = c /\ o.path = Path(tb, pt, h, i)
      BY <2>1 DEF Obj
    <3> HIDE DEF o
    <3>3. o.dir \/ ~\E f \in Fil : F[f].open /\ F[f].path = o.path
      BY <2>1, <3>2 DEF Unused, OpenAt
    <3> QED
      BY <3>1, <3>2, <3>3 DEF Heads
  <2>2. CASE c = Root
    BY <2>2 DEF Heads
  <2>3. CASE c # Root /\ c \in DOMAIN tb
    BY <1>1, <2>1, <2>3 DEF TreeForm, IsDir
  <2>4. CASE c \notin DOMAIN tb
    <3>1. PICK h, i : Owner(F, tb, pt, h, i, c)
      BY <1>1, <1>5, <2>4 DEF FilesForm, Held
    <3>2. IsFile(tb, h, i) /\ Listed(tb, h, i) /\ FirstAt(F, tb, pt, h, i) = c
      BY <3>1 DEF Owner, IsFile
    <3>3. CASE Unused(F, tb, pt, h, i)
      BY <2>1, <3>2, <3>3, UnusedFirst
    <3>4. CASE ~Unused(F, tb, pt, h, i)
      <4>1. PICK f \in Fil : OpenAt(F, f, Path(tb, pt, h, i))
        BY <3>4 DEF Unused
      <4>2. FirstAt(F, tb, pt, h, i) = F[f].sclust
        BY <1>3, <4>1, FirstIs DEF FirstAt
      <4> QED
        BY <3>2, <4>1, <4>2 DEF Heads, OpenAt
    <3> QED
      BY <3>3, <3>4
  <2> QED
    BY <2>2, <2>3, <2>4
<1> QED
  BY <1>1, <1>4, <1>5

\* The clusters in use are those on the chains.
LEMMA UsedAre ==
    ASSUME NEW vol, NEW ch, Chains(vol, ch)
    PROVE  \A c : c \in Cluster \ Vacant(vol) <=> \E h \in DOMAIN ch : On(ch[h], c)
<1> SUFFICES ASSUME NEW c PROVE c \in Cluster \ Vacant(vol) <=> \E h \in DOMAIN ch : On(ch[h], c)
  OBVIOUS
<1>1. ASSUME c \in Cluster \ Vacant(vol) PROVE \E h \in DOMAIN ch : On(ch[h], c)
  BY <1>1 DEF Chains, Vacant
<1>2. ASSUME NEW h \in DOMAIN ch, On(ch[h], c) PROVE c \in Cluster \ Vacant(vol)
  <2>1. PICK j \in 1 .. Len(ch[h]) : ch[h][j] = c
    BY <1>2 DEF On
  <2>2. /\ Len(ch[h]) \in Nat \ {0} /\ \A k \in 1 .. Len(ch[h]) : ch[h][k] \in Cluster
        /\ \A k \in 1 .. Len(ch[h]) - 1 : FatOf(vol, ch[h][k]) = ch[h][k + 1]
        /\ FatOf(vol, ch[h][Len(ch[h])]) = Eoc
    BY ChainHas
  <2>3. 0 \notin Cluster /\ Eoc # 0
    BY Sizes DEF Cluster, Eoc
  <2>4. FatOf(vol, c) # 0
    <3>1. CASE j = Len(ch[h])
      BY <2>1, <2>2, <2>3, <3>1
    <3>2. CASE j # Len(ch[h])
      <4>1. j \in 1 .. Len(ch[h]) - 1 /\ j + 1 \in 1 .. Len(ch[h])
        BY <2>2, <3>2
      <4> QED
        BY <2>1, <2>2, <2>3, <4>1
    <3> QED
      BY <3>1, <3>2
  <2> QED
    BY <2>1, <2>2, <2>4 DEF Vacant
<1> QED
  BY <1>1, <1>2

\* There is no chain at 0.
LEMMA EmptyChain ==
    ASSUME NEW vol
    PROVE  ToSet(Chain(vol, 0)) = {}
<1> DEFINE next == CHOOSE g : g = [n \in 0 .. NClust |->
                          IF n = 0 THEN 0
                          ELSE IF g[n - 1] \in Cluster THEN FatOf(vol, g[n - 1]) ELSE 0]
           long == Cardinality({n \in 1 .. NClust : next[n - 1] \in Cluster})
<1>1. Chain(vol, 0) = [n \in 1 .. long |-> next[n - 1]]
  BY Zenon DEF Chain
<1> DEFINE h == [n \in 0 .. NClust |-> 0]
<1>2. 0 \notin Cluster /\ NClust \in Nat
  BY Sizes DEF Cluster
<1>3. \A g : g = [n \in 0 .. NClust |-> IF n = 0 THEN 0
                  ELSE IF g[n - 1] \in Cluster THEN FatOf(vol, g[n - 1]) ELSE 0] => \A n \in 0 .. NClust : g[n] = 0
  <2> SUFFICES ASSUME NEW g,
                      g = [n \in 0 .. NClust |-> IF n = 0 THEN 0
                           ELSE IF g[n - 1] \in Cluster THEN FatOf(vol, g[n - 1]) ELSE 0]
               PROVE  \A n \in 0 .. NClust : g[n] = 0
    OBVIOUS
  <2> DEFINE Z == {n \in Nat : g[n] = 0}
  <2>1. 0 \in Z
    BY <1>2
  <2>2. ASSUME NEW n \in 1 .. NClust, n - 1 \in Z PROVE n \in Z
    <3>1. g[n] = IF g[n - 1] \in Cluster THEN FatOf(vol, g[n - 1]) ELSE 0
      BY <1>2
    <3> QED
      BY <1>2, <2>2, <3>1
  <2>3. \A n \in 0 .. NClust : n \in Z
    <3> HIDE DEF Z
    <3> QED
      BY <1>2, <2>1, <2>2, Turns
  <2> QED
    BY <2>3
<1>4. h = [n \in 0 .. NClust |-> IF n = 0 THEN 0 ELSE IF h[n - 1] \in Cluster THEN FatOf(vol, h[n - 1]) ELSE 0]
  BY <1>2
<1>5. \A n \in 0 .. NClust : next[n] = 0
  <2> HIDE DEF h
  <2> QED
    BY <1>3, <1>4
<1> HIDE DEF next
<1>6. {n \in 1 .. NClust : next[n - 1] \in Cluster} = {}
  BY <1>2, <1>5
<1>7. long = 0
  BY <1>6, FS_EmptySet
<1>8. Chain(vol, 0) = [n \in 1 .. 0 |-> next[n - 1]]
  BY <1>1, <1>7
<1> QED
  BY <1>8 DEF ToSet

\* No cluster is lost: until the power fails the clusters that the FAT does not show as
\* free are exactly those of the root, of the objects of the volume and of the open
\* files.  Every path of fat.c that takes clusters gives back those it does not use.
THEOREM NoClusterLost == Spec => []Accounting
<1>1. ShapeInv => Accounting
  <2> SUFFICES ASSUME ShapeInv, ~crashed PROVE Accounting
    BY DEF Accounting
  <2>1. PICK ch, tb, pt : Whole(lib.vol, fil, ch, tb, pt)
    BY DEF ShapeInv, Shaped, Faithful, Intact
  <2> DEFINE vol == lib.vol
             heads == Heads(fil, vol)
  <2>2. Chains(vol, ch) /\ heads \ {0} = DOMAIN ch
    BY <2>1, HeadsHave DEF Whole, Stored
  <2>3. \A h \in DOMAIN ch : Chain(vol, h) = ch[h]
    BY <2>2, ChainIs DEF Chains
  <2>4. \A h \in DOMAIN ch : \A c : c \in ToSet(ch[h]) <=> On(ch[h], c)
    <3>1. \A h \in DOMAIN ch : Len(ch[h]) \in Nat /\ ch[h] \in Seq(Cluster)
      BY <2>2, ChainHas
    <3> QED
      BY <3>1 DEF ToSet, On
  <2>5. ToSet(Chain(vol, 0)) = {}
    BY EmptyChain
  <2>6. \A c : c \in Cluster \ Vacant(vol) <=> \E h \in DOMAIN ch : On(ch[h], c)
    BY <2>2, UsedAre
  <2> HIDE DEF vol, heads
  <2>7. Cluster \ Vacant(vol) = UNION {ToSet(Chain(vol, c)) : c \in heads}
    BY <2>2, <2>3, <2>4, <2>5, <2>6
  <2> QED
    BY <2>7 DEF Accounting, heads, vol, Heads, OpenFils
<1> QED
  BY InitShape, NextShape, <1>1, PTL DEF Spec

-----------------------------------------------------------------------------
(* The files hold what was written.                                        *)

\* The objects are finitely many.
LEMMA FinitelyMany ==
    ASSUME NEW vol, NEW ch, NEW tb, Stored(vol, ch, tb), NEW pt
    PROVE  IsFiniteSet(AllObjs(tb, pt))
<1>1. DOMAIN tb \subseteq Cluster
  BY HeadsAre DEF Stored
<1>2. IsFiniteSet(Cluster)
  BY Sizes, FS_Interval DEF Cluster
<1>3. IsFiniteSet(DOMAIN tb)
  BY <1>1, <1>2, FS_Subset
<1>4. ASSUME NEW h \in DOMAIN tb PROVE IsFiniteSet(Objs(tb, pt, h))
  <2> DEFINE I == {j \in 1 .. Len(tb[h]) : tb[h][j].k = "sfn"}
             T == Objs(tb, pt, h)
             f == [i \in I |-> Obj(tb, pt, h, i)]
  <2>1. Len(tb[h]) \in Nat
    BY <1>4, TableIs
  <2>2. IsFiniteSet(1 .. Len(tb[h]))
    BY <2>1, FS_Interval
  <2>3. IsFiniteSet(I)
    BY <2>2, FS_Subset
  <2>4. f \in Surjection(I, T)
    <3>1. T = {Obj(tb, pt, h, i) : i \in I}
      BY DEF Objs
    <3> HIDE DEF I, T
    <3> QED
      BY <3>1 DEF Surjection
  <2> HIDE DEF I, T, f
  <2>5. IsFiniteSet(T)
    BY <2>3, <2>4, FS_Surjection
  <2> QED
    BY <2>5 DEF T
<1> DEFINE D == DOMAIN tb
           S == {Objs(tb, pt, h) : h \in D}
           g == [h \in D |-> Objs(tb, pt, h)]
<1>5. g \in Surjection(D, S)
  BY DEF Surjection
<1>6. IsFiniteSet(D) /\ \A X \in S : IsFiniteSet(X)
  BY <1>3, <1>4
<1>7. AllObjs(tb, pt) = UNION S
  BY DEF AllObjs
<1> HIDE DEF D, S, g
<1>8. IsFiniteSet(S)
  BY <1>5, <1>6, FS_Surjection
<1> QED
  BY <1>6, <1>7, <1>8, FS_UNION

\* The objects have the paths of W, and there are as many of them as of the paths.
OneEach(tb, pt, W) ==
    /\ {o.path : o \in AllObjs(tb, pt)} = DOMAIN W
    /\ Cardinality(AllObjs(tb, pt)) = Cardinality(DOMAIN W)

\* No two objects of the volume have one path, and no path is without its object.
LEMMA OnePathEach ==
    ASSUME NEW vol, NEW F, NEW ch, NEW tb, NEW pt, NEW W, Intact(vol, F, ch, tb, pt, W)
    PROVE  OneEach(tb, pt, W)
<1> DEFINE objs == AllObjs(tb, pt)
           D == DOMAIN W
           f == [o \in objs |-> o.path]
<1>1. Stored(vol, ch, tb) /\ Tree(tb, pt) /\ Matches(vol, F, ch, tb, pt, W)
  BY DEF Intact, Whole
<1>2. IsFiniteSet(objs)
  BY <1>1, FinitelyMany
<1>3. ASSUME NEW o \in objs PROVE o.path \in D
  <2>1. PICK h, i : Listed(tb, h, i) /\ o = Obj(tb, pt, h, i)
    BY <1>3, ObjOf
  <2>2. o.path = Path(tb, pt, h, i)
    BY <2>1, ObjHas
  <2> QED
    BY <1>1, <2>1, <2>2 DEF Matches, ShownAt
<1>4. ASSUME NEW q \in D PROVE \E o \in objs : o.path = q
  <2>1. PICK h, i : Listed(tb, h, i) /\ Path(tb, pt, h, i) = q
    BY <1>1, <1>4 DEF Matches
  <2> QED
    BY <2>1, ObjHas
<1>5. ASSUME NEW o \in objs, NEW u \in objs, o.path = u.path PROVE o = u
  <2>1. PICK h, i : Listed(tb, h, i) /\ o = Obj(tb, pt, h, i)
    BY <1>5, ObjOf
  <2>2. PICK a, k : Listed(tb, a, k) /\ u = Obj(tb, pt, a, k)
    BY <1>5, ObjOf
  <2>3. Path(tb, pt, h, i) = Path(tb, pt, a, k)
    BY <1>5, <2>1, <2>2, ObjHas
  <2>4. h = a /\ i = k
    BY <1>1, <2>1, <2>2, <2>3, PathsApart
  <2> QED
    BY <2>1, <2>2, <2>4
<1> HIDE DEF objs, D
<1>6. {o.path : o \in objs} = D
  BY <1>3, <1>4
<1>7. f \in Surjection(objs, D)
  BY <1>3, <1>4 DEF Surjection
<1>8. f \in Injection(objs, D)
  BY <1>3, <1>5 DEF Injection, IsInjective
<1> HIDE DEF f
<1>9. Cardinality(D) = Cardinality(objs)
  BY <1>2, <1>7, <1>8, FS_Surjection
<1> QED
  BY <1>6, <1>9 DEF OneEach, objs, D

\* What is held is what Content reads.
LEMMA HoldsSame ==
    ASSUME NEW v, NEW ch, Chains(v, ch), NEW c, NEW n \in Nat, c = 0 => n = 0, c # 0 => c \in DOMAIN ch,
           NEW D, Holds(v, ch[c], n, D)
    PROVE  Same(Content(v, c, n), D)
<1> DEFINE C == Content(v, c, n)
<1>1. Len(C) = n /\ DOMAIN C = 1 .. n /\ \A j \in 1 .. n : C[j] = v[Data(ch[c][j])]
  BY ContentIs
<1> HIDE DEF C
<1>2. Len(D) = n /\ \A j \in 1 .. n : D[j] \in {[dat |-> "?"], C[j]}
  BY <1>1 DEF Holds
<1>3. Same(C, D)
  BY <1>1, <1>2 DEF Same
<1> QED
  BY <1>3 DEF C

\* An object without open file.
LEMMA ClosedSame ==
    ASSUME NEW v, NEW F, NEW ch, NEW tb, NEW pt, NEW W, Intact(v, F, ch, tb, pt, W),
           NEW h, NEW i, IsFile(tb, h, i), Unused(F, tb, pt, h, i)
    PROVE  Same(Content(v, tb[h][i].clust, tb[h][i].size), W[Path(tb, pt, h, i)].data)
<1> DEFINE c == tb[h][i].clust
           n == tb[h][i].size
           y == W[Path(tb, pt, h, i)]
           D == y.data
           none == {}
<1>1. /\ FilesForm(F, ch, tb, pt, none) /\ Tree(tb, pt) /\ Chains(v, ch) /\ Matches(v, F, ch, tb, pt, W)
  BY DEF Intact, Whole, Stored
<1>2. FirstAt(F, tb, pt, h, i) = c /\ ~Busy(F, Path(tb, pt, h, i))
  BY UnusedFirst
<1>3. LongAt(F, tb, pt, h, i) = n
  BY <1>2 DEF LongAt, Long
<1>4. HasData(v, F, ch, tb, pt, h, i, y)
  BY <1>1 DEF Matches, ShownAt, IsFile
<1> HIDE DEF none
<1>5. n \in Nat /\ (c = 0 => n = 0) /\ (c # 0 => c \in DOMAIN ch)
  <2> DEFINE e == FirstAt(F, tb, pt, h, i)
  <2>1. /\ LongAt(F, tb, pt, h, i) \in Nat /\ (e = 0 => LongAt(F, tb, pt, h, i) = 0)
        /\ (e # 0 => e \in Held(ch, tb, none))
    BY <1>1, LongFits
  <2> QED
    BY <1>2, <1>3, <2>1 DEF Held
<1>6. Holds(v, ch[c], n, D)
  BY <1>2, <1>3, <1>4 DEF HasData
<1> HIDE DEF c, n, D
<1>7. Same(Content(v, c, n), D)
  BY <1>1, <1>5, <1>6, HoldsSame
<1> QED
  BY <1>7 DEF c, n, D

\* An open file.
LEMMA OpenSame ==
    ASSUME NEW v, NEW F, NEW ch, NEW tb, NEW pt, NEW W, Intact(v, F, ch, tb, pt, W), NEW f \in Fil, F[f].open
    PROVE  /\ Same(Content(v, F[f].sclust, F[f].objsize), W[F[f].path].data)
           /\ F[f].fptr > 0 => F[f].clust = Chain(v, F[f].sclust)[F[f].fptr]
<1> DEFINE o == F[f]
           c == o.sclust
           n == o.objsize
           D == W[o.path].data
<1>1. FilesForm(F, ch, tb, pt, {}) /\ Chains(v, ch) /\ 0 \notin DOMAIN ch
  BY HeadsAre DEF Intact, Whole, Stored
<1>2. PICK h, i : Mine(F, ch, tb, pt, f, h, i)
  BY <1>1, MineIs
<1>3. Holds(v, ch[c], n, D) /\ n \in Nat
  BY <1>2, MineHolds
<1>4. Handle(o, ch, tb[h][i], ch[h][At(i)], In(i))
  BY <1>2 DEF Mine, HasFile
<1> HIDE DEF o
<1>5. Reaches(ch, c, n) /\ o.fptr \in 0 .. n /\ (o.fptr > 0 => o.clust = ch[c][o.fptr])
  BY <1>4 DEF Handle
<1> HIDE DEF c, n, D
<1>6. (c = 0 => n = 0) /\ (c # 0 => c \in DOMAIN ch)
  BY <1>5 DEF Reaches
<1>7. Same(Content(v, c, n), D)
  BY <1>1, <1>3, <1>6, HoldsSame
<1>8. o.fptr > 0 => o.clust = Chain(v, c)[o.fptr]
  <2> SUFFICES ASSUME o.fptr > 0 PROVE o.clust = Chain(v, c)[o.fptr]
    OBVIOUS
  <2>1. c # 0
    BY <1>3, <1>5, <1>6
  <2>2. c \in DOMAIN ch
    BY <1>6, <2>1
  <2>3. Linked(v, ch[c]) /\ ch[c][1] = c
    BY <1>1, <2>2 DEF Chains
  <2>4. Chain(v, c) = ch[c]
    BY <2>3, ChainIs
  <2> QED
    BY <1>5, <2>4
<1> QED
  BY <1>7, <1>8 DEF c, n, D, o

\* What the callers wrote is what the library shows, until the power fails: the paths of
\* the volume are those the calls made, none twice; every closed file has its data behind
\* its entry and every open one behind its file object, sector for sector but where a
\* seek has left it open; and the cluster of a file object is the one of its position on
\* the chain.  No call of fat.c, for the file it is about or for another one, changes
\* what it was not asked to change.
THEOREM WhatWasWritten == Spec => [](crashed \/ FilesIntact)
<1>1. ShapeInv => crashed \/ FilesIntact
  <2> SUFFICES ASSUME ShapeInv, ~crashed PROVE FilesIntact
    OBVIOUS
  <2>1. PICK ch, tb, pt : Intact(lib.vol, fil, ch, tb, pt, want)
    BY DEF ShapeInv, Shaped, Faithful
  <2> DEFINE v == lib.vol
             F == fil
             W == want
             objs == Objects(v)
  <2>2. Intact(v, F, ch, tb, pt, W)
    BY <2>1
  <2> HIDE DEF v, F, W, objs
  <2>3. Stored(v, ch, tb) /\ Tree(tb, pt) /\ Matches(v, F, ch, tb, pt, W)
    BY <2>2 DEF Intact, Whole
  <2>4. objs = AllObjs(tb, pt)
    BY <2>3, ObjectsIs DEF objs
  <2>5. {o.path : o \in objs} = DOMAIN W /\ Cardinality(objs) = Cardinality(DOMAIN W)
    <3>1. OneEach(tb, pt, W)
      BY <2>2, OnePathEach
    <3> QED
      BY <2>4, <3>1 DEF OneEach
  <2>6. ASSUME NEW o \in objs
        PROVE  /\ o.dir = W[o.path].dir
               /\ \/ o.dir
                  \/ \E f \in Fil : F[f].open /\ F[f].path = o.path
                  \/ Same(Content(v, o.clust, o.size), W[o.path].data)
    <3>1. PICK h, i : Listed(tb, h, i) /\ o = Obj(tb, pt, h, i)
      BY <2>4, <2>6, ObjOf
    <3>2. o.path = Path(tb, pt, h, i) /\ o.dir = tb[h][i].dir /\ o.clust = tb[h][i].clust /\ o.size = tb[h][i].size
      BY <3>1, ObjHas
    <3>3. CASE tb[h][i].dir
      <4>1. W[Path(tb, pt, h, i)] = Directory
        BY <2>3, <3>1, <3>3 DEF Matches, ShownAt, IsDir
      <4> QED
        BY <3>2, <3>3, <4>1 DEF Directory
    <3>4. CASE ~tb[h][i].dir
      <4>1. IsFile(tb, h, i)
        BY <3>1, <3>4 DEF IsFile
      <4> DEFINE y == W[Path(tb, pt, h, i)]
      <4>2. y = File(y.data)
        BY <2>3, <3>1, <4>1 DEF Matches, ShownAt, HasData
      <4>3. tb[h][i].dir = FALSE
        BY <2>3, <3>1, <3>4, TreeIs DEF TreeForm, Sane, WellFormed, Listed, IsObject
      <4>4. y.dir = FALSE
        BY <4>2 DEF File
      <4>5. Unused(F, tb, pt, h, i) => Same(Content(v, o.clust, o.size), W[o.path].data)
        BY <2>2, <3>2, <4>1, ClosedSame
      <4>6. ~Unused(F, tb, pt, h, i) => \E f \in Fil : F[f].open /\ F[f].path = o.path
        BY <3>2 DEF Unused, OpenAt
      <4> QED
        BY <3>2, <4>3, <4>4, <4>5, <4>6
    <3> QED
      BY <3>3, <3>4
  <2>7. ASSUME NEW f \in Fil, F[f].open
        PROVE  /\ Same(Content(v, F[f].sclust, F[f].objsize), W[F[f].path].data)
               /\ F[f].fptr > 0 => F[f].clust = Chain(v, F[f].sclust)[F[f].fptr]
    BY <2>2, <2>7, OpenSame
  <2> QED
    BY <2>5, <2>6, <2>7 DEF FilesIntact, OpenFils, v, F, W, objs
<1> QED
  BY InitShape, NextShape, <1>1, PTL DEF Spec
=============================================================================
