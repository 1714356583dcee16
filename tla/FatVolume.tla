----------------------------- MODULE FatVolume -----------------------------
(***************************************************************************)
(* The inner functions of FatFs (src/kernel/fs/fat/fat.c) on a FAT32       *)
(* volume of one sector per cluster and one FAT: the access window, the    *)
(* allocation table, directories.  Each C function is an operator from one *)
(* state of the library to the next.  Such a state S is a record of        *)
(*   vol   the sectors as the library sees them: the medium, with the      *)
(*         window laid over it                                             *)
(*   sect  the sector in the window (winsect); wf: it is dirty (wflag)     *)
(*   free, last, fsi   free_clst, last_clst, fsi_flag                      *)
(*   out   the disk_write calls made so far: pairs of sector and content   *)
(* The return codes for disk errors do not occur: disk_read and disk_write *)
(* never report one (diskio.c).  A sector of data holds [dat |-> value] or *)
(* [tab |-> slots], one of the FAT a function from clusters to entries.    *)
(*                                                                         *)
(* A short name n has the 8.3 form <<n, 0>> and one slot; a long one has   *)
(* the numbered form <<Alias[n], k>> and a second slot before it.          *)
(***************************************************************************)
EXTENDS Loops, Sequences, FiniteSets, SequencesExt, FiniteSetsExt

CONSTANTS NClust,   \* clusters of the volume
          EPS,      \* entries in a sector of the FAT
          SPS,      \* slots in a sector of a directory
          Alias     \* long name -> the base of its 8.3 name

ASSUME FatAssumption == NClust \in Nat \ {0} /\ EPS \in Nat \ {0} /\ SPS \in Nat \ {0, 1}

Top == NClust + 1            \* n_fatent - 1
Cluster == 2 .. Top
Eoc == Top + 1               \* any entry >= n_fatent: the end of a chain
Unknown == NClust + 1        \* free_clst when it is not known
Root == 2                    \* dirbase

FatSec(c) == <<"fat", c \div EPS>>
Data(c) == <<"data", c>>
Info == <<"info", 0>>
Sector == {FatSec(c) : c \in Cluster} \cup {Data(c) : c \in Cluster} \cup {Info}

(* The entry of c; 1 is what get_fat answers for a number out of range.     *)
FatOf(vol, c) == IF c \in Cluster THEN vol[FatSec(c)][c] ELSE 1
Vacant(vol) == {c \in Cluster : FatOf(vol, c) = 0}

-----------------------------------------------------------------------------
(* The window.                                                             *)
sync_window(S) ==
    IF S.wf THEN [S EXCEPT !.out = Append(@, <<S.sect, S.vol[S.sect]>>), !.wf = FALSE]
    ELSE S

move_window(S, s) ==
    IF s = S.sect THEN S ELSE [sync_window(S) EXCEPT !.sect = s]

Dirty(S, x) == [S EXCEPT !.vol[S.sect] = x, !.wf = TRUE]

(* FSInfo is written when a count has changed since it was last.           *)
sync_fs(S) ==
    LET T == sync_window(S)
        i == [free |-> T.free, last |-> T.last]
    IN  IF ~T.fsi THEN T
        ELSE [T EXCEPT !.vol[Info] = i, !.out = Append(@, <<Info, i>>),
                       !.sect = Info, !.fsi = FALSE]

-----------------------------------------------------------------------------
(* The allocation table.  get_fat gives FatOf and leaves the window on the *)
(* sector it read.                                                         *)
get_fat(S, c) == IF c \in Cluster THEN move_window(S, FatSec(c)) ELSE S

put_fat(S, c, v) ==
    LET T == get_fat(S, c)
    IN  IF c \in Cluster THEN Dirty(T, [T.vol[T.sect] EXCEPT ![c] = v]) ELSE S

Chain(vol, c) ==
    LET next[n \in 0 .. NClust] ==   \* the n-th cluster from c, 0 past the end
            IF n = 0 THEN c
            ELSE IF next[n - 1] \in Cluster THEN FatOf(vol, next[n - 1]) ELSE 0
        long == Cardinality({n \in 1 .. NClust : next[n - 1] \in Cluster})
    IN  [n \in 1 .. long |-> next[n - 1]]

\* Mutant of Counted: an unknown count is counted on as well.
CountedAlways(S) == [S EXCEPT !.free = @ + 1, !.fsi = TRUE]
Counted(S) == IF S.free < NClust THEN [S EXCEPT !.free = @ + 1, !.fsi = TRUE] ELSE S

Freed(S, c) == Counted(put_fat(S, c, 0))

remove_chain(S, c, p) ==
    LET Unchain(R, k) ==
            IF FatOf(R.s.vol, R.c) \in {0, 1} THEN R
            ELSE [s |-> Freed(R.s, R.c), c |-> FatOf(R.s.vol, R.c)]
        cut == p # 0 /\ c \in Cluster
    IN  Loop(Unchain, [s |-> IF cut THEN put_fat(S, p, Eoc) ELSE S, c |-> c], NClust).s

(* The first n clusters of cs are looked up in turn. *)
Walked(S, cs, n) == Loop(LAMBDA T, k : IF k <= n THEN get_fat(T, cs[k]) ELSE T, S, Top)

(* The order in which create_chain looks for a free cluster from scl on.   *)
Probes(scl) == [k \in 1 .. Top - scl |-> scl + k]
               \o (IF scl < 2 THEN <<>> ELSE [k \in 1 .. scl - 1 |-> k + 1])

(* A free cluster is taken and linked after c.                             *)
Stretched(S, c) ==
    LET near == IF c = Top THEN 2 ELSE c + 1
        order == IF c = 0
                 THEN Probes(IF S.last \in 1 .. Top THEN S.last ELSE 1)
                 ELSE <<near>> \o Probes(IF S.last \in Cluster THEN S.last ELSE c)
        isFree(x) == FatOf(S.vol, x) = 0
        Taken(T, n) == [s |-> [T EXCEPT !.last = n, !.fsi = TRUE,
                                        !.free = IF @ <= NClust THEN @ - 1 ELSE @],
                        n |-> n]
        Linked(T, n) == Taken(IF c = 0 THEN T ELSE put_fat(T, c, n), n)
        Search(T, x) ==
            IF isFree(x) THEN Linked(put_fat(T, x, Eoc), x) ELSE [s |-> T, n |-> 0]
        Upto(k) == Search(Walked(S, order, k), order[k])
    IN  IF S.free = 0 THEN [s |-> S, n |-> 0]
        ELSE Upto(Min({k \in DOMAIN order : isFree(order[k])} \cup {Len(order)}))

(* create_chain: the cluster after c, or the first one of a chain when c   *)
(* is 0, in n; it is 0 when there is none left, and 1 (FR_INT_ERR) when c  *)
(* is not in use.                                                          *)
\* Mutant of create_chain: a chain that goes on after c is not followed.
create_chainAnew(S, c) == Stretched(IF c = 0 THEN S ELSE get_fat(S, c), c)
create_chain(S, c) ==
    LET T == get_fat(S, c)
        next == FatOf(S.vol, c)
    IN  IF c = 0 THEN Stretched(S, c)
        ELSE IF next \in {0, 1} THEN [s |-> T, n |-> 1]
        ELSE IF next \in Cluster THEN [s |-> T, n |-> next]
        ELSE Stretched(T, c)

-----------------------------------------------------------------------------
(* Directories.  A slot is "end", "del", the part of a long name, the dot  *)
(* entries, or an object.  Positions count the slots of a whole table.     *)
Free == {[k |-> "end"], [k |-> "del"]}
EmptyTable == [tab |-> [i \in 1 .. SPS |-> [k |-> "end"]]]

At(i) == (i - 1) \div SPS + 1            \* which cluster of the table
In(i) == ((i - 1) % SPS) + 1             \* which slot of it

Slots(vol, chain) ==
    [i \in 1 .. Len(chain) * SPS |-> vol[Data(chain[At(i)])].tab[In(i)]]

\* Mutant of dir_clear: the window is taken without being written back.
dir_clearUnsynced(S, c) ==
    [S EXCEPT !.vol[Data(c)] = EmptyTable, !.sect = Data(c), !.wf = FALSE,
              !.out = Append(@, <<Data(c), EmptyTable>>)]

dir_clear(S, c) ==
    LET T == sync_window(S)
    IN  [T EXCEPT !.vol[Data(c)] = EmptyTable, !.sect = Data(c),
                  !.out = Append(@, <<Data(c), EmptyTable>>)]

(* dir_sdi: the chain is followed from its start to position i.            *)
dir_sdi(S, chain, i) == Walked(S, chain, At(i) - 1)

(* The window after a scan from the first slot to position i, or past the  *)
(* end of the table.                                                       *)
Scanned(S, chain, i) ==
    LET Onward(T, j) == IF j = 1 THEN T ELSE get_fat(T, chain[j - 1])
        Visit(T, j) ==
            IF j > At(i) THEN T
            ELSE IF j > Len(chain) THEN Onward(T, j)
            ELSE move_window(Onward(T, j), Data(chain[j]))
    IN  Loop(Visit, S, Top)

Named(T, i, n) ==
    IF n \in DOMAIN Alias
    THEN /\ i > 1 /\ T[i - 1].k = "lfn" /\ T[i - 1].name = n
         /\ T[i].k = "sfn" /\ T[i - 1].sfn = T[i].sfn
    ELSE T[i].k = "sfn" /\ T[i].sfn = <<n, 0>>

(* Where the table T ends: dir_find and dir_read look no further.          *)
End(T) == Min({i \in DOMAIN T : T[i].k = "end"} \cup {Len(T) + 1})

(* dir_find in the directory that begins at dc (0: the root).  blk is the  *)
(* first slot of the object found, pos its last one, 0 if there is none.   *)
dir_find(S, dc, n) ==
    LET Found(chain, T, pos) ==
            [s |-> Scanned(S, chain, IF pos = 0 THEN End(T) ELSE pos),
             dc |-> dc, chain |-> chain, pos |-> pos,
             blk |-> IF pos > 1 /\ T[pos - 1].k = "lfn" THEN pos - 1 ELSE pos]
        Search(chain, T) ==
            Found(chain, T, LET hits == {i \in 1 .. End(T) - 1 : Named(T, i, n)}
                            IN  IF hits = {} THEN 0 ELSE Min(hits))
        Whole(chain) == Search(chain, Slots(S.vol, chain))
    IN  Whole(Chain(S.vol, IF dc = 0 THEN Root ELSE dc))

(* dir_alloc: in pos the last position of the first n adjoining free slots *)
(* from the first slot on; the table is stretched when it ends.  0: no     *)
(* cluster left.                                                           *)
Stretch(A, C) ==
    IF C.n \notin Cluster THEN [A EXCEPT !.s = C.s, !.full = TRUE]
    ELSE [A EXCEPT !.s = dir_clear(C.s, C.n), !.chain = Append(@, C.n), !.grown = TRUE]

dir_next(A, i) ==
    LET c == A.chain[At(i) - 1]
    IN  IF In(i) # 1 \/ i = 1 THEN A
        ELSE IF At(i) <= Len(A.chain) THEN [A EXCEPT !.s = get_fat(@, c)]
        ELSE Stretch(A, create_chain(get_fat(A.s, c), c))

Examined(A, i, n) ==
    LET S == move_window(A.s, Data(A.chain[At(i)]))
        run == IF S.vol[S.sect].tab[In(i)] \in Free THEN A.run + 1 ELSE 0
    IN  IF A.full THEN A ELSE [A EXCEPT !.s = S, !.run = run, !.pos = IF run = n THEN i ELSE 0]

dir_alloc(S, chain, n) ==
    Loop(LAMBDA A, i : IF A.full \/ A.pos # 0 THEN A ELSE Examined(dir_next(A, i), i, n),
         [s |-> S, chain |-> chain, run |-> 0, pos |-> 0, grown |-> FALSE, full |-> FALSE],
         Top * SPS)

PutSlot(S, chain, i, x) ==
    LET T == move_window(S, Data(chain[At(i)]))
    IN  Dirty(T, [T.vol[T.sect] EXCEPT !.tab[In(i)] = x])

Blank(sfn) == [k |-> "sfn", sfn |-> sfn, dir |-> FALSE, clust |-> 0, size |-> 0]

(* gen_numname: the first number whose 8.3 name is not taken.              *)
NumName(T, n) ==
    <<Alias[n], CHOOSE k \in 1 .. Len(T) + 1 :
        /\ ~\E i \in DOMAIN T : T[i].k = "sfn" /\ T[i].sfn = <<Alias[n], k>>
        /\ \A j \in 1 .. k - 1 : \E i \in DOMAIN T : T[i].k = "sfn" /\ T[i].sfn = <<Alias[n], j>>>>

(* dir_register: an object of name n without data.                         *)
dir_register(S, dc, n) ==
    LET long == n \in DOMAIN Alias
        Put(A, sfn) ==
            LET first == A.pos - 1
                L == PutSlot(dir_sdi(A.s, A.chain, first), A.chain, first,
                             [k |-> "lfn", name |-> n, sfn |-> sfn])
                next == IF In(A.pos) = 1 THEN get_fat(L, A.chain[At(first)]) ELSE L
            IN  PutSlot(IF long THEN next ELSE A.s, A.chain, A.pos, Blank(sfn))
        Made(A, sfn) ==
            [s |-> IF A.pos = 0 THEN A.s ELSE Put(A, sfn),
             dc |-> dc, chain |-> A.chain, pos |-> A.pos, grown |-> A.grown,
             blk |-> IF long THEN A.pos - 1 ELSE A.pos]
        Whole(chain) ==
            IF long
            THEN Made(dir_alloc(Scanned(S, chain, End(Slots(S.vol, chain))), chain, 2),
                      NumName(Slots(S.vol, chain), n))
            ELSE Made(dir_alloc(S, chain, 1), <<n, 0>>)
    IN  Whole(Chain(S.vol, IF dc = 0 THEN Root ELSE dc))

(* dir_remove: every slot of the object is marked, the first one first.    *)
dir_remove(S, D) ==
    LET Mark(T, i) == PutSlot(T, D.chain, i, [k |-> "del"])
        first == Mark(dir_sdi(S, D.chain, D.blk), D.blk)
    IN  IF D.blk = D.pos THEN Mark(S, D.pos)
        ELSE Mark(IF In(D.pos) = 1 THEN get_fat(first, D.chain[At(D.blk)]) ELSE first, D.pos)

(* The entry dir_find or dir_register has left in the window.              *)
Entry(D) == D.s.vol[Data(D.chain[At(D.pos)])].tab[In(D.pos)]

(* follow_path from the directory dc: how the search for the names of p    *)
(* ended, and where.                                                       *)
Found(D, last) ==
    [s |-> D.s, dc |-> D.dc, chain |-> D.chain, pos |-> D.pos, blk |-> D.blk, grown |-> FALSE,
     res |-> IF D.pos # 0 THEN "OK" ELSE IF last THEN "NO_FILE" ELSE "NO_PATH"]

Follow(F, k, p) ==
    IF F.res # "OK" THEN F
    ELSE IF k = 1 THEN Found(dir_find(F.s, 0, p[k]), k = Len(p))
    ELSE IF ~Entry(F).dir THEN [F EXCEPT !.res = "NO_PATH"]
    ELSE Found(dir_find(F.s, Entry(F).clust, p[k]), k = Len(p))

follow_path(S, p) == Loop(LAMBDA F, k : Follow(F, k, p), [s |-> S, res |-> "OK"], Len(p))

-----------------------------------------------------------------------------
(* What a volume holds, for the properties: the objects in the directory   *)
(* at c, whose path is p, and below it.                                    *)
NameAt(T, i) ==
    IF i > 1 /\ T[i - 1].k = "lfn" /\ T[i - 1].sfn = T[i].sfn THEN T[i - 1].name
    ELSE T[i].sfn[1]

Inside(vol, c, p) ==
    LET T == Slots(vol, Chain(vol, c))
    IN  {[path |-> Append(p, NameAt(T, i)), at |-> <<c, i>>, dir |-> T[i].dir,
          clust |-> T[i].clust, size |-> T[i].size] : i \in {j \in 1 .. End(T) - 1 : T[j].k = "sfn"}}

(* Level by level; there are no more levels than clusters. *)
Objects(vol) ==
    LET Deeper(O, k) ==
            [all |-> O.all \cup O.level,
             level |-> UNION {Inside(vol, o.clust, o.path) : o \in {x \in O.level : x.dir}}]
    IN  Loop(Deeper, [all |-> {}, level |-> Inside(vol, Root, <<>>)], NClust).all
=============================================================================
