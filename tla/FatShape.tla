------------------------------ MODULE FatShape ------------------------------
(***************************************************************************)
(* What a sound volume is: chains that share no cluster, tables that are   *)
(* well formed, one path for every entry of every table, and a chain for   *)
(* every entry that has data.                                              *)
(*   ch   first cluster -> the clusters of its chain                       *)
(*   tb   first cluster of a directory -> the slots of its table           *)
(*   pt   first cluster of a directory -> its path                         *)
(***************************************************************************)
EXTENDS Fat

\* The clusters s are a chain of vol: each is followed by the next one.
Linked(vol, s) ==
    /\ s \in Seq(Cluster) /\ s # <<>>
    /\ \A j, k \in 1 .. Len(s) : s[j] = s[k] => j = k
    /\ \A j \in 1 .. Len(s) - 1 : FatOf(vol, s[j]) = s[j + 1]
    /\ FatOf(vol, s[Len(s)]) = Eoc

On(s, c) == \E j \in 1 .. Len(s) : s[j] = c

\* The FAT has an entry for every cluster.
Entries(vol) == \A c \in Cluster : c \in DOMAIN vol[FatSec(c)]

\* The clusters in use are those of the chains ch, each of one chain only.
Chains(vol, ch) ==
    /\ Entries(vol)
    /\ \A h \in DOMAIN ch : Linked(vol, ch[h]) /\ ch[h][1] = h
    /\ \A g, h \in DOMAIN ch : \A c \in Cluster : On(ch[g], c) /\ On(ch[h], c) => g = h
    /\ \A c \in Cluster : FatOf(vol, c) = 0 \/ \E h \in DOMAIN ch : On(ch[h], c)

Tabled(vol, c) == "tab" \in DOMAIN vol[Data(c)] /\ DOMAIN vol[Data(c)].tab = 1 .. SPS

\* The tables tb are what lies on the chains of the directories.
Stored(vol, ch, tb) ==
    /\ Chains(vol, ch) /\ DOMAIN tb \subseteq DOMAIN ch
    /\ \A h \in DOMAIN tb : /\ \A j \in 1 .. Len(ch[h]) : Tabled(vol, ch[h][j])
                            /\ tb[h] = Slots(vol, ch[h])

IsObject(x) ==
    /\ DOMAIN x = {"k", "sfn", "dir", "clust", "size"}
    /\ x.k = "sfn" /\ x.dir \in BOOLEAN /\ x.size \in Nat

\* Behind the end there is nothing; a long name stands before its object, which has
\* a numbered 8.3 name.
WellFormed(T) ==
    \A i \in 1 .. Len(T) :
        /\ T[i].k = "end" => T[i] = [k |-> "end"] /\ \A j \in i .. Len(T) : T[j].k = "end"
        /\ T[i].k = "lfn" => /\ i < Len(T) /\ T[i + 1].k = "sfn" /\ T[i + 1].sfn = T[i].sfn
                             /\ T[i].name \in DOMAIN Alias /\ T[i].sfn[2] # 0
        /\ T[i].k = "sfn" => /\ IsObject(T[i])
                             /\ IF T[i].sfn[2] = 0
                                THEN T[i].sfn = <<T[i].sfn[1], 0>> /\ T[i].sfn[1] \notin DOMAIN Alias
                                ELSE i > 1 /\ T[i - 1].k = "lfn"

IsSeq(p) == Len(p) \in Nat /\ p = [k \in 1 .. Len(p) |-> p[k]]

\* There is an object at position i of the table at h.
Listed(tb, h, i) == h \in DOMAIN tb /\ i \in 1 .. Len(tb[h]) /\ tb[h][i].k = "sfn"
Path(tb, pt, h, i) == Append(pt[h], NameAt(tb[h], i))

\* Every directory but the root has one entry, under the last of its names, and no
\* two objects have one path.
Tree(tb, pt) ==
    /\ Root \in DOMAIN tb /\ pt[Root] = <<>>
    /\ \A h \in DOMAIN tb : WellFormed(tb[h]) /\ IsSeq(pt[h]) /\ (h = Root \/ tb[h][2].k = "dots")
    /\ \A g, h \in DOMAIN tb : pt[g] = pt[h] => g = h
    /\ \A h \in DOMAIN tb : \A i, j \in 1 .. Len(tb[h]) :
          Listed(tb, h, i) /\ Listed(tb, h, j) /\ NameAt(tb[h], i) = NameAt(tb[h], j) => i = j
    /\ \A h \in DOMAIN tb : \A i \in 1 .. Len(tb[h]) : Listed(tb, h, i) /\ tb[h][i].dir =>
          /\ tb[h][i].clust \in DOMAIN tb \ {Root}
          /\ pt[tb[h][i].clust] = Path(tb, pt, h, i)
    /\ \A c \in DOMAIN tb \ {Root} : \E h \in DOMAIN tb : \E i \in 1 .. Len(tb[h]) :
          Listed(tb, h, i) /\ tb[h][i].dir /\ tb[h][i].clust = c

\* What begins at c has at least n clusters.
Reaches(ch, c, n) == IF c = 0 THEN n = 0 ELSE c \in DOMAIN ch /\ n <= Len(ch[c])

\* The data of an open file begins where its file object says.
OpenAt(F, f, p) == F[f].open /\ F[f].path = p
Busy(F, p) == \E f \in Fil : OpenAt(F, f, p)
First(F, p, x) == IF Busy(F, p) THEN F[CHOOSE f \in Fil : OpenAt(F, f, p)].sclust ELSE x.clust

IsFile(tb, h, i) == Listed(tb, h, i) /\ ~tb[h][i].dir
FirstAt(F, tb, pt, h, i) == First(F, Path(tb, pt, h, i), tb[h][i])

\* The file object o stands for the file with the entry x in the slot k of the
\* cluster c and knows where that is.
Handle(o, ch, x, c, k) ==
    /\ o.dir_sect = c /\ o.dir_slot = k
    /\ o.objsize \in Nat /\ o.fptr \in 0 .. o.objsize
    /\ Reaches(ch, o.sclust, o.objsize)
    /\ o.fptr > 0 => o.clust = ch[o.sclust][o.fptr]
    /\ ~o.modified => x.clust = o.sclust /\ x.size = o.objsize
    /\ ~o.err

\* The file objects F fit the volume, and there is a chain for every file that has
\* data and for every directory, and no other.
Files(F, ch, tb, pt) ==
    /\ \A f \in Fil : F[f].open =>
          /\ \E h \in DOMAIN tb : \E i \in 1 .. Len(tb[h]) :
                /\ IsFile(tb, h, i) /\ F[f].path = Path(tb, pt, h, i)
                /\ Handle(F[f], ch, tb[h][i], ch[h][At(i)], In(i))
          /\ \A g \in Fil : F[g].open /\ F[g].path = F[f].path => f = g
    /\ \A h \in DOMAIN tb : \A i \in 1 .. Len(tb[h]) : IsFile(tb, h, i) =>
          /\ FirstAt(F, tb, pt, h, i) \in {0} \cup (DOMAIN ch \ DOMAIN tb)
          /\ Busy(F, Path(tb, pt, h, i)) \/ Reaches(ch, tb[h][i].clust, tb[h][i].size)
    /\ \A c \in DOMAIN ch \ DOMAIN tb : \E h \in DOMAIN tb : \E i \in 1 .. Len(tb[h]) :
          IsFile(tb, h, i) /\ FirstAt(F, tb, pt, h, i) = c
    /\ \A g, h \in DOMAIN tb : \A i \in 1 .. Len(tb[g]), j \in 1 .. Len(tb[h]) :
          /\ IsFile(tb, g, i) /\ IsFile(tb, h, j)
          /\ FirstAt(F, tb, pt, g, i) = FirstAt(F, tb, pt, h, j) /\ FirstAt(F, tb, pt, g, i) # 0
          => g = h /\ i = j

AllClosed == [f \in Fil |-> Closed]

Sound(vol) ==
    LET objs == Objects(vol)
        dirs == {x \in objs : x.dir}
        Of(h) == CHOOSE o \in dirs : o.clust = h
        ch == [h \in {Root} \cup {o.clust : o \in {x \in objs : x.clust # 0}} |-> Chain(vol, h)]
        tb == [h \in {Root} \cup {o.clust : o \in dirs} |-> Slots(vol, ch[h])]
        pt == [h \in DOMAIN tb |-> IF h = Root THEN <<>> ELSE Of(h).path]
    IN  Stored(vol, ch, tb) /\ Tree(tb, pt) /\ Files(AllClosed, ch, tb, pt)

ASSUME ImagesAssumption ==
    /\ \A v \in Images : Sound(v)
    /\ \A p \in Paths \cup Dirs : p # <<>> /\ IsSeq(p)

=============================================================================
