------------------------------- MODULE MCFat -------------------------------
(* Values for TLC: volumes of six clusters, with two sectors of FAT and    *)
(* tables of four slots; the name "longish" needs a slot of its own.       *)
EXTENDS FatShape

MCAlias == [n \in {"longish"} |-> "LONGIS~"]

MCPaths == {<<"a">>, <<"longish">>, <<"d">>, <<"d", "a">>}
MCDirs == {<<"d">>}
MCModes == {{"FA_READ"}, {"FA_READ", "FA_WRITE", "FA_CREATE_ALWAYS"},
            {"FA_WRITE", "FA_CREATE_NEW"}, {"FA_WRITE", "FA_OPEN_ALWAYS", "FA_SEEKEND"}}

(* A volume: its FAT, its tables, what FSInfo says; other clusters hold    *)
(* old data.                                                               *)
Volume(fat, tables, free, last) ==
    [s \in Sector |->
        CASE s = Info -> [free |-> free, last |-> last]
          [] s[1] = "fat" -> [c \in {x \in Cluster : x \div EPS = s[2]} |->
                                 IF c \in DOMAIN fat THEN fat[c] ELSE 0]
          [] OTHER -> IF s[2] \in DOMAIN tables THEN [tab |-> tables[s[2]]]
                      ELSE [dat |-> "old"]]

end == [k |-> "end"]
SFN(n, dir, c, size) == [k |-> "sfn", sfn |-> n, dir |-> dir, clust |-> c, size |-> size]

(* As made by mkfs; one whose FSInfo knows no counts, with a directory and *)
(* a file of two sectors with a long name; one with a full root directory  *)
(* and two clusters left.                                                  *)
Fresh == Volume(2 :> Eoc, 2 :> <<end, end, end, end>>, NClust - 1, 2)
Used == Volume((2 :> Eoc) @@ (3 :> Eoc) @@ (4 :> 6) @@ (6 :> Eoc),
    (2 :> <<[k |-> "lfn", name |-> "longish", sfn |-> <<"LONGIS~", 1>>],
            SFN(<<"LONGIS~", 1>>, FALSE, 4, 2), SFN(<<"d", 0>>, TRUE, 3, 0), end>>) @@
    (3 :> <<[k |-> "dot", clust |-> 3], [k |-> "dots", clust |-> 0], end, end>>),
    Unknown, Eoc)
Crowded == Volume((2 :> Eoc) @@ (3 :> 4) @@ (4 :> Eoc) @@ (5 :> Eoc),
    2 :> <<SFN(<<"x", 0>>, FALSE, 3, 2), SFN(<<"a", 0>>, FALSE, 5, 1),
           SFN(<<"z", 0>>, FALSE, 0, 0), SFN(<<"w", 0>>, FALSE, 0, 0)>>,
    2, 5)
MCImages == {Fresh, Used, Crowded}

Symmetry == Permutations(Fil)
=============================================================================
