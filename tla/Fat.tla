-------------------------------- MODULE Fat --------------------------------
(***************************************************************************)
(* The file calls of FatFs (src/kernel/fs/fat/fat.c) on one mounted        *)
(* volume, and power failures.  A call runs to its end in the library;     *)
(* the sectors it wrote reach the medium one by one (DiskWrite), and the   *)
(* power may fail between any two of them.  What sits in the dirty window  *)
(* then is lost.                                                           *)
(*                                                                         *)
(* Callers keep the rule ffconf.h:271 states for FF_FS_LOCK = 0: an object *)
(* that is open is not opened again, removed or renamed; nor is a          *)
(* directory moved below itself.  Files are read and written in whole      *)
(* sectors of one cluster each; what a sector of a file holds is the name  *)
(* it was written under.                                                   *)
(*                                                                         *)
(* A file object that is led to a cluster no chain can go through has err  *)
(* set and is refused from then on, as in the code.                        *)
(*                                                                         *)
(* want, safe and torn are history: what the callers have made of the      *)
(* volume, which files must survive a power failure, and whether one has   *)
(* come at a moment when the library does not promise to survive it.       *)
(***************************************************************************)
EXTENDS FatVolume

CONSTANTS Paths,    \* paths callers use
          Dirs,     \* those of them they make directories at
          Modes,    \* sets of FA_ flags files are opened with
          Fil,      \* file objects
          Size,     \* bound: sectors in a file
          Images,   \* volumes to begin with
          Calls     \* bound: calls of a behaviour

ASSUME CallsAssumption ==
    /\ Size \in Nat
    /\ \A p \in Paths \cup Dirs : Len(p) \in Nat
    /\ \A v \in Images : /\ DOMAIN v = Sector
                         /\ \A c \in Cluster : c \in DOMAIN v[FatSec(c)]
                         /\ v[Info].free \in {Cardinality(Vacant(v)), Unknown}

VARIABLES disk,     \* the medium
          lib,      \* the library: vol, sect, wf, free, last, fsi, out
          fil,      \* file objects
          want,     \* path -> what the callers put there
          safe,     \* path -> data of the files that are closed
          call,     \* of the call whose writes are on their way: what becomes
                    \* safe with the last one, whether it may tear the volume
          torn,
          crashed,
          left      \* bound: calls left

vars == <<disk, lib, fil, want, safe, call, torn, crashed, left>>

Closed == [open |-> FALSE]
OpenFils == {f \in Fil : fil[f].open}

Idle == lib.out = <<>> /\ left > 0 /\ ~torn

(* The rule of ffconf.h. *)
Legal(p) == \A f \in OpenFils : ~IsPrefix(p, fil[f].path)

(* The end of a call that leaves the library in state S: nothing of what   *)
(* it touched is safe until the last write is done, and then s is.         *)
Done(S, touched, s, risky) ==
    LET kept == [p \in DOMAIN safe \ touched |-> safe[p]]
    IN  /\ lib' = S
        /\ safe' = IF S.out = <<>> THEN s ELSE kept
        /\ call' = [safe |-> s, risky |-> risky]
        /\ left' = left - 1
        /\ UNCHANGED <<disk, torn, crashed>>

Without(g, P) == [p \in DOMAIN g \ P |-> g[p]]
With(g, p, x) == [q \in DOMAIN g \cup {p} |-> IF q = p THEN x ELSE g[q]]
Under(p) == {q \in DOMAIN want : IsPrefix(p, q)}

File(data) == [dir |-> FALSE, data |-> data]
Directory == [dir |-> TRUE, data |-> <<>>]

-----------------------------------------------------------------------------
(* f_open.                                                                 *)
Creating(m) == m \cap {"FA_CREATE_ALWAYS", "FA_OPEN_ALWAYS", "FA_CREATE_NEW"} # {}

Refusal(D, m) ==
    IF D.res # "OK" THEN (IF D.res = "NO_FILE" /\ Creating(m) THEN "OK" ELSE D.res)
    ELSE IF Entry(D).dir THEN (IF Creating(m) THEN "DENIED" ELSE "NO_FILE")
    ELSE IF "FA_CREATE_NEW" \in m THEN "EXIST" ELSE "OK"

(* An entry is emptied: it reaches the medium before its chain is freed,   *)
(* because remove_chain moves the window; then the window is moved back.   *)
Emptied(D) ==
    LET e == Entry(D)
        Back(T) == [move_window(remove_chain(T, e.clust, 0), T.sect) EXCEPT !.last = e.clust - 1]
        A == PutSlot(D.s, D.chain, D.pos, Blank(e.sfn))
    IN  IF e.clust = 0 THEN A ELSE Back(A)

(* The file object; with FA_OPEN_APPEND it stands at the end of the data.  *)
Opened(S, D, p, m) ==
    LET e == S.vol[Data(D.chain[At(D.pos)])].tab[In(D.pos)]
        end == "FA_SEEKEND" \in m /\ e.size > 0
        ch == SubSeq(Chain(S.vol, e.clust), 1, e.size)
    IN  [s |-> IF end THEN Walked(S, ch, Len(ch) - 1) ELSE S,
         fil |-> [open |-> TRUE, path |-> p, dir_sect |-> D.chain[At(D.pos)], dir_slot |-> In(D.pos),
                  sclust |-> e.clust, objsize |-> e.size,
                  fptr |-> IF end THEN e.size ELSE 0,
                  clust |-> IF end THEN Last(ch) ELSE 0,
                  write |-> "FA_WRITE" \in m, read |-> "FA_READ" \in m,
                  modified |-> "FA_CREATE_ALWAYS" \in m,
                  cut |-> FALSE, err |-> FALSE]]

f_open(f, p, m) ==
    /\ Idle /\ ~fil[f].open /\ Legal(p)
    /\ \E F \in {follow_path(lib, p)} :
        IF Refusal(F, m) # "OK"
        THEN Done(F.s, {}, safe, FALSE) /\ UNCHANGED <<fil, want>>
        ELSE \E D \in {IF F.res = "OK" THEN F ELSE dir_register(F.s, F.dc, Last(p))} :
            LET mode == IF F.res = "OK" THEN m ELSE m \cup {"FA_CREATE_ALWAYS"}
                new == "FA_CREATE_ALWAYS" \in mode
            IN  IF D.pos = 0
                THEN Done(D.s, {}, safe, D.grown) /\ UNCHANGED <<fil, want>>
                ELSE \E O \in {Opened(IF new THEN Emptied(D) ELSE D.s, D, p, mode)} :
                    /\ Done(O.s, IF new THEN {p} ELSE {},
                            IF new THEN Without(safe, {p}) ELSE safe, D.grown)
                    /\ fil' = [fil EXCEPT ![f] = O.fil]
                    /\ want' = IF new THEN With(want, p, File(<<>>)) ELSE want

-----------------------------------------------------------------------------
(* The next cluster of a file object, from the start of the file or after  *)
(* the one it is on.                                                       *)
NextCluster(S, o) == IF o.fptr = 0 THEN o.sclust ELSE FatOf(S.vol, o.clust)

(* f_read of one sector; nothing is read at the end of the file.  A chain  *)
(* that leads nowhere is an internal error, with which the file object     *)
(* refuses to be used any further.                                         *)
f_read(f) ==
    LET o == fil[f]
        S == IF o.fptr = 0 THEN lib ELSE get_fat(lib, o.clust)
        c == NextCluster(lib, o)
    IN  /\ Idle /\ o.open /\ ~o.err /\ o.read /\ o.fptr < o.objsize
        /\ Done(S, {}, safe, FALSE)
        /\ fil' = [fil EXCEPT ![f] = IF c \in Cluster THEN [o EXCEPT !.fptr = o.fptr + 1, !.clust = c]
                                     ELSE [o EXCEPT !.err = TRUE]]
        /\ UNCHANGED want

(* f_write of one sector, which goes to the medium at once; the entry is   *)
(* left to f_sync.  Without a free cluster nothing is written, and the     *)
(* file counts as changed all the same.                                    *)
f_write(f) ==
    LET o == fil[f]
        d == [dat |-> Last(o.path)]
        n == o.fptr + 1
        Stored(C) == [C.s EXCEPT !.vol[Data(C.n)] = d, !.out = Append(@, <<Data(C.n), d>>)]
    IN  /\ Idle /\ o.open /\ ~o.err /\ o.write /\ o.fptr < Size
        /\ \E C \in {IF o.fptr > 0 THEN create_chain(lib, o.clust)
                      ELSE IF o.sclust = 0 THEN create_chain(lib, 0)
                      ELSE [s |-> lib, n |-> o.sclust]} :
            IF C.n \notin Cluster
            THEN /\ Done(C.s, {}, safe, FALSE)
                 /\ fil' = [fil EXCEPT ![f] = IF C.n = 0 THEN [o EXCEPT !.modified = TRUE]
                                              ELSE [o EXCEPT !.err = TRUE]]
                 /\ UNCHANGED want
            ELSE /\ Done(Stored(C), {o.path}, Without(safe, {o.path}), FALSE)
                 /\ fil' = [fil EXCEPT ![f] = [o EXCEPT !.fptr = n, !.clust = C.n, !.modified = TRUE,
                               !.sclust = IF o.sclust = 0 THEN C.n ELSE o.sclust,
                               !.objsize = IF n > o.objsize THEN n ELSE o.objsize]]
                 /\ want' = [want EXCEPT ![o.path].data =
                               [j \in 1 .. (IF n > Len(@) THEN n ELSE Len(@)) |->
                                   IF j = n THEN d ELSE @[j]]]

(* f_lseek: clusters are followed from the current one or from the start,  *)
(* and added when the file is open for writing.  What lies between the old *)
(* end and the new one is whatever those clusters hold ("?").              *)
Seek(S, write, fptr, c, ofs) ==
    LET Onto(K, C) ==
            IF C.n \in Cluster THEN [K EXCEPT !.s = C.s, !.fptr = @ + 1, !.clust = C.n]
            ELSE [K EXCEPT !.s = C.s, !.full = C.n = 0, !.err = C.n # 0]
        Further(K, k) ==
            IF K.full \/ K.err \/ k >= ofs THEN K
            ELSE Onto(K, IF write THEN create_chain(K.s, K.clust)
                         ELSE [s |-> get_fat(K.s, K.clust), n |-> FatOf(K.s.vol, K.clust)])
    IN  Loop(Further, [s |-> S, fptr |-> fptr + 1, clust |-> c, full |-> FALSE, err |-> FALSE], Size)

\* The file object o after the seek K on the chain that begins at first.
Grows(o, K) == ~K.err /\ K.fptr > o.objsize
Sought(o, first, K) ==
    [o EXCEPT !.fptr = K.fptr, !.clust = K.clust, !.sclust = first,
              !.objsize = IF Grows(o, K) THEN K.fptr ELSE o.objsize,
              !.modified = o.modified \/ Grows(o, K), !.err = K.err]

f_lseek(f, n) ==
    LET o == fil[f]
        to == IF n > o.objsize /\ ~o.write THEN o.objsize ELSE n
        on == o.fptr > 0 /\ to >= o.fptr
    IN  /\ Idle /\ o.open /\ ~o.err /\ to # o.fptr
        /\ \E C \in {IF o.sclust = 0 /\ ~on /\ to > 0 THEN create_chain(lib, 0)
                      ELSE [s |-> lib, n |-> o.sclust]} :
           \E K \in {IF to = 0 THEN [s |-> lib, fptr |-> 0, clust |-> o.clust, err |-> FALSE]
                      ELSE IF on THEN Seek(lib, o.write, o.fptr - 1, o.clust, to - (o.fptr - 1))
                      ELSE IF C.n = 0 THEN [s |-> C.s, fptr |-> 0, clust |-> 0, err |-> FALSE]
                      ELSE Seek(C.s, o.write, 0, C.n, to)} :
            /\ Done(K.s, IF Grows(o, K) THEN {o.path} ELSE {},
                    IF Grows(o, K) THEN Without(safe, {o.path}) ELSE safe, FALSE)
            /\ fil' = [fil EXCEPT ![f] = Sought(o, C.n, K)]
            /\ want' = IF Grows(o, K) THEN [want EXCEPT ![o.path].data =
                                              @ \o [j \in 1 .. K.fptr - Len(@) |-> [dat |-> "?"]]]
                       ELSE want

(* f_truncate at the current position: the chain is cut at once, the entry *)
(* on the medium keeps the old length until f_sync.                        *)
f_truncate(f) ==
    LET o == fil[f]
        n == IF o.fptr = 0 THEN o.sclust ELSE FatOf(lib.vol, o.clust)
        R == IF o.fptr = 0 THEN remove_chain(lib, n, 0)
             ELSE remove_chain(get_fat(lib, o.clust), n, o.clust)
    IN  /\ Idle /\ o.open /\ ~o.err /\ o.write /\ o.fptr < o.objsize
        /\ Done(R, {o.path}, Without(safe, {o.path}), TRUE)
        /\ fil' = [fil EXCEPT ![f] = [o EXCEPT !.sclust = IF o.fptr = 0 THEN 0 ELSE o.sclust,
                      !.objsize = o.fptr, !.modified = TRUE, !.cut = TRUE, !.err = n \in {0, 1}]]
        /\ want' = [want EXCEPT ![o.path].data = SubSeq(@, 1, o.fptr)]

(* f_sync: the entry, then FSInfo; f_close gives the file object back.     *)
Synced(S, o) ==
    LET Put(T) == Dirty(T, [T.vol[T.sect] EXCEPT !.tab[o.dir_slot] =
                               [@ EXCEPT !.clust = o.sclust, !.size = o.objsize]])
    IN  IF o.modified THEN sync_fs(Put(move_window(S, Data(o.dir_sect)))) ELSE S

Sync(f, after) ==
    LET o == fil[f]
    IN  /\ Idle /\ o.open /\ (o.modified \/ ~after.open)
        /\ Done(Synced(lib, o), {},
                IF o.modified THEN With(safe, o.path, want[o.path].data) ELSE safe, o.cut)
        /\ fil' = [fil EXCEPT ![f] = after]
        /\ UNCHANGED want

f_sync(f) == Sync(f, [fil[f] EXCEPT !.modified = FALSE, !.cut = FALSE])
f_close(f) == Sync(f, Closed)

-----------------------------------------------------------------------------
(* f_unlink: first the entry, then the chain.  A directory must be empty.  *)
Empty(vol, c) ==
    LET T == Slots(vol, Chain(vol, c))
    IN  \A i \in 1 .. End(T) - 1 : T[i].k # "sfn"

\* The window after the look for an entry in the directory at c.
Searched(S, c) ==
    LET Upto(T) == Min({i \in DOMAIN T : T[i].k = "sfn"} \cup {End(T)})
    IN  Scanned(S, Chain(S.vol, c), Upto(Slots(S.vol, Chain(S.vol, c))))

\* Mutant of Unlinked: the chain is freed before the entry goes.
UnlinkedLate(S, F, c) == sync_fs(dir_remove(IF c = 0 THEN S ELSE remove_chain(S, c, 0), F))
Unlinked(S, F, c) ==
    LET R == dir_remove(S, F) IN sync_fs(IF c = 0 THEN R ELSE remove_chain(R, c, 0))

f_unlink(p) ==
    /\ Idle /\ Legal(p)
    /\ \E F \in {follow_path(lib, p)} :
        IF F.res # "OK"
        THEN Done(F.s, {}, safe, FALSE) /\ UNCHANGED want
        ELSE \E e \in {Entry(F)} : \E V \in {IF e.dir THEN Searched(F.s, e.clust) ELSE F.s} :
            IF e.dir /\ ~Empty(lib.vol, e.clust)
            THEN Done(V, {}, safe, FALSE) /\ UNCHANGED want
            ELSE /\ Done(Unlinked(V, F, e.clust), {p}, Without(safe, {p}), FALSE)
                 /\ want' = Without(want, {p})
    /\ UNCHANGED fil

(* f_mkdir: the new table is cleared on the medium before its entry is     *)
(* made; if that fails its cluster is given back.                          *)
Dots(c, parent) ==
    [tab |-> [i \in 1 .. SPS |-> CASE i = 1 -> [k |-> "dot", clust |-> c]
                                   [] i = 2 -> [k |-> "dots", clust |-> parent]
                                   [] OTHER -> [k |-> "end"]]]

\* Mutant of Withdrawn: the cluster of a table without entry is kept.
WithdrawnNot(S, c) == S
Withdrawn(S, c) == remove_chain(S, c, 0)

f_mkdir(p) ==
    /\ Idle
    /\ \E F \in {follow_path(lib, p)} :
        IF F.res # "NO_FILE"
        THEN Done(F.s, {}, safe, FALSE) /\ UNCHANGED want
        ELSE \E C \in {create_chain(F.s, 0)} :
            IF C.n = 0
            THEN Done(C.s, {}, safe, FALSE) /\ UNCHANGED want
            ELSE \E D \in {dir_register(Dirty(dir_clear(C.s, C.n), Dots(C.n, F.dc)), F.dc, Last(p))} :
                IF D.pos = 0
                THEN Done(Withdrawn(D.s, C.n), {}, safe, D.grown) /\ UNCHANGED want
                ELSE /\ Done(sync_fs(PutSlot(D.s, D.chain, D.pos,
                                              [Entry(D) EXCEPT !.dir = TRUE, !.clust = C.n])),
                             {}, safe, D.grown)
                     /\ want' = With(want, p, Directory)
    /\ UNCHANGED fil

(* f_rename: the new entry is made, with everything of the old one but the *)
(* name, before the old one is removed; a directory that changes its       *)
(* parent gets a new "..".                                                 *)
Moved(q, old, new) == new \o SubSeq(q, Len(old) + 1, Len(q))

Renamed(g, old, new) ==
    LET From(q) == IF IsPrefix(new, q) THEN Moved(q, new, old) ELSE q
    IN  [q \in {Moved(r, old, new) : r \in Under(old)} \cup (DOMAIN g \ Under(old)) |-> g[From(q)]]

f_rename(old, new) ==
    /\ Idle /\ Legal(old)
    /\ IsPrefix(old, new) => old = new
    /\ \E F \in {follow_path(lib, old)} : \E G \in {follow_path(F.s, new)} :
        IF F.res # "OK"
        THEN Done(F.s, {}, safe, FALSE) /\ UNCHANGED want
        ELSE IF ~(G.res = "NO_FILE" \/ (G.res = "OK" /\ G.dc = F.dc /\ G.pos = F.pos))
        THEN Done(G.s, {}, safe, FALSE) /\ UNCHANGED want
        ELSE \E e \in {Entry(F)}, D \in {dir_register(G.s, G.dc, Last(new))} :
            IF D.pos = 0
            THEN Done(D.s, {}, safe, D.grown) /\ UNCHANGED want
            ELSE \E N \in {PutSlot(D.s, D.chain, D.pos, [e EXCEPT !.sfn = Entry(D).sfn])} :
                 \E P \in {IF e.dir /\ F.dc # G.dc
                           THEN PutSlot(N, <<e.clust>>, 2, [k |-> "dots", clust |-> G.dc]) ELSE N} :
                /\ Done(sync_fs(dir_remove(P, F)), Under(old), Without(safe, Under(old)), TRUE)
                /\ want' = Renamed(want, old, new)
    /\ UNCHANGED fil

(* f_getfree counts the free entries when it does not know their number.   *)
f_getfree ==
    LET S == Walked(lib, [j \in 1 .. NClust |-> j + 1], NClust)
    IN  /\ Idle /\ lib.free > NClust
        /\ Done([S EXCEPT !.free = Cardinality(Vacant(S.vol)), !.fsi = TRUE], {}, safe, FALSE)
        /\ UNCHANGED <<fil, want>>

(* f_stat and f_opendir search, which moves the window. *)
f_stat(p) ==
    /\ Idle
    /\ Done(follow_path(lib, p).s, {}, safe, FALSE)
    /\ UNCHANGED <<fil, want>>

-----------------------------------------------------------------------------
(* mount_volume reads FSInfo into the window. *)
Mounted(vol) ==
    [vol |-> vol, sect |-> Info, wf |-> FALSE, free |-> vol[Info].free,
     last |-> vol[Info].last, fsi |-> FALSE, out |-> <<>>]

(* External: the drive takes the next sector. *)
DiskWrite ==
    LET w == Head(lib.out)
    IN  /\ lib.out # <<>>
        /\ disk' = [disk EXCEPT ![w[1]] = w[2]]
        /\ lib' = [lib EXCEPT !.out = Tail(@)]
        /\ safe' = IF Len(lib.out) = 1 THEN call.safe ELSE safe
        /\ UNCHANGED <<fil, want, call, torn, crashed, left>>

(* While this holds the library does not promise to survive.               *)
Risky == \/ call.risky /\ lib.out # <<>>
         \/ \E f \in OpenFils : fil[f].cut

Content(vol, c, n) == [j \in 1 .. n |-> vol[Data(Chain(vol, c)[j])]]

Shown(vol) ==
    LET objs == Objects(vol)
    IN  [p \in {o.path : o \in objs} |->
            LET o == CHOOSE x \in objs : x.path = p
            IN  IF o.dir THEN Directory ELSE File(Content(vol, o.clust, o.size))]

(* External: the power fails, and the volume is mounted again. *)
Crash ==
    /\ ~crashed /\ crashed' = TRUE
    /\ torn' = Risky
    /\ fil' = [f \in Fil |-> Closed]
    /\ lib' = Mounted(disk)
    /\ want' = IF Risky THEN want ELSE Shown(disk)
    /\ call' = [safe |-> safe, risky |-> FALSE]
    /\ UNCHANGED <<disk, safe, left>>

Init ==
    /\ disk \in Images
    /\ lib = Mounted(disk)
    /\ fil = [f \in Fil |-> Closed]
    /\ want = Shown(disk)
    /\ safe = [p \in {q \in DOMAIN want : ~want[q].dir} |-> want[p].data]
    /\ call = [safe |-> safe, risky |-> FALSE]
    /\ torn = FALSE /\ crashed = FALSE /\ left = Calls

Next ==
    \/ \E f \in Fil :
        \/ \E p \in Paths, m \in Modes : f_open(f, p, m)
        \/ f_read(f) \/ f_write(f) \/ f_truncate(f) \/ f_sync(f) \/ f_close(f)
        \/ \E n \in 0 .. Size : f_lseek(f, n)
    \/ \E p \in Paths : f_stat(p) \/ f_unlink(p) \/ \E q \in Paths : f_rename(p, q)
    \/ \E p \in Dirs : f_mkdir(p)
    \/ f_getfree \/ DiskWrite \/ Crash

Spec == Init /\ [][Next]_vars

-----------------------------------------------------------------------------
(* The sector s holds x once the writes out have reached the medium d. *)
Arrives(d, out, s, x) ==
    \/ d[s] = x /\ \A k \in DOMAIN out : out[k][1] # s
    \/ \E k \in DOMAIN out : /\ out[k] = <<s, x>>
                            /\ \A j \in k + 1 .. Len(out) : out[j][1] # s

(* What the library takes a sector to hold, the medium will hold once the  *)
(* writes on their way have arrived, in the order they were made; only the *)
(* sector in the window may be newer, while it is marked dirty.  So one    *)
(* window in front of the FAT, the directories and FSInfo neither loses a  *)
(* change nor brings back an old one, wherever it is moved.                *)
WriteThrough ==
    \A s \in Sector : (lib.wf /\ s = lib.sect) \/ Arrives(disk, lib.out, s, lib.vol[s])

(* Same reads the sectors a seek has left open as anything. *)
Same(is, should) ==
    /\ Len(is) = Len(should)
    /\ \A j \in DOMAIN is : should[j] \in {[dat |-> "?"], is[j]}

(* What the library shows is what the callers made: the paths, no more and *)
(* none twice, the data of every closed file behind its entry, of every    *)
(* open one behind its file object, whose cluster is that of its position. *)
FilesIntact ==
    torn \/ LET objs == Objects(lib.vol)
            IN  /\ {o.path : o \in objs} = DOMAIN want
                /\ Cardinality(objs) = Cardinality(DOMAIN want)
                /\ \A o \in objs : o.dir = want[o.path].dir
                /\ \A o \in objs : o.dir \/ (\E f \in OpenFils : fil[f].path = o.path)
                                   \/ Same(Content(lib.vol, o.clust, o.size), want[o.path].data)
                /\ \A f \in OpenFils :
                    LET o == fil[f]
                    IN  /\ Same(Content(lib.vol, o.sclust, o.objsize), want[o.path].data)
                        /\ o.fptr > 0 => o.clust = Chain(lib.vol, o.sclust)[o.fptr]

(* The clusters of an object of the volume, and those of every directory.  *)
ChainsOf(vol) ==
    LET objs == Objects(vol)
    IN  {Chain(vol, Root)} \cup {Chain(vol, o.clust) : o \in {x \in objs : x.clust # 0}}

(* The medium is a sound volume at every moment, each of which may be the  *)
(* last before the power fails, outside the windows the library leaves     *)
(* open: no cluster belongs to two objects, every chain ends and is long   *)
(* enough, every table was cleared first; and a file that was closed is    *)
(* still there with its data.                                              *)
MediumSound ==
    torn \/ Risky \/
        LET objs == Objects(disk)
            used == {o \in objs : o.clust # 0}
        IN  /\ \A o1, o2 \in used : o1 # o2 =>
                  ToSet(Chain(disk, o1.clust)) \cap ToSet(Chain(disk, o2.clust)) = {}
            /\ \A ch \in ChainsOf(disk) :
                  FatOf(disk, Last(ch)) = Eoc /\ (ch[1] = Root \/ Root \notin ToSet(ch))
            /\ \A o \in objs : ~o.dir => Len(Chain(disk, o.clust)) >= o.size
            /\ \A p \in DOMAIN safe : \E o \in objs :
                  o.path = p /\ ~o.dir /\ Same(Content(disk, o.clust, o.size), safe[p])

(* As long as the power has not failed the library's count of free         *)
(* clusters is the number of free entries of the FAT, or "not known": every *)
(* entry that is taken or given back is counted once, whatever the chains  *)
(* look like that lead to it.                                              *)
CountExact == crashed \/ lib.free \in {Cardinality(Vacant(lib.vol)), Unknown}

(* No cluster is lost: one is in use exactly when the root, an object or a *)
(* file object has it.                                                     *)
Accounting ==
    LET objs == {o \in Objects(lib.vol) : o.dir \/ ~\E f \in OpenFils : fil[f].path = o.path}
        heads == {Root} \cup {o.clust : o \in objs} \cup {fil[f].sclust : f \in OpenFils}
    IN  crashed \/ Cluster \ Vacant(lib.vol) = UNION {ToSet(Chain(lib.vol, c)) : c \in heads}
=============================================================================
