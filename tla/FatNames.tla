------------------------------ MODULE FatNames ------------------------------
(***************************************************************************)
(* Names in FatFs (src/kernel/fs/fat/fat.c, ffunicode.c) on a FAT volume,  *)
(* byte by byte: how a long name becomes a short one, how both are stored  *)
(* in the slots of a directory, found again and read back.  The module     *)
(* FatVolume takes the results for granted: a name is found exactly by     *)
(* itself and by its numbered short form.                                  *)
(*                                                                         *)
(* Callers' names are sequences of bytes in code page 936; inside, a name  *)
(* is a sequence of UTF-16 units.  The sizes are constants, the tables of  *)
(* the code page are an excerpt; the table of upper-case letters is whole. *)
(* An SFN slot carries the number id of its object.                        *)
(***************************************************************************)
EXTENDS Integers, Sequences, FiniteSets, SequencesExt, Loops

CONSTANTS BODY, EXT,   \* bytes of a short name: 8 and 3
          PART,        \* units in an LFN slot: 13
          MAX,         \* FF_MAX_LFN: 255
          CodePage     \* pairs of a UTF-16 unit and its OEM code, from 0x80 on

Space == 32
Dot == 46
DDEM == 229
RDDEM == 5
Fill == 65535
Illegal == {42, 58, 60, 62, 124, 34, 63, 127}     \* *:<>|"?DEL
NotShort == {43, 44, 59, 61, 91, 93}              \* +,;=[]
IsUpper(c) == c \in 65 .. 90
IsLower(c) == c \in 97 .. 122

-----------------------------------------------------------------------------
(* ffunicode.c: at most 16 probes between li and hi in a table p whose     *)
(* entry hi at the end is <<0, 0>>; 0 when the key is not found.           *)
\* Mutant of Probes: a probe less for every key of the real table.
ProbesFew == 14
Probes == 16

Search(p, top, x) ==
    LET Probe(s, n) ==
            LET i == s.li + ((s.hi - s.li) \div 2)
            IN  IF s.c # 0 THEN s
                ELSE IF x = p[i][1] THEN [s EXCEPT !.c = p[i][2]]
                ELSE IF x > p[i][1] THEN [s EXCEPT !.li = i] ELSE [s EXCEPT !.hi = i]
    IN  Loop(Probe, [li |-> 0, hi |-> top, c |-> 0], Probes).c

Ends(pairs) == LET s == SortSeq(SetToSeq(pairs), LAMBDA a, b : a[1] < b[1])
               IN  [i \in 0 .. Len(s) |-> IF i = Len(s) THEN <<0, 0>> ELSE s[i + 1]]
uni2oem == Ends(CodePage)
oem2uni == Ends({<<x[2], x[1]>> : x \in CodePage})

ff_uni2oem(c) == IF c < 128 THEN c ELSE Search(uni2oem, Cardinality(CodePage), c)
ff_oem2uni(c) == IF c < 128 THEN c ELSE Search(oem2uni, Cardinality(CodePage), c)

(* ff_wtoupper: blocks of <<first, length, command, table>>.               *)
cvt1 == <<
    <<97, 26, 3, <<>>>>, <<224, 23, 3, <<>>>>, <<248, 7, 3, <<>>>>, <<255, 1, 0, <<376>>>>, <<256, 48, 1,
    <<>>>>, <<306, 6, 1, <<>>>>, <<313, 16, 1, <<>>>>, <<330, 46, 1, <<>>>>, <<377, 6, 1, <<>>>>, <<384, 77, 0,
    <<579, 385, 386, 386, 388, 388, 390, 391, 391, 393, 394, 395, 395, 397, 398, 399, 400, 401, 401, 403, 404,
    502, 406, 407, 408, 408, 573, 411, 412, 413, 544, 415, 416, 416, 418, 418, 420, 420, 422, 423, 423, 425,
    426, 427, 428, 428, 430, 431, 431, 433, 434, 435, 435, 437, 437, 439, 440, 440, 442, 443, 444, 444, 446,
    503, 448, 449, 450, 451, 452, 453, 452, 455, 456, 455, 458, 459, 458>>>>, <<461, 16, 1, <<>>>>, <<477, 1, 0,
    <<398>>>>, <<478, 18, 1, <<>>>>, <<499, 3, 0, <<497, 500, 500>>>>, <<504, 40, 1, <<>>>>, <<546, 18, 1,
    <<>>>>, <<570, 9, 0, <<11365, 571, 571, 573, 11366, 575, 576, 577, 577>>>>, <<582, 10, 1, <<>>>>, <<595, 64,
    0, <<385, 390, 597, 393, 394, 600, 399, 602, 400, 604, 605, 606, 607, 403, 609, 610, 404, 612, 613, 614,
    615, 407, 406, 618, 11362, 620, 621, 622, 412, 624, 625, 413, 627, 628, 415, 630, 631, 632, 633, 634, 635,
    636, 11364, 638, 639, 422, 641, 642, 425, 644, 645, 646, 647, 430, 580, 433, 434, 581, 653, 654, 655, 656,
    657, 439>>>>, <<891, 3, 0, <<1021, 1022, 1023>>>>, <<940, 4, 0, <<902, 904, 905, 906>>>>, <<945, 17, 3,
    <<>>>>, <<962, 2, 0, <<931, 931>>>>, <<964, 8, 3, <<>>>>, <<972, 3, 0, <<908, 910, 911>>>>, <<984, 24, 1,
    <<>>>>, <<1010, 10, 0, <<1017, 1011, 1012, 1013, 1014, 1015, 1015, 1017, 1018, 1018>>>>, <<1072, 32, 3,
    <<>>>>, <<1104, 16, 7, <<>>>>, <<1120, 34, 1, <<>>>>, <<1162, 54, 1, <<>>>>, <<1217, 14, 1, <<>>>>, <<1231,
    1, 0, <<1216>>>>, <<1232, 68, 1, <<>>>>, <<1377, 38, 4, <<>>>>>>

cvt2 == <<
    <<7549, 1, 0, <<11363>>>>, <<7680, 150, 1, <<>>>>, <<7840, 90, 1, <<>>>>, <<7936, 8, 6, <<>>>>, <<7952, 6,
    6, <<>>>>, <<7968, 8, 6, <<>>>>, <<7984, 8, 6, <<>>>>, <<8000, 6, 6, <<>>>>, <<8017, 7, 0, <<8025, 8018,
    8027, 8020, 8029, 8022, 8031>>>>, <<8032, 8, 6, <<>>>>, <<8048, 14, 0, <<8122, 8123, 8136, 8137, 8138, 8139,
    8154, 8155, 8184, 8185, 8170, 8171, 8186, 8187>>>>, <<8064, 8, 6, <<>>>>, <<8080, 8, 6, <<>>>>, <<8096, 8,
    6, <<>>>>, <<8112, 4, 0, <<8120, 8121, 8114, 8124>>>>, <<8140, 1, 0, <<8131>>>>, <<8144, 2, 6, <<>>>>,
    <<8160, 2, 6, <<>>>>, <<8165, 1, 0, <<8172>>>>, <<8179, 1, 0, <<8188>>>>, <<8526, 1, 0, <<8498>>>>, <<8560,
    16, 2, <<>>>>, <<8580, 1, 0, <<8579>>>>, <<9424, 26, 5, <<>>>>, <<11312, 47, 4, <<>>>>, <<11360, 2, 1,
    <<>>>>, <<11367, 6, 1, <<>>>>, <<11381, 2, 1, <<>>>>, <<11392, 100, 1, <<>>>>, <<11520, 38, 8, <<>>>>,
    <<65345, 26, 3, <<>>>>>>

\* Commands: a table, pairs of cases, distances.
Distance == <<0, -16, -32, -48, -26, 8, -80, -7264>>
Converted(uc, b) ==
    IF b[3] = 0 THEN b[4][uc - b[1] + 1]
    ELSE IF b[3] = 1 THEN uc - ((uc - b[1]) % 2) ELSE uc + Distance[b[3]]

UpperIn(p, uc) ==
    LET from[k \in 1 .. Len(p) + 1] ==
            IF k > Len(p) THEN uc
            ELSE IF uc < p[k][1] THEN uc
            ELSE IF uc < p[k][1] + p[k][2] THEN Converted(uc, p[k]) ELSE from[k + 1]
    IN  from[1]

UpperOf(uc) == UpperIn(IF uc < 4096 THEN cvt1 ELSE cvt2, uc)

ff_wtoupper == [uc \in 0 .. 65535 |-> UpperOf(uc)]

(* The bytes of a character and back (tchar2uni, put_utf); 0 is no         *)
(* character.                                                              *)
dbc_1st(b) == b \in 129 .. 254
dbc_2nd(b) == b \in (64 .. 126) \cup (128 .. 254)

Decoded(bytes) ==
    LET Len1 == Len(bytes)
        d[k \in 1 .. Len1 + 1] ==
            IF k > Len1 THEN <<>>
            ELSE IF ~dbc_1st(bytes[k]) THEN <<ff_oem2uni(bytes[k])>> \o d[k + 1]
            ELSE IF k = Len1 THEN <<0>>
            ELSE IF ~dbc_2nd(bytes[k + 1]) THEN <<0>>
            ELSE <<ff_oem2uni(bytes[k] * 256 + bytes[k + 1])>> \o d[k + 2]
    IN  d[1]

Bytes(oem) == IF oem >= 256 THEN <<oem \div 256, oem % 256>> ELSE <<oem>>
Encoded(units) == FlattenSeq([k \in DOMAIN units |-> Bytes(ff_uni2oem(units[k]))])

(* Without trailing spaces and dots. *)
Snipped(s) ==
    LET n == SelectLastInSeq(s, LAMBDA c : c \notin {Space, Dot}) IN SubSeq(s, 1, n)

-----------------------------------------------------------------------------
(* create_name.  The short name is filled character by character; `field'  *)
(* is the one being filled, caps the cases seen in each.                   *)
Loss(s) == [s EXCEPT !.flags = @ \cup {"LOSS", "LFN"}]
Room(s) == (IF s.field = "body" THEN BODY ELSE EXT) - Len(s[s.field])
Fill1(s, bs) == [s EXCEPT ![s.field] = @ \o bs]
Seen(s, x) == [s EXCEPT !.caps = @ \cup {<<s.field, x>>}]

PutChar(s, c) ==
    LET wc == IF c >= 128 THEN ff_uni2oem(ff_wtoupper[c]) ELSE c
        t == IF c >= 128 THEN [s EXCEPT !.flags = @ \cup {"LFN"}] ELSE s
    IN  IF wc >= 256
        THEN IF Room(t) < 2 THEN Loss(Fill1(t, <<Space>>)) ELSE Fill1(t, Bytes(wc))
        ELSE IF wc = 0 \/ wc \in NotShort THEN Loss(Fill1(t, <<95>>))
        ELSE IF IsUpper(wc) THEN Seen(Fill1(t, <<wc>>), "upper")
        ELSE IF IsLower(wc) THEN Seen(Fill1(t, <<wc - 32>>), "lower")
        ELSE Fill1(t, <<wc>>)

(* The character at k of lfn, whose last dot is at dot (0: there is none). *)
NextChar(s, lfn, k, dot) ==
    LET c == lfn[k]
    IN  IF s.done \/ (s.field = "ext" /\ k <= dot) THEN s
        ELSE IF c = Space \/ (c = Dot /\ k # dot) THEN Loss(s)
        ELSE IF Room(s) > 0 /\ k # dot THEN PutChar(s, c)
        ELSE IF s.field = "ext" THEN [Loss(s) EXCEPT !.done = TRUE]
        ELSE LET t == IF k # dot THEN Loss(s) ELSE s
             IN  IF k > dot THEN [t EXCEPT !.done = TRUE] ELSE [t EXCEPT !.field = "ext"]

Padded11(s) ==
    [k \in 1 .. BODY + EXT |->
        LET b == IF k <= BODY THEN s.body ELSE s.ext
            j == IF k <= BODY THEN k ELSE k - BODY
        IN  IF j > Len(b) THEN Space ELSE IF k = 1 /\ b[j] = DDEM THEN RDDEM ELSE b[j]]

Cased(s) ==
    LET both(f) == {<<f, "upper">>, <<f, "lower">>} \subseteq s.caps
        low == {f \in {"body", "ext"} : <<f, "lower">> \in s.caps}
    IN  IF both("body") \/ both("ext") THEN s.flags \cup {"LFN"}
        ELSE IF "LFN" \in s.flags THEN s.flags ELSE s.flags \cup low

Shortened(lfn, lead, dot) ==
    LET odd == lead > 0 \/ lfn[lead + 1] = Dot
    IN  Loop(LAMBDA s, k : IF k <= lead THEN s ELSE NextChar(s, lfn, k, dot),
             [body |-> <<>>, ext |-> <<>>, field |-> "body", caps |-> {}, done |-> FALSE,
              flags |-> IF odd THEN {"LOSS", "LFN"} ELSE {}], Len(lfn))

Made(raw, lfn, s) ==
    [ok |-> TRUE, raw |-> raw, lfn |-> lfn, fn |-> Padded11(s), flags |-> Cased(s)]

NameOf(raw, lfn) ==
    IF \/ \E k \in DOMAIN raw : raw[k] = 0 \/ raw[k] \in Illegal
       \/ Len(raw) > MAX \/ lfn = <<>>
    THEN [ok |-> FALSE]
    ELSE Made(raw, lfn, Shortened(lfn, SelectInSeq(lfn, LAMBDA c : c # Space) - 1,
                                  SelectLastInSeq(lfn, LAMBDA c : c = Dot)))

create_name(bytes) ==
    LET Of(raw) == NameOf(raw, Snipped(raw)) IN Of(Decoded(bytes))

(* The buffer keeps what earlier names left behind the end of this one.    *)
InBuffer(nm, lfnbuf) ==
    [k \in 1 .. MAX + 1 |-> IF k = Len(nm.lfn) + 1 THEN 0
                            ELSE IF k <= Len(nm.raw) THEN nm.raw[k] ELSE lfnbuf[k]]

-----------------------------------------------------------------------------
(* Numbered short names and their checksums.                               *)
Xor(a, b) ==
    Loop(LAMBDA x, i : x + 2^(i - 1) * (((a \div 2^(i - 1)) + (b \div 2^(i - 1))) % 2), 0, 17)

Hash(lfn, seq) ==
    LET Bit(r, b) == LET t == 2 * r + b IN IF t >= 65536 THEN Xor(t, 69665) ELSE t
        Unit(r, k) == Loop(LAMBDA x, i : Bit(x, (lfn[k] \div 2^(i - 1)) % 2), r, 16)
    IN  Loop(Unit, seq, Len(lfn))

\* `~' and the last hexadecimal digits of n, at most room of them.
Suffix(n, room) ==
    LET Digit(x) == IF x > 9 THEN x + 55 ELSE x + 48
        tail[r \in 1 .. room, x \in 0 .. n] ==
            IF x < 16 \/ r = 1 THEN <<Digit(x % 16)>>
            ELSE tail[r - 1, x \div 16] \o <<Digit(x % 16)>>
    IN  <<126>> \o tail[room, n]

\* fn with ns at the end of its body, behind the last whole character.
Ending(fn, ns) ==
    LET i == BODY - Len(ns)
        offset[j \in 0 .. BODY] ==
            IF j >= i THEN j
            ELSE IF fn[j + 1] = Space THEN j
            ELSE IF ~dbc_1st(fn[j + 1]) THEN offset[j + 1]
            ELSE IF j = i - 1 THEN j ELSE offset[j + 2]
        With(j) == [k \in 1 .. BODY + EXT |->
                       IF k <= j \/ k > BODY THEN fn[k]
                       ELSE IF k - j <= Len(ns) THEN ns[k - j] ELSE Space]
    IN  With(offset[0])

gen_numname(fn, lfn, seq) ==
    Ending(fn, Suffix(IF seq > 5 THEN Hash(lfn, seq) ELSE seq, BODY - 1))

sum_sfn(fn) == Loop(LAMBDA s, k : ((s \div 2) + s * 128 + fn[k]) % 256, 0, BODY + EXT)

-----------------------------------------------------------------------------
(* Slots.                                                                  *)
Free == [k |-> "free"]

put_lfn(lfn, ord, sum) ==
    [k |-> "lfn", ord |-> ord, last |-> Len(lfn) <= ord * PART, sum |-> sum,
     units |-> [s \in 1 .. PART |-> LET p == (ord - 1) * PART + s
                                    IN  IF p <= Len(lfn) THEN lfn[p]
                                        ELSE IF p = Len(lfn) + 1 THEN 0 ELSE Fill]]

\* Those positions of a slot that are part of the name, its end included.
Part(slot) == {s \in 1 .. PART : \A r \in 1 .. s - 1 : slot.units[r] # 0}
Ended(slot) == \E s \in 1 .. PART : slot.units[s] = 0
Place(slot, s) == (slot.ord - 1) * PART + s

\* Mutant of SameEnd: a name that goes on after the last slot matches too.
SameEndAny(slot, lfnbuf) == TRUE
SameEnd(slot, lfnbuf) == slot.last /\ ~Ended(slot) => lfnbuf[Place(slot, PART) + 1] = 0

cmp_lfn(lfnbuf, slot) ==
    /\ \A s \in Part(slot) :
          /\ Place(slot, s) <= MAX + 1
          /\ ff_wtoupper[slot.units[s]] = ff_wtoupper[lfnbuf[Place(slot, s)]]
    /\ \A s \in (1 .. PART) \ Part(slot) : slot.units[s] = Fill
    /\ SameEnd(slot, lfnbuf)

\* <<done, the buffer>>
pick_lfn(lfnbuf, slot) ==
    LET n == IF slot.last /\ ~Ended(slot) THEN PART + 1 ELSE Cardinality(Part(slot))
        at == Place(slot, 0)
    IN  IF at + n > MAX + 1 THEN <<FALSE, lfnbuf>>
        ELSE <<TRUE, [p \in 1 .. MAX + 1 |->
                          IF p \notin at + 1 .. at + n THEN lfnbuf[p]
                          ELSE IF p = at + PART + 1 THEN 0 ELSE slot.units[p - at]]>>

(* A sequence of LFN slots: the next number expected, its checksum, where  *)
(* it began.  An LFN slot continues it if it has that number and agrees.   *)
NoSeq == [ord |-> 255, sum |-> 255, blk |-> 0]
Begun(q, slot, k) ==
    IF slot.last THEN [ord |-> slot.ord, sum |-> slot.sum, blk |-> k] ELSE q
Continued(q, slot, agrees) ==
    [q EXCEPT !.ord = IF slot.ord = q.ord /\ slot.sum = q.sum /\ agrees THEN @ - 1 ELSE 255]

(* dir_find: at is the SFN slot of the object, 0 for none.                 *)
dir_find(dir, nm, lfnbuf) ==
    LET Visit(q, k) ==
            LET slot == dir[k]
                b == Begun(q, slot, k)
            IN  IF q.at # 0 THEN q
                ELSE IF slot = Free THEN NoSeq @@ q
                ELSE IF slot.k = "lfn"
                THEN IF "NOLFN" \in nm.flags THEN q
                     ELSE Continued(b, slot, cmp_lfn(lfnbuf, slot)) @@ q
                ELSE IF \/ q.ord = 0 /\ q.sum = sum_sfn(slot.fn)
                        \/ "LOSS" \notin nm.flags /\ slot.fn = nm.fn
                THEN [q EXCEPT !.at = k] ELSE NoSeq @@ q
    IN  Loop(Visit, NoSeq @@ [at |-> 0], Len(dir))

(* dir_alloc and dir_register: the long name's slots, the last one first,  *)
(* then the short one's.  id is written to the slot by the caller.         *)
Put(dir, slots) ==
    LET room(k) == \A j \in k .. k + Len(slots) - 1 : j > Len(dir) \/ dir[j] = Free
        at == CHOOSE k \in 1 .. Len(dir) + 1 : room(k) /\ \A j \in 1 .. k - 1 : ~room(j)
        end == at + Len(slots) - 1
    IN  [j \in 1 .. (IF end > Len(dir) THEN end ELSE Len(dir)) |->
            IF j \in at .. end THEN slots[j - at + 1] ELSE dir[j]]

Taken(dir, nm, fn, lfnbuf) ==
    dir_find(dir, [nm EXCEPT !.fn = fn, !.flags = {"NOLFN"}], lfnbuf).at # 0

Numbered(dir, nm, lfnbuf) ==
    {n \in 1 .. 99 : /\ ~Taken(dir, nm, gen_numname(nm.fn, nm.lfn, n), lfnbuf)
                     /\ \A m \in 1 .. n - 1 : Taken(dir, nm, gen_numname(nm.fn, nm.lfn, m), lfnbuf)}

Registered(dir, nm, fn, id) ==
    LET parts == IF "LFN" \in nm.flags THEN (Len(nm.lfn) + PART - 1) \div PART ELSE 0
        long(sum) == [i \in 1 .. parts |-> put_lfn(nm.lfn, parts + 1 - i, sum)]
        short == [k |-> "sfn", fn |-> fn, low |-> nm.flags \cap {"body", "ext"}, id |-> id]
    IN  [ok |-> TRUE, dir |-> Put(dir, Append(long(sum_sfn(fn)), short))]

dir_register(dir, nm, lfnbuf, id) ==
    LET In(ns) == IF ns = {} THEN [ok |-> FALSE, dir |-> dir]
                  ELSE Registered(dir, nm, gen_numname(nm.fn, nm.lfn, CHOOSE n \in ns : TRUE), id)
    IN  IF "LOSS" \in nm.flags THEN In(Numbered(dir, nm, lfnbuf))
        ELSE Registered(dir, nm, nm.fn, id)

dir_remove(dir, q) ==
    [k \in DOMAIN dir |-> IF k \in (IF q.blk = 0 THEN q.at ELSE q.blk) .. q.at THEN Free
                          ELSE dir[k]]

(* get_fileinfo: what is shown of a short name.                            *)
AltName(fn) ==
    LET Byte(k) == (IF k = BODY + 1 /\ fn[k] # Space THEN <<Dot>> ELSE <<>>) \o
                   (IF fn[k] = Space THEN <<>> ELSE IF fn[k] = RDDEM THEN <<DDEM>> ELSE <<fn[k]>>)
    IN  FlattenSeq([k \in 1 .. BODY + EXT |-> Byte(k)])

ShortName(slot) ==
    LET alt == AltName(slot.fn)
        dot == SelectInSeq(alt, LAMBDA c : c = Dot)
        in(k) == IF dot # 0 /\ k >= dot THEN "ext" ELSE "body"
    IN  [k \in DOMAIN alt |-> IF IsUpper(alt[k]) /\ in(k) \in slot.low THEN alt[k] + 32 ELSE alt[k]]

(* dir_read from the start of the directory to its end: <<id, name>> of    *)
(* every object.                                                           *)
Listing(dir, lfnbuf0) ==
    LET Terminated(buf) == SubSeq(buf, 1, SelectInSeq(buf, LAMBDA c : c = 0) - 1)
        Visit(q, k) ==
            LET slot == dir[k]
                b == Begun(q, slot, k)
                p == pick_lfn(q.buf, slot)
                named == q.ord = 0 /\ q.sum = sum_sfn(slot.fn)
                long == Encoded(Terminated(q.buf))
            IN  IF slot = Free THEN NoSeq @@ q
                ELSE IF slot.k = "lfn" THEN [buf |-> IF slot.ord = b.ord /\ slot.sum = b.sum THEN p[2] ELSE q.buf]
                                            @@ Continued(b, slot, p[1]) @@ q
                ELSE [q EXCEPT !.out = @ \cup
                        {<<slot.id, IF named THEN long ELSE ShortName(slot)>>}]
    IN  Loop(Visit, NoSeq @@ [buf |-> lfnbuf0, out |-> {}], Len(dir)).out

-----------------------------------------------------------------------------
(* Calls on one directory: f_open with FA_CREATE_NEW, and f_unlink.  objs  *)
(* is the reference: the names of the objects made, by id; <<>> for none.  *)
Volume0 == [dir |-> <<>>, lfnbuf |-> [k \in 1 .. MAX + 1 |-> 0], objs |-> <<>>]

Created(v, nm, buf, name) ==
    LET With(made) ==
            [dir |-> made.dir, lfnbuf |-> buf,
             objs |-> IF made.ok THEN Append(v.objs, Snipped(name)) ELSE v.objs]
    IN  With(dir_register(v.dir, nm, buf, Len(v.objs) + 1))

Removed(v, buf, q) ==
    [dir |-> dir_remove(v.dir, q), lfnbuf |-> buf, objs |-> [v.objs EXCEPT ![v.dir[q.at].id] = <<>>]]

Do(v, op) ==
    LET Found(nm, buf, q) ==
            IF op[1] = "create" /\ q.at = 0 THEN Created(v, nm, buf, op[2])
            ELSE IF op[1] = "remove" /\ q.at # 0 THEN Removed(v, buf, q)
            ELSE [v EXCEPT !.lfnbuf = buf]
        Searched(nm, buf) == Found(nm, buf, dir_find(v.dir, nm, buf))
        Call(nm) == IF nm.ok THEN Searched(nm, InBuffer(nm, v.lfnbuf)) ELSE v
    IN  Call(create_name(op[2]))
=============================================================================
