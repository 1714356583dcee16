----------------------------- MODULE DiskProofs -----------------------------
(***************************************************************************)
(* The disk driver and its drive implement the medium the layers above     *)
(* expect (Medium), for every size of the drive, of a sector and of a      *)
(* request, every number of calls and every pattern of errors.             *)
(*                                                                         *)
(* DiskInv, which is inductive, says where every word of the present call  *)
(* is: in the driver's buffer, in the drive's, or on the medium; and that  *)
(* a command outlives its call only as one full sector still to write.     *)
(***************************************************************************)
EXTENDS Disk, SequenceTheorems, TLAPS

Word == (Datum \X (1 .. Words)) \cup {Noise}
SectorData == [1 .. Words -> Word]

TypeOK ==
    /\ pc \in {"idle", "wait1", "wait2", "xfer"}
    /\ req \in [mode : {"read", "write"}, at : Nat, n : Nat]
    /\ buf \in Seq(Word) /\ count \in Nat
    /\ drive \in [st : {"ready", "busy", "drq", "dead"}, cmd : {"none", "read", "write"},
                  lba : Nat, left : Nat, data : Seq(Word)]
    /\ media \in [Sector -> SectorData]
    /\ failed \in BOOLEAN
    /\ left \in [calls : Nat, faults : Nat]

Active == drive.st \in {"busy", "drq"}

(* What the drive's buffer holds of its present sector.                    *)
DriveOK ==
    IF ~Active THEN drive = [Resting EXCEPT !.st = drive.st]
    ELSE /\ drive.left \in Nat \ {0} /\ drive.lba + drive.left <= Size
         /\ \/ /\ drive.cmd = "read" /\ drive.st = "busy" /\ drive.data = <<>>
            \/ /\ drive.cmd = "read" /\ drive.st = "drq" /\ Len(drive.data) \in 1 .. Words
               /\ \A j \in 1 .. Words :
                      j > Words - Len(drive.data) =>
                      drive.data[j - (Words - Len(drive.data))] = media[drive.lba][j]
            \/ /\ drive.cmd = "write" /\ drive.st = "busy" /\ (drive.data = <<>> \/ Full)
            \/ /\ drive.cmd = "write" /\ drive.st = "drq" /\ Len(drive.data) < Words

(* Between calls, and before the command of one, the drive has at most the *)
(* last sector of the call before to write.                                *)
BetweenOK ==
    pc \in {"idle", "wait1"} /\ Active =>
        drive.st = "busy" /\ drive.cmd = "write" /\ Full /\ drive.left = 1

RequestOK ==
    pc # "idle" => req.n \in 1 .. MaxCount /\ req.at + req.n <= Size

(* Before the first turn of the loop nothing has been moved.               *)
WaitOK ==
    /\ pc = "wait1" => ~failed
    /\ pc \in {"wait1", "wait2"} =>
           IF req.mode = "read" THEN buf = <<>> ELSE Len(buf) = req.n * Words
    /\ pc = "wait2" =>
           /\ Active => drive.left = req.n
           /\ Active /\ drive.cmd = "write" => drive.data = <<>>
           /\ Active /\ drive.st = "drq" /\ drive.cmd = "read" => Len(drive.data) = Words

(* The drive works for the present call until it is done or has failed.    *)
DuringOK ==
    pc \in {"wait2", "xfer"} =>
        /\ Active => ~failed /\ drive.cmd = req.mode
                     /\ req.at <= drive.lba /\ drive.lba + drive.left = req.at + req.n
        /\ ~Active /\ ~failed => pc = "xfer" /\ count = 0

(* The number of words still to move is what the drive expects.            *)
CountOK ==
    pc = "xfer" =>
        /\ IF req.mode = "read" THEN Len(buf) + count = req.n * Words ELSE Len(buf) = count
        /\ Active /\ req.mode = "read" =>
               IF drive.st = "busy" THEN count = drive.left * Words
               ELSE count = (drive.left - 1) * Words + Len(drive.data)
        /\ Active /\ req.mode = "write" => Len(drive.data) + count = drive.left * Words

(* What a read has so far is what the medium holds.                        *)
ReadOK ==
    pc = "xfer" /\ req.mode = "read" /\ ~failed =>
        \A k \in 0 .. req.n - 1, j \in 1 .. Words :
            k * Words + j <= Len(buf) => buf[k * Words + j] = media[req.at + k][j]

(* After a read the buffer has whole sectors.                              *)
AnswerOK ==
    pc = "idle" /\ req.mode = "read" => \E m \in 0 .. MaxCount : Len(buf) = m * Words

DiskInv ==
    TypeOK /\ DriveOK /\ BetweenOK /\ RequestOK /\ WaitOK /\ DuringOK /\ CountOK /\ ReadOK /\ AnswerOK

-----------------------------------------------------------------------------
\* A word of a call is one word of one sector.
LEMMA WordOfSector ==
    ASSUME NEW W \in Nat \ {0}, NEW k \in Nat, NEW j \in 1 .. W
    PROVE  /\ (k * W + j - 1) \div W = k
           /\ (k * W + j - 1) % W = j - 1
           /\ \A m \in Nat : k < m => k * W + j <= m * W
           /\ \A m \in Nat, i \in 1 .. W : k * W + j = m * W + i => k = m /\ j = i
<1>1. \A m \in Nat : k < m => k * W + W <= m * W
  <2> SUFFICES ASSUME NEW m \in Nat, k < m PROVE k * W + W <= m * W
    OBVIOUS
  <2>1. PICK d \in Nat : m = k + 1 + d
    <3>1. m - (k + 1) \in Nat /\ m = k + 1 + (m - (k + 1))
      OBVIOUS
    <3> QED BY <3>1
  <2>2. m * W = k * W + W + d * W /\ d * W \in Nat /\ k * W \in Nat
    BY <2>1
  <2> QED BY <2>2
<1>2. \A m \in Nat : k < m => k * W + j <= m * W
  <2> SUFFICES ASSUME NEW m \in Nat, k < m PROVE k * W + j <= m * W
    OBVIOUS
  <2>1. k * W + W <= m * W /\ k * W \in Nat /\ m * W \in Nat
    BY <1>1
  <2> QED BY <2>1
<1>3. ASSUME NEW m \in Nat, NEW i \in 1 .. W, k * W + j = m * W + i
      PROVE  k = m /\ j = i
  <2>1. k * W \in Nat /\ m * W \in Nat
    OBVIOUS
  <2>2. ~(k < m)
    BY <1>1, <1>3, <2>1
  <2>3. ~(m < k)
    <3>1. m < k => m * W + W <= k * W
      <4> SUFFICES ASSUME m < k PROVE m * W + W <= k * W
        OBVIOUS
      <4>1. PICK d \in Nat : k = m + 1 + d
        <5>1. k - (m + 1) \in Nat /\ k = m + 1 + (k - (m + 1))
          OBVIOUS
        <5> QED BY <5>1
      <4>2. k * W = m * W + W + d * W /\ d * W \in Nat
        BY <4>1
      <4> QED BY <4>2, <2>1
    <3> QED BY <3>1, <1>3, <2>1
  <2>4. k = m
    BY <2>2, <2>3
  <2> QED BY <2>4, <1>3, <2>1
<1>4. (k * W + j - 1) \div W = k /\ (k * W + j - 1) % W = j - 1
  OBVIOUS
<1> QED BY <1>2, <1>3, <1>4

LEMMA SameWord ==
    \A W \in Nat \ {0}, k, m \in Nat : \A j, i \in 1 .. W :
        k * W + j = m * W + i => k = m /\ j = i
<1> SUFFICES ASSUME NEW W \in Nat \ {0}, NEW k \in Nat, NEW m \in Nat,
                    NEW j \in 1 .. W, NEW i \in 1 .. W, k * W + j = m * W + i
             PROVE  k = m /\ j = i
  OBVIOUS
<1> QED BY WordOfSector

\* What a caller sees of whole sectors.
LEMMA SectorsProperties ==
    ASSUME NEW ws \in Seq(Word), NEW m \in Nat, Len(ws) = m * Words
    PROVE  /\ Sectors(ws) \in Seq(SectorData) /\ Len(Sectors(ws)) = m
           /\ DOMAIN Sectors(ws) = 1 .. m
           /\ \A k \in 1 .. m :
                /\ Sectors(ws)[k] \in SectorData
                /\ \A j \in 1 .. Words : Sectors(ws)[k][j] = ws[(k - 1) * Words + j]
<1> USE DiskAssumption
<1>1. Len(ws) \div Words = m
  OBVIOUS
<1>2. DOMAIN Sectors(ws) = 1 .. m
  BY <1>1 DEF Sectors
<1>3. ASSUME NEW k \in 1 .. m
      PROVE  /\ Sectors(ws)[k] \in SectorData
             /\ \A j \in 1 .. Words : Sectors(ws)[k][j] = ws[(k - 1) * Words + j]
  <2> DEFINE a == (k - 1) * Words
  <2>1. a \in Nat /\ k * Words = a + Words
    OBVIOUS
  <2>2. k * Words <= m * Words
    BY k - 1 \in Nat, Words \in 1 .. Words, k - 1 < m, WordOfSector, <2>1
  <2>3. Sectors(ws)[k] = SubSeq(ws, a + 1, k * Words)
    BY <1>1 DEF Sectors
  <2>4. \A i \in a + 1 .. a + Words : ws[i] \in Word
    BY <2>1, <2>2
  <2> HIDE DEF a
  <2>5. /\ SubSeq(ws, a + 1, a + Words) \in Seq(Word)
        /\ Len(SubSeq(ws, a + 1, a + Words)) = Words
        /\ \A i \in 1 .. Words : SubSeq(ws, a + 1, a + Words)[i] = ws[a + i]
    BY <2>1, <2>4, SubSeqProperties, Z3
  <2>6. Sectors(ws)[k] \in [1 .. Words -> Word]
    BY <2>1, <2>3, <2>5, LenProperties
  <2> QED BY <2>1, <2>3, <2>5, <2>6 DEF SectorData, a
<1>4. Sectors(ws) \in [1 .. m -> SectorData]
  BY <1>1, <1>3 DEF Sectors
<1>5. Sectors(ws) \in Seq(SectorData) /\ Len(Sectors(ws)) = m
  BY <1>4
<1> QED BY <1>2, <1>3, <1>5

LEMMA SameData ==
    ASSUME NEW x \in SectorData, NEW y \in SectorData, \A j \in 1 .. Words : x[j] = y[j]
    PROVE  x = y
<1>1. x = [j \in 1 .. Words |-> x[j]] /\ y = [j \in 1 .. Words |-> y[j]]
  BY DEF SectorData
<1>2. [j \in 1 .. Words |-> x[j]] = [j \in 1 .. Words |-> y[j]]
  OBVIOUS
<1> QED BY <1>1, <1>2, Zenon

\* A full buffer of the drive is the first of the sectors still to be written.
LEMMA FirstSector ==
    ASSUME NEW d \in Seq(Word), Len(d) = Words,
           NEW b \in Seq(Word), NEW m \in Nat, Len(b) = m * Words
    PROVE  /\ Len(Sectors(d \o b)) = m + 1 /\ DOMAIN Sectors(d \o b) = 1 .. m + 1
           /\ Sectors(d \o b)[1] = d
           /\ \A k \in 1 .. m : Sectors(d \o b)[k + 1] = Sectors(b)[k]
<1> USE DiskAssumption
<1> DEFINE ws == d \o b
<1>1. /\ ws \in Seq(Word) /\ Len(ws) = (m + 1) * Words
      /\ \A i \in 1 .. Len(ws) : ws[i] = IF i <= Words THEN d[i] ELSE b[i - Words]
  <2>1. /\ ws \in Seq(Word) /\ Len(ws) = Len(d) + Len(b)
        /\ \A i \in 1 .. Len(d) + Len(b) : ws[i] = IF i <= Len(d) THEN d[i] ELSE b[i - Len(d)]
    BY ConcatProperties, Zenon
  <2> HIDE DEF ws
  <2>2. (m + 1) * Words = Words + m * Words
    OBVIOUS
  <2> QED BY <2>1, <2>2
<1>2. d \in SectorData
  BY LenProperties DEF SectorData
<1> HIDE DEF ws
<1>3. /\ Len(Sectors(ws)) = m + 1 /\ DOMAIN Sectors(ws) = 1 .. m + 1
      /\ \A k \in 1 .. m + 1 :
           /\ Sectors(ws)[k] \in SectorData
           /\ \A j \in 1 .. Words : Sectors(ws)[k][j] = ws[(k - 1) * Words + j]
  BY <1>1, m + 1 \in Nat, SectorsProperties
<1>4. \A k \in 1 .. m :
           /\ Sectors(b)[k] \in SectorData
           /\ \A j \in 1 .. Words : Sectors(b)[k][j] = b[(k - 1) * Words + j]
  BY SectorsProperties
<1>5. Sectors(ws)[1] = d
  <2>1. \A j \in 1 .. Words : Sectors(ws)[1][j] = ws[j]
    BY <1>3, 1 \in 1 .. m + 1
  <2>2. \A j \in 1 .. Words : j \in 1 .. Len(ws)
    BY <1>1, m * Words \in Nat
  <2>3. \A j \in 1 .. Words : Sectors(ws)[1][j] = d[j]
    BY <2>1, <2>2, <1>1
  <2>4. Sectors(ws)[1] \in SectorData
    BY <1>3, 1 \in 1 .. m + 1
  <2> QED BY <2>3, <2>4, <1>2 DEF SectorData
<1>6. ASSUME NEW k \in 1 .. m
      PROVE  Sectors(ws)[k + 1] = Sectors(b)[k]
  <2>1. ASSUME NEW j \in 1 .. Words
        PROVE  Sectors(ws)[k + 1][j] = Sectors(b)[k][j]
    <3> DEFINE a == (k - 1) * Words
    <3>1. a \in Nat /\ k * Words = a + Words /\ m * Words \in Nat
      OBVIOUS
    <3>2. a + j <= m * Words
      BY k - 1 \in Nat, k - 1 < m, WordOfSector
    <3>3. k + 1 \in 1 .. m + 1 /\ ((k + 1) - 1) * Words = a + Words
      BY <3>1
    <3>4. Sectors(ws)[k + 1][j] = ws[a + Words + j]
      BY <3>3, <1>3
    <3>5. Sectors(b)[k][j] = b[a + j]
      BY <1>4
    <3>6. ws[a + Words + j] = b[a + j]
      <4> HIDE DEF a
      <4> DEFINE i == a + Words + j
      <4>1. i \in 1 .. Len(ws) /\ ~(i <= Words) /\ i - Words = a + j
        BY <3>1, <3>2, <1>1
      <4> HIDE DEF i
      <4>2. ws[i] = b[a + j]
        BY <4>1, <1>1
      <4> QED BY <4>2 DEF i
    <3> QED BY <3>4, <3>5, <3>6
  <2>2. Sectors(ws)[k + 1] \in SectorData /\ Sectors(b)[k] \in SectorData
    BY <1>3, <1>4, k + 1 \in 1 .. m + 1
  <2> QED BY <2>1, <2>2 DEF SectorData
<1> QED BY <1>3, <1>5, <1>6 DEF ws

-----------------------------------------------------------------------------
\* What callers write consists of words.
LEMMA ContentIsData == Content \subseteq SectorData
BY DEF Content, Block, SectorData, Word

LEMMA InitInv == Init => DiskInv
<1> SUFFICES ASSUME Init PROVE DiskInv
  OBVIOUS
<1> USE DiskAssumption
<1>1. <<>> \in Seq(Word) /\ Len(<<>>) = 0
  BY EmptySeq
<1>2. Resting \in [st : {"ready", "busy", "drq", "dead"}, cmd : {"none", "read", "write"},
                   lba : Nat, left : Nat, data : Seq(Word)]
  BY <1>1 DEF Resting
<1>3. media \in [Sector -> SectorData]
  BY ContentIsData DEF Init
<1>4. TypeOK
  BY <1>1, <1>2, <1>3 DEF Init, TypeOK
<1>5. ~Active /\ DriveOK
  BY DEF Init, Active, DriveOK, Resting
<1> QED BY <1>4, <1>5 DEF Init, DiskInv, BetweenOK, RequestOK, WaitOK, DuringOK, CountOK, ReadOK, AnswerOK

\* A call begins: disk_read with an empty buffer, disk_write with its words.
LEMMA CallInv ==
    ASSUME DiskInv, NEW mode \in {"read", "write"}, NEW s \in Sector, NEW n \in 1 .. MaxCount,
           NEW words \in Seq(Word),
           IF mode = "read" THEN words = <<>> ELSE Len(words) = n * Words,
           Call(mode, s, n, words)
    PROVE  DiskInv'
<1> USE DiskAssumption DEF DiskInv, Call
<1>1. req' = [mode |-> mode, at |-> s, n |-> n] /\ s \in Nat /\ n \in Nat /\ s + n <= Size
  BY DEF Sector
<1>2. TypeOK'
  <2>1. left' \in [calls : Nat, faults : Nat]
    <3>1. left \in [calls : Nat, faults : Nat] /\ left.calls > 0
          /\ left' = [left EXCEPT !.calls = @ - 1]
      BY DEF TypeOK
    <3>2. left.calls - 1 \in Nat
      BY <3>1
    <3> QED BY <3>1, <3>2
  <2>2. req' \in [mode : {"read", "write"}, at : Nat, n : Nat]
    BY <1>1
  <2>3. pc' = "wait1" /\ buf' = words /\ failed' = FALSE /\ UNCHANGED <<count, drive, media>>
    OBVIOUS
  <2> QED BY <2>1, <2>2, <2>3 DEF TypeOK
<1>3. DriveOK' /\ BetweenOK'
  BY DEF DriveOK, BetweenOK, Active, Full
<1>4. RequestOK' /\ WaitOK'
  BY <1>1 DEF RequestOK, WaitOK
<1> QED BY <1>2, <1>3, <1>4 DEF DuringOK, CountOK, ReadOK, AnswerOK

LEMMA ReadInv ==
    ASSUME DiskInv, NEW s \in Sector, NEW n \in 1 .. MaxCount, disk_read(s, n)
    PROVE  DiskInv'
BY CallInv, EmptySeq DEF disk_read

\* The words of a write are its sectors one after the other.
WordsOf(ds, n) ==
    [k \in 1 .. n * Words |-> <<ds[(k - 1) \div Words + 1], ((k - 1) % Words) + 1>>]

LEMMA WrittenWords ==
    ASSUME NEW n \in Nat, NEW ds \in [1 .. n -> Datum]
    PROVE  /\ WordsOf(ds, n) \in Seq(Word) /\ Len(WordsOf(ds, n)) = n * Words
           /\ \A k \in 1 .. n : Sectors(WordsOf(ds, n))[k] = Block(ds[k])
<1> USE DiskAssumption
<1> DEFINE ws == WordsOf(ds, n)
<1>0. n * Words \in Nat
  OBVIOUS
<1>1. ASSUME NEW k \in 0 .. n - 1, NEW j \in 1 .. Words
      PROVE  k * Words + j \in 1 .. n * Words /\ ws[k * Words + j] = <<ds[k + 1], j>>
  <2>1. k * Words + j \in 1 .. n * Words
    <3>1. k * Words + j <= n * Words
      BY k \in Nat, k < n, WordOfSector
    <3>2. k * Words \in Nat
      OBVIOUS
    <3> QED BY <3>1, <3>2, <1>0
  <2>2. (k * Words + j - 1) \div Words = k /\ (k * Words + j - 1) % Words = j - 1
    BY k \in Nat, WordOfSector
  <2> QED BY <2>1, <2>2 DEF WordsOf
<1>2. ASSUME NEW i \in 1 .. n * Words
      PROVE  ws[i] \in Word
  <2> DEFINE q == (i - 1) \div Words  r == (i - 1) % Words
  <2>1. q \in Nat /\ r \in 0 .. Words - 1 /\ i - 1 = q * Words + r
    OBVIOUS
  <2>2. q < n
    <3>1. ASSUME n <= q PROVE FALSE
      <4>1. PICK d \in Nat : q = n + d
        <5>1. q - n \in Nat /\ q = n + (q - n)
          BY <2>1, <3>1
        <5> QED BY <5>1
      <4>2. q * Words = n * Words + d * Words /\ d * Words \in Nat
        BY <4>1
      <4> QED BY <4>2, <2>1, <1>0
    <3> QED BY <3>1, <2>1
  <2>3. ws[i] = <<ds[q + 1], r + 1>>
    BY DEF WordsOf
  <2> HIDE DEF q, r, ws
  <2> QED BY <2>1, <2>2, <2>3 DEF Word
<1>3. ws \in [1 .. n * Words -> Word]
  BY <1>2 DEF WordsOf
<1>4. ws \in Seq(Word) /\ Len(ws) = n * Words
  BY <1>0, <1>3
<1> HIDE DEF ws
<1>5. ASSUME NEW k \in 1 .. n
      PROVE  Sectors(ws)[k] = Block(ds[k])
  <2>1. /\ Sectors(ws)[k] \in SectorData
        /\ \A j \in 1 .. Words : Sectors(ws)[k][j] = ws[(k - 1) * Words + j]
    BY <1>4, SectorsProperties
  <2>2. \A j \in 1 .. Words : Sectors(ws)[k][j] = <<ds[k], j>>
    BY <2>1, <1>1, k - 1 \in 0 .. n - 1, (k - 1) + 1 = k
  <2> QED BY <2>1, <2>2 DEF Block, SectorData
<1> QED BY <1>4, <1>5 DEF ws

LEMMA WriteInv ==
    ASSUME DiskInv, NEW s \in Sector, NEW n \in 1 .. MaxCount, disk_write(s, n)
    PROVE  DiskInv'
<1>1. PICK ds \in [1 .. n -> Datum] : Call("write", s, n, WordsOf(ds, n))
  BY DEF disk_write, WordsOf
<1>2. WordsOf(ds, n) \in Seq(Word) /\ Len(WordsOf(ds, n)) = n * Words
  BY WrittenWords
<1> QED BY <1>1, <1>2, CallInv

\* A dead drive ends the call.
LEMMA GiveUpInv == DiskInv /\ GiveUp => DiskInv'
<1> SUFFICES ASSUME DiskInv, GiveUp PROVE DiskInv'
  OBVIOUS
<1> USE DiskAssumption DEF DiskInv, GiveUp
<1>1. TypeOK'
  BY DEF TypeOK
<1>2. ~Active
  BY DEF Settled, StateOk, Active, TypeOK
<1>3. ~Active' /\ DriveOK' /\ BetweenOK'
  BY <1>2 DEF DriveOK, BetweenOK, Active
<1>4. AnswerOK'
  <2> SUFFICES ASSUME req.mode = "read" PROVE \E m \in 0 .. MaxCount : Len(buf') = m * Words
    BY DEF AnswerOK
  <2>1. Len(buf') = 0 * Words
    BY DEF WaitOK
  <2> QED BY <2>1
<1> QED BY <1>1, <1>3, <1>4 DEF RequestOK, WaitOK, DuringOK, CountOK, ReadOK

\* The command names the sectors of the request.
LEMMA CommandInv == DiskInv /\ Command => DiskInv' /\ ~Active /\ drive' = Started(req.n)
                                          /\ drive'.lba = req.at /\ drive'.left = req.n
<1> SUFFICES ASSUME DiskInv, Command
             PROVE  DiskInv' /\ ~Active /\ drive' = Started(req.n)
                    /\ drive'.lba = req.at /\ drive'.left = req.n
  OBVIOUS
<1> USE DiskAssumption DEF DiskInv, Command
<1>1. ~Active
  BY DEF Settled, BetweenOK, Active
<1>2. /\ req.mode \in {"read", "write"} /\ req.at \in Nat /\ req.n \in 1 .. MaxCount
      /\ req.at + req.n <= Size /\ req.n \in Nat
  BY DEF TypeOK, RequestOK
<1>3. req.n % U8 = req.n /\ req.at % LBA = req.at
  BY <1>2
<1>4. drive' = [st |-> "busy", cmd |-> req.mode, lba |-> req.at, left |-> req.n, data |-> <<>>]
  <2>1. drive' = Started(req.n)
    BY <1>3
  <2> HIDE DEF Command, DiskInv
  <2>2. (IF req.n = 0 THEN U8 ELSE req.n) = req.n
    BY <1>2
  <2> QED BY <1>3, <2>1, <2>2, Zenon DEF Started
<1>5. TypeOK'
  <2>1. <<>> \in Seq(Word)
    BY EmptySeq
  <2>2. drive' \in [st : {"ready", "busy", "drq", "dead"}, cmd : {"none", "read", "write"},
                    lba : Nat, left : Nat, data : Seq(Word)]
    <3> HIDE DEF Command, DiskInv
    <3> QED BY <1>2, <1>4, <2>1, Z3
  <2>3. pc' = "wait2" /\ UNCHANGED <<req, buf, count, media, failed, left>>
    OBVIOUS
  <2> HIDE DEF Command
  <2> QED BY <2>2, <2>3 DEF TypeOK
<1>6. DriveOK'
  BY <1>2, <1>4 DEF DriveOK, Active
<1>7. WaitOK' /\ RequestOK' /\ DuringOK'
  BY <1>2, <1>4 DEF WaitOK, RequestOK, DuringOK, Active
<1>8. drive' = Started(req.n)
  BY <1>3
<1> QED BY <1>1, <1>4, <1>5, <1>6, <1>7, <1>8 DEF BetweenOK, CountOK, ReadOK, AnswerOK

\* The loop starts with as many words to move as the drive was told.
LEMMA EnterInv == DiskInv /\ Enter => DiskInv'
<1> SUFFICES ASSUME DiskInv, Enter PROVE DiskInv'
  OBVIOUS
<1> USE DiskAssumption DEF DiskInv, Enter
<1>1. /\ req.mode \in {"read", "write"} /\ req.at \in Nat /\ req.n \in 1 .. MaxCount
      /\ req.at + req.n <= Size /\ req.n \in Nat /\ req.n * Words \in Nat
  BY DEF TypeOK, RequestOK
<1>2. count' = req.n * Words
  BY <1>1
<1>3. TypeOK'
  BY <1>1, <1>2 DEF TypeOK
<1>4. DriveOK' /\ BetweenOK' /\ RequestOK' /\ WaitOK' /\ AnswerOK'
  BY DEF DriveOK, BetweenOK, RequestOK, WaitOK, AnswerOK, Active, Full
<1>5. DuringOK'
  BY DEF DuringOK, Active
<1>6. req.mode = "read" => Len(buf) = 0
  BY DEF WaitOK
<1>7. CountOK'
  <2>1. IF req.mode = "read" THEN Len(buf) + count' = req.n * Words ELSE Len(buf) = count'
    BY <1>1, <1>2, <1>6 DEF WaitOK
  <2>2. Active /\ req.mode = "read" =>
            drive.st = "drq" /\ drive.left = req.n /\ Len(drive.data) = Words
    BY DEF WaitOK, DuringOK, Active, Settled
  <2>3. Active /\ req.mode = "write" => drive.data = <<>> /\ drive.left = req.n
    BY DEF WaitOK, DuringOK
  <2>4. req.n * Words = (req.n - 1) * Words + Words
    BY <1>1
  <2>5. Active /\ req.mode = "read" =>
            drive.st # "busy" /\ count' = (drive.left - 1) * Words + Len(drive.data)
    BY <1>2, <2>2, <2>4
  <2>6. Active /\ req.mode = "write" => Len(drive.data) + count' = drive.left * Words
    BY <1>1, <1>2, <2>3, EmptySeq
  <2>7. UNCHANGED <<req, buf, drive>> /\ (Active' <=> Active)
    BY DEF Active
  <2> HIDE DEF Enter, DiskInv
  <2> QED BY <2>1, <2>5, <2>6, <2>7 DEF CountOK
<1>8. ReadOK'
  <2> SUFFICES ASSUME req.mode = "read", NEW k \in 0 .. req.n - 1, NEW j \in 1 .. Words
               PROVE  ~(k * Words + j <= Len(buf))
    BY DEF ReadOK
  <2>1. k * Words \in Nat
    BY <1>1
  <2> QED BY <1>6, <2>1
<1> QED BY <1>3, <1>4, <1>5, <1>7, <1>8

\* What a state of the invariant gives to every step of the drive or the loop.
LEMMA DriveFacts ==
    ASSUME DiskInv
    PROVE  /\ Words \in Nat \ {0} /\ Size \in Nat /\ MaxCount \in Nat
           /\ req.mode \in {"read", "write"} /\ req.at \in Nat /\ req.n \in Nat
           /\ buf \in Seq(Word) /\ Len(buf) \in Nat /\ count \in Nat
           /\ drive.st \in {"ready", "busy", "drq", "dead"} /\ drive.lba \in Nat
           /\ drive.left \in Nat /\ drive.data \in Seq(Word) /\ Len(drive.data) \in Nat
           /\ drive.cmd \in {"none", "read", "write"}
           /\ drive = [st |-> drive.st, cmd |-> drive.cmd, lba |-> drive.lba,
                       left |-> drive.left, data |-> drive.data]
           /\ <<>> \in Seq(Word) /\ Len(<<>>) = 0
           /\ Active => drive.lba \in Sector /\ drive.left \in Nat \ {0}
                        /\ drive.lba + drive.left <= Size /\ media[drive.lba] \in SectorData
           /\ ~Active => drive.cmd = "none" /\ drive.left = 0 /\ drive.data = <<>>
<1> USE DiskAssumption DEF DiskInv
<1>1. /\ Words \in Nat \ {0} /\ Size \in Nat /\ MaxCount \in Nat
      /\ req.mode \in {"read", "write"} /\ req.at \in Nat /\ req.n \in Nat
      /\ buf \in Seq(Word) /\ count \in Nat
      /\ drive.st \in {"ready", "busy", "drq", "dead"} /\ drive.lba \in Nat
      /\ drive.left \in Nat /\ drive.data \in Seq(Word) /\ drive.cmd \in {"none", "read", "write"}
      /\ drive = [st |-> drive.st, cmd |-> drive.cmd, lba |-> drive.lba,
                  left |-> drive.left, data |-> drive.data]
  BY DEF TypeOK
<1>2. Len(buf) \in Nat /\ Len(drive.data) \in Nat /\ <<>> \in Seq(Word) /\ Len(<<>>) = 0
  BY <1>1, EmptySeq, LenProperties
<1>3. Active => drive.left \in Nat \ {0} /\ drive.lba + drive.left <= Size
  BY DEF DriveOK
<1>4. Active => drive.lba \in Sector /\ media[drive.lba] \in SectorData
  BY <1>1, <1>3 DEF Sector, TypeOK
<1>5. ~Active => drive.cmd = "none" /\ drive.left = 0 /\ drive.data = <<>>
  BY DEF DriveOK, Resting
<1> QED BY <1>1, <1>2, <1>3, <1>4, <1>5

\* A step to the rest of the drive, whatever has been moved, keeps the drive's part.
LEMMA RestingOK ==
    ASSUME NEW st \in {"ready", "dead"}, drive' = [Resting EXCEPT !.st = st]
    PROVE  /\ ~Active' /\ DriveOK' /\ drive'.cmd = "none" /\ drive'.data = <<>>
           /\ drive' \in [st : {"ready", "busy", "drq", "dead"}, cmd : {"none", "read", "write"},
                          lba : Nat, left : Nat, data : Seq(Word)]
<1>1. drive' = [st |-> st, cmd |-> "none", lba |-> 0, left |-> 0, data |-> <<>>]
  BY DEF Resting
<1>2. <<>> \in Seq(Word)
  BY EmptySeq
<1>3. ~Active' /\ DriveOK'
  BY <1>1 DEF Active, DriveOK, Resting
<1>4. drive'.cmd = "none" /\ drive'.data = <<>>
  BY <1>1
<1>5. drive' \in [st : {"ready", "busy", "drq", "dead"}, cmd : {"none", "read", "write"},
                  lba : Nat, left : Nat, data : Seq(Word)]
  <2>1. st \in {"ready", "busy", "drq", "dead"} /\ 0 \in Nat
    OBVIOUS
  <2>2. [st |-> st, cmd |-> "none", lba |-> 0, left |-> 0, data |-> <<>>]
            \in [st : {"ready", "busy", "drq", "dead"}, cmd : {"none", "read", "write"},
                 lba : Nat, left : Nat, data : Seq(Word)]
    BY <1>2, <2>1
  <2> QED BY <1>1, <2>2
<1> QED BY <1>3, <1>4, <1>5

\* A sector arrives in the drive's buffer.
LEMMA FetchInv == DiskInv /\ Fetch => DiskInv'
<1> SUFFICES ASSUME DiskInv, Fetch PROVE DiskInv'
  OBVIOUS
<1> DEFINE block == media[drive.lba]
<1>1. /\ drive.st = "busy" /\ drive.cmd = "read" /\ Active
      /\ drive' = [drive EXCEPT !.st = "drq", !.data = block]
      /\ UNCHANGED <<pc, req, buf, count, media, failed, left>>
  BY DEF Fetch, Working, Active
<1>2. drive' = [st |-> "drq", cmd |-> "read", lba |-> drive.lba, left |-> drive.left, data |-> block]
  BY <1>1, DriveFacts
<1>3. block \in Seq(Word) /\ Len(block) = Words
  BY <1>1, DriveFacts DEF SectorData
<1> HIDE DEF block
<1>4. pc \in {"wait2", "xfer"} /\ req.mode = "read" /\ ~failed
  BY <1>1 DEF DiskInv, TypeOK, BetweenOK, DuringOK
<1>5. TypeOK'
  <2>1. drive' \in [st : {"ready", "busy", "drq", "dead"}, cmd : {"none", "read", "write"},
                    lba : Nat, left : Nat, data : Seq(Word)]
    BY <1>2, <1>3, DriveFacts
  <2> QED BY <1>1, <2>1 DEF DiskInv, TypeOK
<1>6. Active' /\ DriveOK'
  <2>1. Active'
    BY <1>2 DEF Active
  <2>2. drive'.left \in Nat \ {0} /\ drive'.lba + drive'.left <= Size
    BY <1>1, <1>2, DriveFacts
  <2>3. Len(drive'.data) \in 1 .. Words
    BY <1>2, <1>3, DriveFacts
  <2>4. \A j \in 1 .. Words : drive'.data[j - (Words - Len(drive'.data))] = media'[drive'.lba][j]
    BY <1>1, <1>2, <1>3, DriveFacts DEF block
  <2> QED BY <1>2, <2>1, <2>2, <2>3, <2>4 DEF DriveOK
<1>7. BetweenOK' /\ RequestOK' /\ AnswerOK' /\ ReadOK'
  BY <1>1, <1>4 DEF DiskInv, BetweenOK, RequestOK, AnswerOK, ReadOK
<1>8. WaitOK'
  BY <1>1, <1>2, <1>3, <1>4 DEF DiskInv, WaitOK, Active
<1>9. DuringOK'
  BY <1>1, <1>2 DEF DiskInv, DuringOK, Active
<1>10. CountOK'
  <2> SUFFICES ASSUME pc = "xfer" PROVE CountOK'
    BY <1>1 DEF CountOK
  <2>1. count = drive.left * Words
    BY <1>1, <1>4 DEF DiskInv, CountOK
  <2>2. drive.left * Words = (drive.left - 1) * Words + Words
    BY DriveFacts
  <2>3. count' = (drive'.left - 1) * Words + Len(drive'.data) /\ drive'.st = "drq"
    BY <1>1, <1>2, <1>3, <2>1, <2>2
  <2>4. Len(buf') + count' = req'.n * Words /\ req'.mode = "read"
    BY <1>1, <1>4 DEF DiskInv, CountOK
  <2> QED BY <2>3, <2>4 DEF CountOK
<1> QED BY <1>5, <1>6, <1>7, <1>8, <1>9, <1>10 DEF DiskInv

\* The drive asks for a sector.
LEMMA AcceptInv == DiskInv /\ Accept => DiskInv'
<1> SUFFICES ASSUME DiskInv, Accept PROVE DiskInv'
  OBVIOUS
<1>1. /\ drive.st = "busy" /\ drive.cmd = "write" /\ Active /\ ~Full
      /\ drive' = [drive EXCEPT !.st = "drq"]
      /\ UNCHANGED <<pc, req, buf, count, media, failed, left>>
  BY DEF Accept, Working, Active
<1>2. drive' = [st |-> "drq", cmd |-> "write", lba |-> drive.lba, left |-> drive.left, data |-> <<>>]
  BY <1>1, DriveFacts DEF DiskInv, DriveOK
<1>3. pc \in {"wait2", "xfer"} /\ req.mode = "write" /\ drive.data = <<>>
  BY <1>1 DEF DiskInv, TypeOK, BetweenOK, DuringOK, DriveOK
<1>4. TypeOK'
  <2>1. drive' \in [st : {"ready", "busy", "drq", "dead"}, cmd : {"none", "read", "write"},
                    lba : Nat, left : Nat, data : Seq(Word)]
    BY <1>2, DriveFacts
  <2> QED BY <1>1, <2>1 DEF DiskInv, TypeOK
<1>5. DriveOK'
  BY <1>1, <1>2, DriveFacts DEF DriveOK, Active
<1>6. BetweenOK' /\ RequestOK' /\ AnswerOK' /\ ReadOK'
  BY <1>1, <1>3 DEF DiskInv, BetweenOK, RequestOK, AnswerOK, ReadOK
<1>7. WaitOK' /\ DuringOK' /\ CountOK'
  BY <1>1, <1>2, <1>3 DEF DiskInv, WaitOK, DuringOK, CountOK, Active
<1> QED BY <1>4, <1>5, <1>6, <1>7 DEF DiskInv

\* A full sector goes to the medium.
LEMMA CommitInv == DiskInv /\ Commit => DiskInv'
<1> SUFFICES ASSUME DiskInv, Commit PROVE DiskInv'
  OBVIOUS
<1>1. /\ drive.st = "busy" /\ drive.cmd = "write" /\ Active /\ Full
      /\ media' = [media EXCEPT ![drive.lba] = drive.data]
      /\ drive' = IF drive.left = 1 THEN Resting
                  ELSE [drive EXCEPT !.data = <<>>, !.left = @ - 1, !.lba = @ + 1]
      /\ UNCHANGED <<pc, req, buf, count, failed, left>>
  BY DEF Commit, Working, Active
<1>2. media' \in [Sector -> SectorData]
  <2>1. drive.data \in SectorData
    BY <1>1, DriveFacts, LenProperties DEF Full, SectorData
  <2> QED BY <1>1, <2>1 DEF DiskInv, TypeOK
<1>3. Len(drive.data) = Words /\ drive.data # <<>>
  BY <1>1, DriveFacts DEF Full
<1>4. pc # "wait2" /\ (pc = "xfer" => req.mode = "write" /\ ~failed)
  BY <1>1, <1>3 DEF DiskInv, WaitOK, DuringOK
<1>5. pc \in {"idle", "wait1", "xfer"} /\ (pc # "xfer" => drive.left = 1)
  BY <1>1, <1>4 DEF DiskInv, TypeOK, BetweenOK
<1>6. RequestOK' /\ AnswerOK' /\ ReadOK' /\ WaitOK'
  BY <1>1, <1>4 DEF DiskInv, RequestOK, AnswerOK, ReadOK, WaitOK
<1>7. pc = "xfer" => count = (drive.left - 1) * Words /\ Len(buf) = count
  <2> SUFFICES ASSUME pc = "xfer" PROVE count = (drive.left - 1) * Words /\ Len(buf) = count
    OBVIOUS
  <2>1. Len(drive.data) + count = drive.left * Words /\ Len(buf) = count
    BY <1>1, <1>4 DEF DiskInv, CountOK
  <2>2. drive.left * Words = (drive.left - 1) * Words + Words
    BY DriveFacts
  <2>3. (drive.left - 1) * Words \in Int
    BY DriveFacts
  <2> QED BY <1>3, <2>1, <2>2, <2>3, DriveFacts
<1>8. CASE drive.left = 1
  <2>1. drive' = [Resting EXCEPT !.st = "ready"]
    BY <1>1, <1>8 DEF Resting
  <2>2. ~Active' /\ DriveOK'
        /\ drive' \in [st : {"ready", "busy", "drq", "dead"}, cmd : {"none", "read", "write"},
                       lba : Nat, left : Nat, data : Seq(Word)]
    BY <2>1, RestingOK
  <2>3. TypeOK'
    BY <1>1, <1>2, <2>2 DEF DiskInv, TypeOK
  <2>4. pc = "xfer" => count = 0
    BY <1>7, <1>8, DriveFacts
  <2>5. BetweenOK' /\ DuringOK' /\ CountOK'
    BY <1>1, <1>4, <1>7, <2>2, <2>4 DEF BetweenOK, DuringOK, CountOK
  <2> QED BY <1>6, <2>2, <2>3, <2>5 DEF DiskInv
<1>9. CASE drive.left # 1
  <2>1. pc = "xfer" /\ drive.left - 1 \in Nat \ {0}
    BY <1>1, <1>5, <1>9, DriveFacts
  <2>2. drive' = [st |-> "busy", cmd |-> "write", lba |-> drive.lba + 1,
                  left |-> drive.left - 1, data |-> <<>>]
    BY <1>1, <1>9, DriveFacts
  <2>3. TypeOK'
    <3>1. drive.lba + 1 \in Nat /\ drive.left - 1 \in Nat /\ <<>> \in Seq(Word)
      BY <2>1, DriveFacts
    <3>2. drive' \in [st : {"ready", "busy", "drq", "dead"}, cmd : {"none", "read", "write"},
                      lba : Nat, left : Nat, data : Seq(Word)]
      BY <2>2, <3>1
    <3> QED BY <1>1, <1>2, <3>2 DEF DiskInv, TypeOK
  <2>4. Active' /\ DriveOK'
    BY <1>1, <2>1, <2>2, DriveFacts DEF DriveOK, Active
  <2>5. BetweenOK' /\ DuringOK'
    <3>1. req.at <= drive.lba /\ drive.lba + drive.left = req.at + req.n
      BY <1>1, <2>1 DEF DiskInv, DuringOK
    <3>2. req.at <= drive.lba + 1 /\ drive.lba + 1 + (drive.left - 1) = req.at + req.n
      BY <3>1, DriveFacts
    <3> QED BY <1>1, <1>4, <2>1, <2>2, <2>4, <3>2 DEF BetweenOK, DuringOK
  <2>6. CountOK'
    <3>1. Len(drive'.data) + count' = drive'.left * Words
      BY <1>1, <1>7, <2>1, <2>2, DriveFacts
    <3> QED BY <1>1, <1>4, <1>7, <2>1, <3>1 DEF CountOK
  <2> QED BY <1>6, <2>3, <2>4, <2>5, <2>6 DEF DiskInv
<1> QED BY <1>8, <1>9

\* The drive gives up, and may have spoilt the sector it was writing.
LEMMA FailInv == DiskInv /\ Fail => DiskInv'
<1> SUFFICES ASSUME DiskInv, Fail PROVE DiskInv'
  OBVIOUS
<1>1. /\ drive.st = "busy" /\ Active /\ left.faults > 0 /\ left' = [left EXCEPT !.faults = @ - 1]
      /\ failed' = (failed \/ pc \in {"wait2", "xfer"})
      /\ UNCHANGED <<pc, req, buf, count>>
  BY DEF Fail, Active
<1>2. PICK st \in {"ready", "dead"} : drive' = [Resting EXCEPT !.st = st]
  BY DEF Fail
<1>3. ~Active' /\ DriveOK'
      /\ drive' \in [st : {"ready", "busy", "drq", "dead"}, cmd : {"none", "read", "write"},
                     lba : Nat, left : Nat, data : Seq(Word)]
  BY <1>2, RestingOK
<1>4. media' \in [Sector -> SectorData]
  <2>1. [i \in 1 .. Words |-> Noise] \in SectorData
    BY DEF SectorData, Word
  <2> QED BY <2>1 DEF Fail, DiskInv, TypeOK
<1>5. TypeOK'
  <2>1. left' \in [calls : Nat, faults : Nat]
    <3>1. left \in [calls : Nat, faults : Nat]
      BY DEF DiskInv, TypeOK
    <3>2. left.faults - 1 \in Nat
      BY <1>1, <3>1
    <3> QED BY <1>1, <3>1, <3>2
  <2>2. failed' \in BOOLEAN
    BY <1>1
  <2> QED BY <1>1, <1>3, <1>4, <2>1, <2>2 DEF DiskInv, TypeOK
<1>6. BetweenOK' /\ RequestOK' /\ WaitOK' /\ DuringOK' /\ AnswerOK'
  BY <1>1, <1>3 DEF DiskInv, TypeOK, BetweenOK, RequestOK, WaitOK, DuringOK, AnswerOK
<1>7. CountOK' /\ ReadOK'
  BY <1>1, <1>3 DEF DiskInv, CountOK, ReadOK
<1> QED BY <1>3, <1>5, <1>6, <1>7 DEF DiskInv

\* After the last word nothing of the command is left but a full sector.
LEMMA ReturnFacts ==
    ASSUME DiskInv, Return
    PROVE  /\ req.mode = "read" => ~Active /\ Len(buf) = req.n * Words
           /\ req.mode = "write" => buf = <<>>
           /\ Active => drive.st = "busy" /\ drive.cmd = "write" /\ Full /\ drive.left = 1
<1> DEFINE n == drive.left
<1>1. pc = "xfer" /\ count = 0
  BY DEF Return
<1>2. /\ req.mode = "read" => Len(buf) = req.n * Words
      /\ req.mode = "write" => Len(buf) = 0
  BY <1>1, DriveFacts DEF DiskInv, CountOK
<1>3. ASSUME Active PROVE n \in Nat \ {0} /\ n * Words \in Nat /\ n * Words = (n - 1) * Words + Words
                          /\ (n - 1) * Words \in Nat
  <2>1. n \in Nat \ {0} /\ n - 1 \in Nat
    BY <1>3, DriveFacts
  <2> HIDE DEF n
  <2> QED BY <2>1, DriveFacts
<1>4. ASSUME Active, req.mode = "read" PROVE FALSE
  <2>1. drive.cmd = "read" /\ (drive.st = "busy" \/ (drive.st = "drq" /\ Len(drive.data) \in 1 .. Words))
    BY <1>1, <1>4 DEF DiskInv, DuringOK, DriveOK
  <2>2. IF drive.st = "busy" THEN 0 = n * Words ELSE 0 = (n - 1) * Words + Len(drive.data)
    BY <1>1, <1>4 DEF DiskInv, CountOK
  <2> QED BY <1>3, <1>4, <2>1, <2>2, DriveFacts
<1>5. ASSUME Active, req.mode = "write"
      PROVE  drive.st = "busy" /\ drive.cmd = "write" /\ Full /\ n = 1
  <2>1. drive.cmd = "write" /\ Len(drive.data) = n * Words
    BY <1>1, <1>5, DriveFacts DEF DiskInv, CountOK, DuringOK
  <2>2. Len(drive.data) <= Words /\ (drive.st = "drq" => Len(drive.data) < Words)
    BY <1>5, <2>1, DriveFacts DEF DiskInv, DriveOK, Full
  <2>3. (n - 1) * Words = 0 /\ Len(drive.data) = Words
    BY <1>3, <1>5, <2>1, <2>2, DriveFacts
  <2>4. n = 1
    <3>1. n \in Nat /\ n - 1 \in Nat /\ Words \in Nat \ {0}
      BY <1>3, <1>5, DriveFacts
    <3> HIDE DEF n
    <3>2. 0 < n - 1 => 0 * Words + 1 <= (n - 1) * Words
      BY <3>1, 0 \in Nat, 1 \in 1 .. Words, WordOfSector, Z3
    <3>3. n - 1 = 0
      <4>1. 0 * Words = 0 /\ (n - 1) * Words = 0
        BY <2>3, <3>1
      <4>2. ~(0 < n - 1)
        BY <3>2, <4>1
      <4> QED BY <3>1, <4>2
    <3> QED BY <3>3, <1>3, <1>5
  <2> QED BY <1>5, <2>1, <2>2, <2>3, <2>4, DriveFacts DEF Full, Active
<1>6. req.mode = "write" => buf = <<>>
  BY <1>2, DriveFacts, EmptySeq
<1> QED BY <1>2, <1>4, <1>5, <1>6, DriveFacts

LEMMA ReturnInv == DiskInv /\ Return => DiskInv'
<1> SUFFICES ASSUME DiskInv, Return PROVE DiskInv'
  OBVIOUS
<1>1. pc = "xfer" /\ pc' = "idle" /\ UNCHANGED <<req, buf, count, drive, media, failed, left>>
  BY DEF Return
<1>2. TypeOK' /\ DriveOK' /\ RequestOK' /\ WaitOK' /\ DuringOK' /\ CountOK' /\ ReadOK'
  BY <1>1 DEF DiskInv, TypeOK, DriveOK, RequestOK, WaitOK, DuringOK, CountOK, ReadOK, Active, Full
<1>3. BetweenOK'
  BY <1>1, ReturnFacts, DriveFacts DEF BetweenOK, Active, Full
<1>4. AnswerOK'
  <2>1. req.n \in 0 .. MaxCount
    BY <1>1, DriveFacts DEF DiskInv, RequestOK
  <2> QED BY <1>1, <2>1, ReturnFacts DEF AnswerOK
<1> QED BY <1>2, <1>3, <1>4 DEF DiskInv

\* A word that goes from the head of one sequence to the end of another.
LEMMA MoveWord ==
    ASSUME NEW S, NEW a \in Seq(S), NEW b \in Seq(S), b # <<>>
    PROVE  Append(a, Head(b)) \o Tail(b) = a \o b
<1> DEFINE u == Append(a, Head(b))  t == Tail(b)
<1>1. /\ u \in Seq(S) /\ Len(u) = Len(a) + 1
      /\ \A i \in 1 .. Len(a) : u[i] = a[i]
      /\ u[Len(a) + 1] = b[1]
  BY AppendProperties, HeadTailProperties
<1>2. /\ t \in Seq(S) /\ Len(t) = Len(b) - 1 /\ Len(b) \in Nat \ {0} /\ Len(a) \in Nat
      /\ \A i \in 1 .. Len(t) : t[i] = b[i + 1]
  BY HeadTailProperties, LenProperties, EmptySeq
<1> HIDE DEF u, t
<1>3. /\ u \o t \in Seq(S) /\ Len(u \o t) = Len(u) + Len(t)
      /\ \A i \in 1 .. Len(u) + Len(t) : (u \o t)[i] = IF i <= Len(u) THEN u[i] ELSE t[i - Len(u)]
  BY <1>1, <1>2, ConcatProperties
<1>4. /\ a \o b \in Seq(S) /\ Len(a \o b) = Len(a) + Len(b)
      /\ \A i \in 1 .. Len(a) + Len(b) : (a \o b)[i] = IF i <= Len(a) THEN a[i] ELSE b[i - Len(a)]
  BY ConcatProperties
<1>5. Len(u \o t) = Len(a \o b) /\ Len(u \o t) \in Nat /\ Len(a) \in Nat
  BY <1>1, <1>2, <1>3, <1>4
<1>6. ASSUME NEW i \in 1 .. Len(u \o t) PROVE (u \o t)[i] = (a \o b)[i]
  <2>1. CASE i <= Len(a)
    BY <1>1, <1>2, <1>3, <1>4, <2>1
  <2>2. CASE i = Len(a) + 1
    BY <1>1, <1>2, <1>3, <1>4, <2>2
  <2>3. CASE i > Len(a) + 1
    <3>1. i - Len(u) \in 1 .. Len(t) /\ (i - Len(u)) + 1 = i - Len(a)
      BY <1>1, <1>2, <1>3, <2>3
    <3> QED BY <1>1, <1>2, <1>3, <1>4, <2>3, <3>1
  <2>4. i <= Len(a) \/ i = Len(a) + 1 \/ i > Len(a) + 1
    BY <1>5
  <2> QED BY <2>1, <2>2, <2>3, <2>4, Zenon
<1>7. u \o t = a \o b
  BY <1>3, <1>4, <1>5, <1>6, SeqEqual
<1> QED BY <1>7 DEF u, t

\* One word of a write: into the drive, or nowhere when it has failed.
LEMMA WriteTurn ==
    ASSUME DiskInv, Transfer, req.mode = "write"
    PROVE  /\ DiskInv' /\ drive'.cmd = drive.cmd
           /\ Active => drive'.data \o buf' = drive.data \o buf /\ drive'.lba = drive.lba
<1>1. /\ pc = "xfer" /\ count > 0 /\ Settled /\ count' = count - 1 /\ buf' = Tail(buf)
      /\ IF drive.st = "drq" /\ drive.cmd = "write"
         THEN drive' = Filled(Head(buf)) ELSE UNCHANGED drive
      /\ UNCHANGED <<pc, req, media, failed, left>>
  BY DEF Transfer
<1>2. Len(buf) = count /\ buf # <<>> /\ count - 1 \in Nat
  BY <1>1, DriveFacts DEF DiskInv, CountOK
<1>3. /\ Head(buf) \in Word /\ buf' \in Seq(Word) /\ Len(buf') = count - 1
      /\ buf = <<Head(buf)>> \o Tail(buf)
  <2>1. /\ Head(buf) \in Word /\ buf' \in Seq(Word) /\ Len(buf') = count - 1
    BY <1>1, <1>2, DriveFacts, HeadTailProperties
  <2>2. buf = <<Head(buf)>> \o Tail(buf)
    BY <1>2, DriveFacts
  <2> QED BY <2>1, <2>2
<1>4. RequestOK' /\ WaitOK' /\ ReadOK' /\ AnswerOK'
  BY <1>1 DEF DiskInv, RequestOK, WaitOK, ReadOK, AnswerOK
<1>5. CASE Active
  <2>1. drive.st = "drq" /\ drive.cmd = "write" /\ Len(drive.data) < Words /\ ~failed
    BY <1>1, <1>5 DEF DiskInv, DuringOK, DriveOK, Settled, Active
  <2> DEFINE data == Append(drive.data, Head(buf))
  <2>2. /\ data \in Seq(Word) /\ Len(data) = Len(drive.data) + 1 /\ data # <<>>
        /\ data = drive.data \o <<Head(buf)>>
    BY <1>3, DriveFacts, AppendProperties, AppendIsConcat
  <2>3. drive' = [st |-> IF Len(data) = Words THEN "busy" ELSE "drq", cmd |-> "write",
                  lba |-> drive.lba, left |-> drive.left, data |-> data]
    <3>1. drive' = Filled(Head(buf))
      BY <1>1, <2>1
    <3>2. drive' = [drive EXCEPT !.data = data, !.st = IF Len(data) = Words THEN "busy" ELSE "drq"]
      BY <2>2, <3>1, Zenon DEF Filled
    <3> HIDE DEF data
    <3> QED BY <2>1, <3>2, DriveFacts
  <2>4. data \o Tail(buf) = drive.data \o buf
    <3>1. drive.data \in Seq(Word)
      BY DriveFacts
    <3> QED BY <1>2, <3>1, DriveFacts, MoveWord
  <2> HIDE DEF data
  <2>5. TypeOK'
    <3>1. drive' \in [st : {"ready", "busy", "drq", "dead"}, cmd : {"none", "read", "write"},
                      lba : Nat, left : Nat, data : Seq(Word)]
      BY <2>2, <2>3, DriveFacts
    <3> QED BY <1>1, <1>2, <1>3, <3>1 DEF DiskInv, TypeOK
  <2>6. Active' /\ DriveOK'
    BY <1>5, <2>1, <2>2, <2>3, DriveFacts DEF DriveOK, Active, Full
  <2>7. BetweenOK' /\ DuringOK'
    BY <1>1, <1>5, <2>3, <2>6 DEF DiskInv, BetweenOK, DuringOK
  <2>8. CountOK'
    <3>1. Len(drive.data) + count = drive.left * Words
      BY <1>1, <1>5 DEF DiskInv, CountOK
    <3>2. Len(drive'.data) + count' = drive'.left * Words
      BY <1>1, <1>2, <2>2, <2>3, <3>1, DriveFacts
    <3> QED BY <1>1, <1>3, <3>2 DEF CountOK
  <2> QED BY <1>1, <1>4, <2>1, <2>3, <2>4, <2>5, <2>6, <2>7, <2>8 DEF DiskInv
<1>6. CASE ~Active
  <2>1. drive.cmd = "none" /\ drive' = drive /\ drive.data = <<>>
    BY <1>1, <1>6, DriveFacts
  <2>2. failed
    BY <1>1, <1>6, DriveFacts DEF DiskInv, DuringOK
  <2>3. TypeOK'
    BY <1>1, <1>2, <1>3, <2>1 DEF DiskInv, TypeOK
  <2>4. ~Active' /\ DriveOK' /\ BetweenOK'
    BY <1>6, <2>1 DEF DiskInv, DriveOK, BetweenOK, Active
  <2>5. DuringOK' /\ CountOK'
    BY <1>1, <1>3, <2>2, <2>4 DEF DuringOK, CountOK
  <2> QED BY <1>4, <1>6, <2>1, <2>3, <2>4, <2>5 DEF DiskInv
<1> QED BY <1>5, <1>6

\* One word of a read: the next one of the sector, or noise when the drive has failed.
LEMMA ReadTurn == DiskInv /\ Transfer /\ req.mode = "read" => DiskInv'
<1> SUFFICES ASSUME DiskInv, Transfer, req.mode = "read" PROVE DiskInv'
  OBVIOUS
<1>1. /\ pc = "xfer" /\ count > 0 /\ Settled /\ count' = count - 1
      /\ IF drive.st = "drq" /\ drive.cmd = "read"
         THEN buf' = Append(buf, Head(drive.data)) /\ drive' = Drained
         ELSE buf' = Append(buf, Noise) /\ UNCHANGED drive
      /\ UNCHANGED <<pc, req, media, failed, left>>
  BY DEF Transfer
<1>0. /\ Words \in Nat \ {0} /\ req.at \in Nat /\ req.n \in Nat /\ Len(buf) \in Nat /\ count \in Nat
      /\ buf \in Seq(Word) /\ drive.lba \in Nat /\ Len(drive.data) \in Nat
  BY DriveFacts
<1>2. count - 1 \in Nat /\ Len(buf) + count = req.n * Words
  <2>1. Len(buf) + count = req.n * Words
    BY <1>1 DEF DiskInv, CountOK
  <2> QED BY <1>0, <1>1, <2>1
<1>3. RequestOK' /\ WaitOK' /\ AnswerOK' /\ BetweenOK'
  BY <1>1 DEF DiskInv, RequestOK, WaitOK, AnswerOK, BetweenOK
<1>4. CASE Active
  <2> DEFINE size == Len(drive.data)  w == Head(drive.data)  n == drive.left  q == drive.lba - req.at
  <2>0. /\ drive.st = "drq" /\ drive.cmd = "read"
        /\ \A j \in 1 .. Words :
               j > Words - size => drive.data[j - (Words - size)] = media[drive.lba][j]
    <3>1. drive.st = "drq" /\ drive.cmd = "read"
      BY <1>1, <1>4 DEF DiskInv, DuringOK, Settled, Active
    <3> QED BY <1>4, <3>1 DEF DiskInv, DriveOK
  <2>1. /\ drive.st = "drq" /\ drive.cmd = "read" /\ ~failed /\ size \in 1 .. Words
        /\ req.at <= drive.lba /\ drive.lba + n = req.at + req.n
        /\ n \in Nat \ {0} /\ n - 1 \in Nat /\ drive.lba + n <= Size
    <3>1. drive.st = "drq" /\ drive.cmd = "read" /\ ~failed
          /\ req.at <= drive.lba /\ drive.lba + n = req.at + req.n
      BY <1>1, <1>4 DEF DiskInv, DuringOK, Settled, Active
    <3>2. n \in Nat \ {0} /\ n - 1 \in Nat /\ drive.lba + n <= Size
      BY <1>4, DriveFacts
    <3>3. size \in 1 .. Words
      BY <1>4, <3>1 DEF DiskInv, DriveOK
    <3> QED BY <3>1, <3>2, <3>3
  <2>2. count = (n - 1) * Words + size
    BY <1>1, <1>4, <2>1 DEF DiskInv, CountOK
  <2>3. /\ w = drive.data[1] /\ w \in Word /\ Tail(drive.data) \in Seq(Word)
        /\ Len(Tail(drive.data)) = size - 1
        /\ \A i \in 1 .. size - 1 : Tail(drive.data)[i] = drive.data[i + 1]
    <3>1. drive.data # <<>>
      BY <2>1, DriveFacts
    <3> QED BY <3>1, DriveFacts, HeadTailProperties
  <2>4. /\ buf' \in Seq(Word) /\ Len(buf') = Len(buf) + 1
        /\ \A i \in 1 .. Len(buf) : buf'[i] = buf[i]
        /\ buf'[Len(buf) + 1] = w
    <3>1. buf' = Append(buf, w)
      BY <1>1, <2>1
    <3> HIDE DEF w
    <3> QED BY <1>0, <2>3, <3>1, AppendProperties
  <2>5. drive' = Drained
    BY <1>1, <2>1
  <2>6. ReadOK'
    <3> DEFINE j0 == Words - size + 1
    <3>1. q \in Nat /\ q \in 0 .. req.n - 1 /\ Len(buf) + 1 = q * Words + j0
      <4>1. q \in Nat /\ q \in 0 .. req.n - 1 /\ req.n = q + n
        <5> HIDE DEF n
        <5> QED BY <1>0, <2>1
      <4> HIDE DEF q, n, size
      <4>2. req.n * Words = q * Words + (n - 1) * Words + Words
        BY <1>0, <2>1, <4>1
      <4>3. q * Words \in Nat /\ (n - 1) * Words \in Nat
        BY <1>0, <2>1, <4>1
      <4>4. Len(buf) + 1 = q * Words + j0
        BY <1>0, <1>2, <2>1, <2>2, <4>2, <4>3
      <4> QED BY <4>1, <4>4
    <3>2. j0 \in 1 .. Words /\ w = media[drive.lba][j0] /\ drive.lba = req.at + q
      <4>1. j0 \in 1 .. Words /\ j0 > Words - size /\ j0 - (Words - size) = 1
            /\ drive.lba = req.at + q
        <5> HIDE DEF size
        <5> QED BY <1>0, <2>1
      <4> QED BY <2>0, <2>3, <4>1
    <3> HIDE DEF j0, q, n, w, size
    <3> SUFFICES ASSUME NEW k \in 0 .. req.n - 1, NEW j \in 1 .. Words,
                        k * Words + j <= Len(buf')
                 PROVE  buf'[k * Words + j] = media[req.at + k][j]
      BY <1>1 DEF ReadOK
    <3>3. k \in Nat /\ q \in Nat /\ k * Words \in Nat /\ k * Words + j \in 1 .. Len(buf) + 1
      <4>1. k \in Nat /\ j \in Nat /\ k * Words \in Nat
        BY <1>0
      <4>2. k * Words + j <= Len(buf) + 1
        BY <2>4
      <4> HIDE DEF DiskInv
      <4> QED BY <1>0, <3>1, <4>1, <4>2
    <3>4. CASE k * Words + j = Len(buf) + 1
      <4>1. k * Words + j = q * Words + j0
        BY <3>1, <3>4
      <4>2. k = q /\ j = j0
        <5>1. Words \in Nat \ {0} /\ k \in Nat /\ q \in Nat /\ j \in 1 .. Words /\ j0 \in 1 .. Words
          BY <1>0, <3>1, <3>2
        <5> QED BY <4>1, <5>1, SameWord
      <4> QED BY <2>4, <3>1, <3>2, <3>4, <4>2
    <3>5. CASE k * Words + j # Len(buf) + 1
      <4>1. k * Words + j \in 1 .. Len(buf)
        BY <1>0, <3>3, <3>5
      <4>2. buf[k * Words + j] = media[req.at + k][j]
        BY <1>1, <2>1, <4>1 DEF DiskInv, ReadOK
      <4> QED BY <2>4, <4>1, <4>2
    <3> QED BY <3>4, <3>5
  <2>7. Len(buf') + count' = req'.n * Words /\ req'.mode = "read"
    BY <1>1, <1>2, <2>4, DriveFacts
  <2>8. CASE size > 1
    <3>1. drive' = [st |-> "drq", cmd |-> "read", lba |-> drive.lba, left |-> n,
                    data |-> Tail(drive.data)]
      BY <2>1, <2>5, <2>8, DriveFacts DEF Drained
    <3>2. TypeOK'
      <4>1. drive' \in [st : {"ready", "busy", "drq", "dead"}, cmd : {"none", "read", "write"},
                        lba : Nat, left : Nat, data : Seq(Word)]
        BY <2>1, <2>3, <3>1, DriveFacts
      <4> QED BY <1>1, <1>2, <2>4, <4>1 DEF DiskInv, TypeOK
    <3>3. Active' /\ DriveOK'
      <4>1. Active'
        BY <3>1 DEF Active
      <4>2. Len(drive'.data) = size - 1 /\ size - 1 \in 1 .. Words
        BY <2>1, <2>3, <2>8, <3>1, DriveFacts
      <4>3. \A j \in 1 .. Words :
                j > Words - (size - 1) =>
                Tail(drive.data)[j - (Words - (size - 1))] = media[drive.lba][j]
        <5> SUFFICES ASSUME NEW j \in 1 .. Words, j > Words - (size - 1)
                     PROVE Tail(drive.data)[j - (Words - (size - 1))] = media[drive.lba][j]
          OBVIOUS
        <5> DEFINE i == j - (Words - (size - 1))
        <5>1. i \in 1 .. size - 1 /\ i + 1 = j - (Words - size) /\ j > Words - size
          <6> HIDE DEF size
          <6> QED BY <1>0, <2>1
        <5>2. Tail(drive.data)[i] = drive.data[i + 1]
          BY <2>3, <5>1
        <5> QED BY <2>0, <5>1, <5>2
      <4>4. drive'.left \in Nat \ {0} /\ drive'.lba + drive'.left <= Size
        BY <2>1, <3>1
      <4> HIDE DEF size
      <4>5. \A j \in 1 .. Words :
                j > Words - Len(drive'.data) =>
                drive'.data[j - (Words - Len(drive'.data))] = media'[drive'.lba][j]
        BY <1>1, <3>1, <4>2, <4>3
      <4> QED BY <3>1, <4>1, <4>2, <4>4, <4>5 DEF DriveOK
    <3>4. DuringOK'
      BY <1>1, <2>1, <3>1, <3>3 DEF DuringOK
    <3>5. CountOK'
      <4>1. count' = (drive'.left - 1) * Words + Len(drive'.data) /\ drive'.st = "drq"
        <5>1. (n - 1) * Words \in Nat
          BY <2>1, DriveFacts
        <5> HIDE DEF n
        <5> QED BY <1>1, <1>2, <2>1, <2>2, <2>3, <3>1, <5>1, DriveFacts
      <4> QED BY <2>7, <4>1 DEF CountOK
    <3> QED BY <1>3, <2>6, <3>2, <3>3, <3>4, <3>5 DEF DiskInv
  <2>9. CASE size = 1 /\ n = 1
    <3>1. drive' = [Resting EXCEPT !.st = "ready"] /\ count' = 0
      <4>1. drive' = Resting
        BY <2>5, <2>9 DEF Drained
      <4>2. count = 1
        BY <2>2, <2>9, DriveFacts
      <4> QED BY <1>1, <4>1, <4>2 DEF Resting
    <3>2. ~Active' /\ DriveOK'
          /\ drive' \in [st : {"ready", "busy", "drq", "dead"}, cmd : {"none", "read", "write"},
                         lba : Nat, left : Nat, data : Seq(Word)]
      BY <3>1, RestingOK
    <3>3. TypeOK'
      BY <1>1, <1>2, <2>4, <3>2 DEF DiskInv, TypeOK
    <3>4. DuringOK' /\ CountOK'
      BY <1>1, <2>7, <3>1, <3>2 DEF DuringOK, CountOK
    <3> QED BY <1>3, <2>6, <3>2, <3>3, <3>4 DEF DiskInv
  <2>10. CASE size = 1 /\ n # 1
    <3>1. drive' = [st |-> "busy", cmd |-> "read", lba |-> drive.lba + 1, left |-> n - 1,
                    data |-> <<>>]
      <4>1. drive' = [drive EXCEPT !.st = "busy", !.data = <<>>, !.left = @ - 1, !.lba = @ + 1]
        BY <2>5, <2>10 DEF Drained
      <4> QED BY <2>1, <4>1, DriveFacts
    <3>2. n - 1 \in Nat \ {0} /\ drive.lba + 1 \in Nat
      BY <2>1, <2>10, DriveFacts
    <3>3. TypeOK'
      <4>1. drive' \in [st : {"ready", "busy", "drq", "dead"}, cmd : {"none", "read", "write"},
                        lba : Nat, left : Nat, data : Seq(Word)]
        BY <3>1, <3>2, DriveFacts
      <4> QED BY <1>1, <1>2, <2>4, <4>1 DEF DiskInv, TypeOK
    <3>4. Active' /\ DriveOK'
      BY <2>1, <3>1, <3>2, DriveFacts DEF DriveOK, Active
    <3>5. DuringOK'
      <4>1. req.at <= drive.lba + 1 /\ drive.lba + 1 + (n - 1) = req.at + req.n
        BY <2>1, DriveFacts
      <4> QED BY <1>1, <2>1, <3>1, <3>4, <4>1 DEF DuringOK
    <3>6. CountOK'
      <4>1. count' = drive'.left * Words /\ drive'.st = "busy"
        <5>1. (n - 1) * Words \in Nat
          BY <2>1, DriveFacts
        <5> HIDE DEF n
        <5> QED BY <1>1, <2>2, <2>10, <3>1, <5>1, DriveFacts
      <4> QED BY <2>7, <4>1 DEF CountOK
    <3> QED BY <1>3, <2>6, <3>3, <3>4, <3>5, <3>6 DEF DiskInv
  <2>11. size \in Nat /\ size >= 1
    BY <1>0, <2>1
  <2> HIDE DEF size
  <2> QED BY <2>8, <2>9, <2>10, <2>11
<1>5. CASE ~Active
  <2>1. drive.cmd = "none" /\ buf' = Append(buf, Noise) /\ drive' = drive
    BY <1>1, <1>5, DriveFacts
  <2>2. failed
    BY <1>1, <1>5, DriveFacts DEF DiskInv, DuringOK
  <2>3. buf' \in Seq(Word) /\ Len(buf') = Len(buf) + 1
    BY <2>1, DriveFacts, AppendProperties DEF Word
  <2>4. TypeOK'
    BY <1>1, <1>2, <2>1, <2>3 DEF DiskInv, TypeOK
  <2>5. ~Active' /\ DriveOK'
    BY <1>5, <2>1 DEF DiskInv, DriveOK, Active
  <2>6. Len(buf') + count' = req.n * Words
    BY <1>1, <1>2, <2>3, DriveFacts
  <2>7. DuringOK' /\ CountOK' /\ ReadOK'
    BY <1>1, <2>2, <2>5, <2>6 DEF DuringOK, CountOK, ReadOK
  <2> QED BY <1>3, <2>4, <2>5, <2>7 DEF DiskInv
<1> QED BY <1>4, <1>5

\* Every step keeps the invariant.
LEMMA NextInv == DiskInv /\ [Next]_vars => DiskInv'
<1> SUFFICES ASSUME DiskInv, [Next]_vars PROVE DiskInv'
  OBVIOUS
<1>1. ASSUME NEW r \in Requests, disk_read(r[1], r[2]) \/ disk_write(r[1], r[2]) PROVE DiskInv'
  BY <1>1, ReadInv, WriteInv DEF Requests
<1>2. ASSUME Driver PROVE DiskInv'
  <2>1. req.mode = "read" \/ req.mode = "write"
    BY DriveFacts
  <2> QED BY <1>2, <2>1, GiveUpInv, CommandInv, EnterInv, ReadTurn, WriteTurn, ReturnInv DEF Driver
<1>3. ASSUME Drive PROVE DiskInv'
  BY <1>3, FetchInv, AcceptInv, CommitInv DEF Drive
<1>4. ASSUME Fail PROVE DiskInv'
  BY <1>4, FailInv
<1>5. ASSUME UNCHANGED vars PROVE DiskInv'
  BY <1>5 DEF vars, DiskInv, TypeOK, DriveOK, BetweenOK, RequestOK, WaitOK, DuringOK, CountOK,
              ReadOK, AnswerOK, Active, Full
<1> QED BY <1>1, <1>2, <1>3, <1>4, <1>5 DEF Next

\* At every moment each word of a request is in the driver's buffer, in the
\* drive's or on the medium, and the two count down together (ata_rw).
THEOREM WordsAccounted == Spec => []DiskInv
<1>1. Init => DiskInv
  BY InitInv
<1>2. DiskInv /\ [Next]_vars => DiskInv'
  BY NextInv
<1> QED BY <1>1, <1>2, PTL DEF Spec

-----------------------------------------------------------------------------
(* The abstract state under the mapping of Disk. *)
Late == IF pc \in {"idle", "wait1"} THEN Pending ELSE <<>>
Calling == IF pc = "idle" THEN [mode |-> "idle"] ELSE req
Answer == IF pc = "idle" /\ req.mode = "read" THEN Sectors(buf) ELSE <<>>

\* Between calls nothing is owed, nor during a read, nor after an error.
LEMMA NothingOwed ==
    ASSUME DiskInv, req.mode = "read" \/ pc = "idle" \/ (pc \in {"wait2", "xfer"} /\ ~Active)
    PROVE  Owed = <<>>
BY DriveFacts DEF Owed

\* During a write that goes well, the sectors owed are those the drive still expects.
LEMMA OwedSectors ==
    ASSUME DiskInv, pc \in {"wait2", "xfer"}, Active, req.mode = "write"
    PROVE  /\ drive.data \o buf \in Seq(Word) /\ Len(drive.data \o buf) = drive.left * Words
           /\ DOMAIN Sectors(drive.data \o buf) = 1 .. drive.left
           /\ Owed = [k \in 1 .. drive.left |->
                         <<drive.lba + k - 1, Sectors(drive.data \o buf)[k]>>]
<1>1. drive.data \o buf \in Seq(Word) /\ Len(drive.data \o buf) = Len(drive.data) + Len(buf)
  BY DriveFacts, ConcatProperties
<1>2. drive.cmd = "write"
  BY DEF DiskInv, DuringOK
<1>3. Len(drive.data) + Len(buf) = drive.left * Words
  <2>1. CASE pc = "wait2"
    BY <1>2, <2>1, DriveFacts DEF DiskInv, WaitOK
  <2>2. CASE pc = "xfer"
    BY <2>2 DEF DiskInv, CountOK
  <2> QED BY <2>1, <2>2
<1>4. DOMAIN Sectors(drive.data \o buf) = 1 .. drive.left
  BY <1>1, <1>3, DriveFacts, SectorsProperties
<1> QED BY <1>1, <1>2, <1>3, <1>4 DEF Owed

\* What is owed when the command has not been given yet.
LEMMA OwedBefore ==
    ASSUME DiskInv, pc = "wait1", req.mode = "write"
    PROVE  Owed = [k \in 1 .. req.n |-> <<req.at + k - 1, Sectors(buf)[k]>>]
BY DEF Owed

LEMMA MapInit == Init => M!Init
<1> SUFFICES ASSUME Init PROVE M!Init
  OBVIOUS
<1>1. Late = <<>>
  BY DEF Init, Late, Pending, Working, Resting
<1>2. Owed = <<>> /\ Calling = [mode |-> "idle"] /\ Answer = <<>>
  BY DEF Init, Owed, Calling, Answer
<1> QED BY <1>1, <1>2 DEF Init, M!Init, M!Idle, Late, Calling, Answer

\* disk_read is a Read of the medium.
LEMMA MapRead ==
    ASSUME DiskInv, NEW s \in Sector, NEW n \in 1 .. MaxCount, disk_read(s, n)
    PROVE  M!Read(s, n)
<1>1. /\ pc = "idle" /\ pc' = "wait1" /\ req' = [mode |-> "read", at |-> s, n |-> n]
      /\ failed' = FALSE /\ UNCHANGED <<drive, media>>
  BY DEF disk_read, Call
<1>2. Calling = [mode |-> "idle"] /\ Calling' = [mode |-> "read", at |-> s, n |-> n]
  BY <1>1 DEF Calling
<1>3. Late' = Late
  BY <1>1 DEF Late, Pending, Working, Full
<1>4. Owed = <<>> /\ Owed' = <<>>
  BY <1>1 DEF Owed
<1>5. Answer' = <<>>
  BY <1>1 DEF Answer
<1> QED BY <1>1, <1>2, <1>3, <1>4, <1>5 DEF M!Read, M!Idle, Late, Calling, Answer

\* disk_write is a Write of the sectors its words make up.
LEMMA MapWrite ==
    ASSUME DiskInv, NEW s \in Sector, NEW n \in 1 .. MaxCount, disk_write(s, n)
    PROVE  M!Write(s, n)
<1>0. PICK ds \in [1 .. n -> Datum] : Call("write", s, n, WordsOf(ds, n))
  BY DEF disk_write, WordsOf
<1>1. /\ pc = "idle" /\ pc' = "wait1" /\ req' = [mode |-> "write", at |-> s, n |-> n]
      /\ failed' = FALSE /\ UNCHANGED <<drive, media>> /\ buf' = WordsOf(ds, n)
  BY <1>0 DEF Call
<1>2. Calling = [mode |-> "idle"] /\ Calling' = [mode |-> "write", at |-> s, n |-> n]
  BY <1>1 DEF Calling
<1>3. Late' = Late
  BY <1>1 DEF Late, Pending, Working, Full
<1> DEFINE cs == [k \in 1 .. n |-> Block(ds[k])]
<1>4. cs \in [1 .. n -> Content]
  BY DEF Content
<1>5. Owed' = [k \in 1 .. n |-> <<s + k - 1, cs[k]>>]
  <2>1. Owed' = [k \in 1 .. n |-> <<s + k - 1, Sectors(WordsOf(ds, n))[k]>>]
    BY <1>1 DEF Owed
  <2>2. \A k \in 1 .. n : Sectors(WordsOf(ds, n))[k] = cs[k]
    BY WrittenWords
  <2> HIDE DEF cs
  <2> QED BY <2>1, <2>2
<1>6. Answer' = <<>>
  BY <1>1 DEF Answer
<1> HIDE DEF cs
<1> QED BY <1>1, <1>2, <1>3, <1>4, <1>5, <1>6 DEF M!Write, M!Idle, Late, Calling, Answer

\* A dead drive: the medium refuses the call.
LEMMA MapGiveUp == DiskInv /\ GiveUp => M!Refuse
<1> SUFFICES ASSUME DiskInv, GiveUp PROVE M!Refuse
  OBVIOUS
<1>1. /\ pc \in {"wait1", "wait2"} /\ pc' = "idle" /\ failed' = TRUE
      /\ drive.st = "dead" /\ UNCHANGED <<req, buf, count, drive, media, left>>
  BY DEF GiveUp, Settled, StateOk
<1>2. Late = <<>> /\ Late' = <<>>
  BY <1>1 DEF Late, Pending, Working
<1>3. Owed' = <<>>
  BY <1>1 DEF Owed
<1>4. Calling # [mode |-> "idle"] /\ Calling' = [mode |-> "idle"]
  <2>1. Calling.mode # "idle" /\ Calling' = [mode |-> "idle"]
    BY <1>1, DriveFacts DEF Calling
  <2> QED BY <2>1
<1>5. Answer = <<>> /\ Answer' = <<>>
  <2>1. Answer = <<>>
    BY <1>1 DEF Answer
  <2>2. req.mode = "read" => Sectors(buf) = <<>>
    <3> SUFFICES ASSUME req.mode = "read" PROVE Sectors(buf) = <<>>
      OBVIOUS
    <3>1. Len(buf) = 0 * Words /\ 0 \in Nat
      BY <1>1, DriveFacts DEF DiskInv, WaitOK
    <3>2. Sectors(buf) \in Seq(SectorData) /\ Len(Sectors(buf)) = 0
      BY <3>1, DriveFacts, SectorsProperties
    <3> QED BY <3>2, EmptySeq
  <2> QED BY <1>1, <2>1, <2>2 DEF Answer
<1> QED BY <1>1, <1>2, <1>3, <1>4, <1>5 DEF M!Refuse, M!Idle, Late, Calling, Answer

\* The medium does not change while the driver talks to the drive.
Unseen == UNCHANGED <<media, Late, Owed, Calling, Answer, failed>>

LEMMA MapUnseen == Unseen => UNCHANGED M!vars
BY DEF Unseen, M!vars, Late, Calling, Answer

\* The sectors owed are those of the command.
LEMMA MapCommand == DiskInv /\ Command => Unseen
<1> SUFFICES ASSUME DiskInv, Command PROVE Unseen
  OBVIOUS
<1>1. /\ pc = "wait1" /\ pc' = "wait2" /\ UNCHANGED <<req, buf, count, media, failed, left>>
  BY DEF Command
<1>2. DiskInv' /\ ~Active /\ drive' = Started(req.n) /\ drive'.lba = req.at /\ drive'.left = req.n
  BY CommandInv
<1>3. drive'.st = "busy" /\ drive'.data = <<>> /\ drive'.cmd = req.mode
  BY <1>2 DEF Started
<1>4. Late = <<>> /\ Late' = <<>>
  BY <1>1, <1>2 DEF Late, Pending, Working, Active
<1>5. Calling' = Calling /\ Answer' = Answer
  BY <1>1 DEF Calling, Answer
<1>6. CASE req.mode = "read"
  BY <1>1, <1>4, <1>5, <1>6 DEF Unseen, Owed
<1>7. CASE req.mode = "write"
  <2>1. Owed = [k \in 1 .. req.n |-> <<req.at + k - 1, Sectors(buf)[k]>>]
    BY <1>1, <1>7, OwedBefore
  <2>2. drive'.data \o buf' = buf
    BY <1>1, <1>3, DriveFacts, ConcatEmptySeq
  <2>3. DOMAIN Sectors(buf) = 1 .. req.n
    BY <1>1, <1>7, DriveFacts, SectorsProperties DEF DiskInv, WaitOK
  <2>4. Owed' = [k \in 1 .. req.n |-> <<req.at + k - 1, Sectors(buf)[k]>>]
    BY <1>1, <1>2, <1>3, <1>7, <2>2, <2>3 DEF Owed
  <2> QED BY <1>1, <1>4, <1>5, <2>1, <2>4 DEF Unseen
<1> QED BY <1>6, <1>7, DriveFacts

LEMMA MapEnter == DiskInv /\ Enter => Unseen
BY DEF Enter, Unseen, Late, Calling, Answer, Owed

LEMMA MapTransfer == DiskInv /\ Transfer => Unseen
<1> SUFFICES ASSUME DiskInv, Transfer PROVE Unseen
  OBVIOUS
<1>1. /\ pc = "xfer" /\ count > 0 /\ Settled /\ UNCHANGED <<pc, req, media, failed, left>>
  BY DEF Transfer
<1>2. UNCHANGED <<Late, Calling, Answer>>
  BY <1>1 DEF Late, Calling, Answer
<1>3. CASE req.mode = "read"
  BY <1>1, <1>2, <1>3 DEF Unseen, Owed
<1>4. CASE req.mode = "write"
  <2>1. DiskInv' /\ drive'.cmd = drive.cmd
        /\ (Active => drive'.data \o buf' = drive.data \o buf /\ drive'.lba = drive.lba)
    BY <1>4, WriteTurn
  <2>2. Owed' = Owed
    <3>1. CASE Active
      BY <1>1, <2>1, <3>1 DEF Owed
    <3>2. CASE ~Active
      BY <1>1, <2>1, <3>2, DriveFacts DEF Owed
    <3> QED BY <3>1, <3>2
  <2> QED BY <1>1, <1>2, <2>2 DEF Unseen
<1> QED BY <1>3, <1>4, DriveFacts

LEMMA MapFetch == DiskInv /\ Fetch => Unseen
<1> SUFFICES ASSUME DiskInv, Fetch PROVE Unseen
  OBVIOUS
<1>1. /\ drive.cmd = "read" /\ Active /\ drive' = [drive EXCEPT !.st = "drq", !.data = media[drive.lba]]
      /\ UNCHANGED <<pc, req, buf, count, media, failed, left>>
  BY DEF Fetch, Working, Active
<1>2. drive'.cmd = "read"
  BY <1>1, DriveFacts
<1>3. Late = <<>> /\ Late' = <<>>
  BY <1>1, <1>2 DEF Late, Pending, Working
<1>4. pc \in {"wait2", "xfer"} /\ req.mode = "read"
  BY <1>1 DEF DiskInv, TypeOK, BetweenOK, DuringOK
<1> QED BY <1>1, <1>3, <1>4 DEF Unseen, Owed, Calling, Answer

LEMMA MapAccept == DiskInv /\ Accept => Unseen
<1> SUFFICES ASSUME DiskInv, Accept PROVE Unseen
  OBVIOUS
<1>1. /\ drive.cmd = "write" /\ Active /\ ~Full /\ drive' = [drive EXCEPT !.st = "drq"]
      /\ UNCHANGED <<pc, req, buf, count, media, failed, left>>
  BY DEF Accept, Working, Active
<1>2. drive'.cmd = drive.cmd /\ drive'.data = drive.data /\ drive'.lba = drive.lba /\ drive'.st = "drq"
  BY <1>1, DriveFacts
<1>3. Late = <<>> /\ Late' = <<>>
  BY <1>1, <1>2 DEF Late, Pending, Working
<1>4. Owed' = Owed
  BY <1>1, <1>2 DEF Owed
<1> QED BY <1>1, <1>3, <1>4 DEF Unseen, Calling, Answer

\* The call returns: the answer is what the medium holds, and of a write at
\* most the last sector is left.
LEMMA MapReturn == DiskInv /\ Return => M!Return
<1> SUFFICES ASSUME DiskInv, Return PROVE M!Return
  OBVIOUS
<1>1. /\ pc = "xfer" /\ count = 0 /\ pc' = "idle"
      /\ UNCHANGED <<req, buf, count, drive, media, failed, left>>
  BY DEF Return
<1>2. Calling # [mode |-> "idle"] /\ Calling = req /\ Calling' = [mode |-> "idle"]
  <2>1. Calling.mode # "idle" /\ Calling = req /\ Calling' = [mode |-> "idle"]
    BY <1>1, DriveFacts DEF Calling
  <2> QED BY <2>1
<1>3. Late = <<>> /\ Owed' = <<>>
  BY <1>1 DEF Late, Owed
<1>4. Late' = Pending
  BY <1>1 DEF Late, Pending, Working, Full
<1>5. CASE req.mode = "read"
  <2>1. ~Active /\ Len(buf) = req.n * Words
    BY <1>5, ReturnFacts
  <2>2. Late' = <<>>
    BY <1>4, <2>1 DEF Pending, Working, Active
  <2>3. Answer' = Sectors(buf)
    BY <1>1, <1>5 DEF Answer
  <2>4. /\ Sectors(buf) \in Seq(SectorData) /\ Len(Sectors(buf)) = req.n
        /\ DOMAIN Sectors(buf) = 1 .. req.n
        /\ \A k \in 1 .. req.n :
             /\ Sectors(buf)[k] \in SectorData
             /\ \A j \in 1 .. Words : Sectors(buf)[k][j] = buf[(k - 1) * Words + j]
    BY <2>1, DriveFacts, SectorsProperties
  <2>5. CASE failed
    <3>1. Answer' \in Seq(SectorData)
      BY <2>3, <2>4
    <3> QED BY <1>1, <1>2, <1>3, <2>2, <2>5, <3>1
            DEF M!Return, M!Idle, Late, Calling, Answer, SectorData, Word
  <2>6. CASE ~failed
    <3>1. ASSUME NEW k \in 1 .. req.n
          PROVE  Sectors(buf)[k] = media[req.at + k - 1]
      <4>1. media[req.at + k - 1] \in SectorData
        BY <1>1, DriveFacts DEF DiskInv, RequestOK, TypeOK, Sector
      <4>2. ASSUME NEW j \in 1 .. Words
            PROVE  Sectors(buf)[k][j] = media[req.at + k - 1][j]
        <5>1. k - 1 \in 0 .. req.n - 1 /\ req.at + (k - 1) = req.at + k - 1
          BY DriveFacts
        <5>2. (k - 1) * Words + j <= Len(buf)
          <6>1. k - 1 \in Nat /\ k - 1 < req.n /\ Words \in Nat \ {0} /\ req.n \in Nat
            BY DriveFacts
          <6> QED BY <2>1, <6>1, WordOfSector
        <5>3. buf[(k - 1) * Words + j] = media[req.at + (k - 1)][j]
          BY <1>1, <1>5, <2>6, <5>1, <5>2 DEF DiskInv, ReadOK
        <5> QED BY <2>4, <5>1, <5>3
      <4>3. Sectors(buf)[k] \in SectorData
        BY <2>4
      <4> QED BY <4>1, <4>2, <4>3, SameData
    <3>2. Sectors(buf) = [k \in 1 .. req.n |-> media[req.at + k - 1]]
      BY <2>4, <3>1
    <3> QED BY <1>1, <1>2, <1>3, <1>5, <2>2, <2>3, <2>6, <3>2 DEF M!Return, M!Idle, Late, Calling, Answer
  <2> QED BY <2>5, <2>6
<1>6. CASE req.mode = "write"
  <2>1. buf = <<>> /\ Answer = <<>> /\ Answer' = <<>>
    BY <1>1, <1>6, ReturnFacts DEF Answer
  <2>2. CASE Active
    <3>1. drive.st = "busy" /\ drive.cmd = "write" /\ Full /\ drive.left = 1 /\ ~failed
      BY <1>1, <2>2, ReturnFacts DEF DiskInv, DuringOK
    <3>2. Late' = <<<<drive.lba, drive.data>>>>
      BY <1>4, <3>1 DEF Pending, Working
    <3>3. Owed = <<<<drive.lba, drive.data>>>>
      <4>1. /\ Len(buf) = 0 * Words /\ 0 \in Nat /\ Len(drive.data) = Words
            /\ buf \in Seq(Word) /\ drive.data \in Seq(Word)
        BY <2>1, <3>1, DriveFacts DEF Full
      <4>2. Sectors(drive.data \o buf)[1] = drive.data
        BY <4>1, FirstSector
      <4>3. Owed = [k \in 1 .. 1 |-> <<drive.lba + k - 1, Sectors(drive.data \o buf)[k]>>]
        BY <1>1, <1>6, <2>2, <3>1, OwedSectors
      <4>4. Owed = [k \in 1 .. 1 |-> <<drive.lba, drive.data>>]
        BY <4>2, <4>3, DriveFacts
      <4> QED BY <4>4
    <3> QED BY <1>1, <1>2, <1>3, <1>6, <2>1, <3>1, <3>2, <3>3 DEF M!Return, M!Idle, Late, Calling, Answer
  <2>3. CASE ~Active
    <3>1. Owed = <<>> /\ Late' = <<>>
      BY <1>1, <1>4, <2>3, NothingOwed DEF Pending, Working, Active
    <3>2. <<>> \in Seq(SectorData) /\ Len(<<>>) = 0
      BY EmptySeq
    <3> QED BY <1>1, <1>2, <1>3, <1>6, <2>1, <3>1, <3>2 DEF M!Return, M!Idle, Late, Calling, Answer
  <2> QED BY <2>2, <2>3
<1> QED BY <1>5, <1>6, DriveFacts

\* The late sector stands before all the present call owes.
LEMMA LateFirst ==
    ASSUME DiskInv, pc \in {"idle", "wait1"}, Active
    PROVE  /\ Late = <<<<drive.lba, drive.data>>>> /\ Late # <<>>
           /\ Late \o Owed # <<>> /\ (Late \o Owed)[1] = <<drive.lba, drive.data>>
<1>1. drive.st = "busy" /\ drive.cmd = "write" /\ Full
  BY DEF DiskInv, BetweenOK
<1>2. Late = <<<<drive.lba, drive.data>>>>
  BY <1>1 DEF Late, Pending, Working
<1> DEFINE S == {<<drive.lba, drive.data>>} \cup {Owed[k] : k \in 1 .. req.n}
<1>3. Owed \in Seq(S)
  <2>1. CASE Owed = <<>>
    BY <2>1
  <2>2. CASE Owed # <<>>
    <3>1. Owed = [k \in 1 .. req.n |-> <<req.at + k - 1, Sectors(buf)[k]>>]
      BY <2>2, NothingOwed, OwedBefore, DriveFacts
    <3>2. \A k \in 1 .. req.n : Owed[k] \in S
      OBVIOUS
    <3> HIDE DEF S
    <3>3. Owed \in [1 .. req.n -> S]
      BY <3>1, <3>2
    <3>4. req.n \in Nat
      BY DriveFacts
    <3> QED BY <3>3, <3>4
  <2> QED BY <2>1, <2>2
<1>4. Late \in Seq(S) /\ Len(Late) = 1 /\ Late[1] = <<drive.lba, drive.data>>
  BY <1>2
<1> HIDE DEF S
<1>5. /\ Late \o Owed \in Seq(S) /\ Len(Late \o Owed) = Len(Late) + Len(Owed)
      /\ \A i \in 1 .. Len(Late) + Len(Owed) :
             (Late \o Owed)[i] = IF i <= Len(Late) THEN Late[i] ELSE Owed[i - Len(Late)]
  BY <1>3, <1>4, ConcatProperties
<1>6. Len(Owed) \in Nat
  BY <1>3, LenProperties
<1>7. (Late \o Owed)[1] = <<drive.lba, drive.data>> /\ Len(Late \o Owed) # 0
  BY <1>4, <1>5, <1>6
<1> QED BY <1>2, <1>4, <1>7, EmptySeq

\* During a write the sector on its way is the first of those owed.
LEMMA OwedFirst ==
    ASSUME DiskInv, pc \in {"wait2", "xfer"}, Active, drive.cmd = "write", Full
    PROVE  /\ pc = "xfer" /\ req.mode = "write" /\ ~failed
           /\ buf \in Seq(Word) /\ Len(buf) = (drive.left - 1) * Words /\ drive.left - 1 \in Nat
           /\ Owed # <<>> /\ Owed[1] = <<drive.lba, drive.data>> /\ <<>> \o Owed = Owed
           /\ Len(Owed) = drive.left
           /\ Tail(Owed) = [k \in 1 .. drive.left - 1 |-> <<drive.lba + k, Sectors(buf)[k]>>]
<1> DEFINE n == drive.left
<1>1. /\ n \in Nat \ {0} /\ n - 1 \in Nat /\ Words \in Nat \ {0} /\ drive.lba \in Nat
      /\ buf \in Seq(Word) /\ Len(buf) \in Nat
      /\ drive.data \in Seq(Word) /\ Len(drive.data) = Words /\ drive.data # <<>>
  BY DriveFacts DEF Full
<1>2. pc = "xfer" /\ req.mode = "write" /\ ~failed
  BY <1>1 DEF DiskInv, WaitOK, DuringOK
<1>3. Len(buf) = (n - 1) * Words
  <2>1. Len(drive.data) + count = n * Words /\ Len(buf) = count
    BY <1>2 DEF DiskInv, CountOK
  <2> HIDE DEF n
  <2>2. n * Words = (n - 1) * Words + Words /\ (n - 1) * Words \in Nat
    BY <1>1
  <2> QED BY <1>1, <2>1, <2>2
<1>4. Owed = [k \in 1 .. n |-> <<drive.lba + k - 1, Sectors(drive.data \o buf)[k]>>]
  BY <1>2, OwedSectors
<1>5. /\ Sectors(drive.data \o buf)[1] = drive.data
      /\ \A k \in 1 .. n - 1 : Sectors(drive.data \o buf)[k + 1] = Sectors(buf)[k]
  <2> DEFINE m == n - 1
  <2>1. m \in Nat /\ Len(buf) = m * Words
    BY <1>1, <1>3
  <2> HIDE DEF m
  <2>2. /\ Sectors(drive.data \o buf)[1] = drive.data
        /\ \A k \in 1 .. m : Sectors(drive.data \o buf)[k + 1] = Sectors(buf)[k]
    BY <1>1, <2>1, FirstSector
  <2> QED BY <2>2 DEF m
<1> DEFINE S == {Owed[k] : k \in 1 .. n}
<1>6. Owed \in Seq(S) /\ Len(Owed) = n
  <2>1. \A k \in 1 .. n : Owed[k] \in S
    OBVIOUS
  <2> HIDE DEF S, n
  <2>2. Owed \in [1 .. n -> S]
    BY <1>4, <2>1
  <2> QED BY <1>1, <2>2
<1> HIDE DEF S, n
<1>7. Owed # <<>> /\ <<>> \o Owed = Owed
  BY <1>1, <1>6, EmptySeq, ConcatEmptySeq
<1>8. Owed[1] = <<drive.lba, drive.data>>
  <2>1. Owed[1] = <<drive.lba + 1 - 1, Sectors(drive.data \o buf)[1]>>
    BY <1>1, <1>4
  <2> QED BY <1>1, <1>5, <2>1
<1>9. Tail(Owed) = [k \in 1 .. n - 1 |-> <<drive.lba + k, Sectors(buf)[k]>>]
  <2>1. /\ Tail(Owed) \in Seq(S) /\ Len(Tail(Owed)) = n - 1
        /\ \A i \in 1 .. Len(Tail(Owed)) : Tail(Owed)[i] = Owed[i + 1]
    BY <1>6, <1>7, HeadTailProperties
  <2>2. ASSUME NEW k \in 1 .. n - 1 PROVE Tail(Owed)[k] = <<drive.lba + k, Sectors(buf)[k]>>
    <3>1. k + 1 \in 1 .. n /\ drive.lba + (k + 1) - 1 = drive.lba + k
      BY <1>1
    <3>2. Owed[k + 1] = <<drive.lba + (k + 1) - 1, Sectors(drive.data \o buf)[k + 1]>>
      BY <1>4, <3>1
    <3>3. Tail(Owed)[k] = Owed[k + 1]
      BY <2>1
    <3> QED BY <1>5, <3>1, <3>2, <3>3
  <2>3. Tail(Owed) = [k \in 1 .. n - 1 |-> Tail(Owed)[k]]
    BY <1>1, <2>1, LenProperties
  <2> QED BY <2>2, <2>3
<1> QED BY <1>1, <1>2, <1>3, <1>6, <1>7, <1>8, <1>9 DEF n

\* A sector written is the late one, or the first the present call owes.
LEMMA MapCommit == DiskInv /\ Commit => M!Take
<1> SUFFICES ASSUME DiskInv, Commit PROVE M!Take
  OBVIOUS
<1>1. /\ drive.st = "busy" /\ drive.cmd = "write" /\ Active /\ Full
      /\ media' = [media EXCEPT ![drive.lba] = drive.data]
      /\ drive' = IF drive.left = 1 THEN Resting
                  ELSE [drive EXCEPT !.data = <<>>, !.left = @ - 1, !.lba = @ + 1]
      /\ UNCHANGED <<pc, req, buf, count, failed, left>>
  BY DEF Commit, Working, Active
<1>2. Calling' = Calling /\ Answer' = Answer
  BY <1>1 DEF Calling, Answer
<1>3. CASE pc \in {"idle", "wait1"}
  <2>1. /\ Late # <<>> /\ Late \o Owed # <<>> /\ (Late \o Owed)[1] = <<drive.lba, drive.data>>
    BY <1>1, <1>3, LateFirst
  <2>2. Late' = <<>>
    <3>1. drive' = Resting
      BY <1>1, <1>3 DEF DiskInv, BetweenOK
    <3>2. drive'.cmd # "write"
      BY <3>1 DEF Resting
    <3> QED BY <3>2 DEF Late, Pending, Working
  <2>3. Owed' = Owed
    BY <1>1, <1>3 DEF Owed
  <2>4. media' = [media EXCEPT ![(Late \o Owed)[1][1]] = (Late \o Owed)[1][2]]
    BY <1>1, <2>1
  <2> QED BY <1>1, <1>2, <2>1, <2>2, <2>3, <2>4, Zenon DEF M!Take, Late, Calling, Answer
<1>4. CASE pc \notin {"idle", "wait1"}
  <2>1. pc \in {"wait2", "xfer"}
    BY <1>4 DEF DiskInv, TypeOK
  <2>2. Late = <<>> /\ Late' = <<>>
    BY <1>1, <1>4 DEF Late
  <2>3. /\ pc = "xfer" /\ req.mode = "write"
        /\ buf \in Seq(Word) /\ Len(buf) = (drive.left - 1) * Words /\ drive.left - 1 \in Nat
        /\ Owed # <<>> /\ Owed[1] = <<drive.lba, drive.data>> /\ <<>> \o Owed = Owed
        /\ Tail(Owed) = [k \in 1 .. drive.left - 1 |-> <<drive.lba + k, Sectors(buf)[k]>>]
    BY <1>1, <2>1, OwedFirst
  <2>4. Owed' = Tail(Owed)
    <3>1. CASE drive.left = 1
      <4>1. drive'.cmd = "none"
        BY <1>1, <3>1 DEF Resting
      <4>2. Owed' = <<>>
        BY <1>1, <2>3, <4>1 DEF Owed
      <4> QED BY <2>3, <3>1, <4>2
    <3>2. CASE drive.left # 1
      <4>1. drive' = [st |-> "busy", cmd |-> "write", lba |-> drive.lba + 1,
                      left |-> drive.left - 1, data |-> <<>>]
        BY <1>1, <3>2, DriveFacts
      <4>2. drive'.data \o buf' = buf
        BY <1>1, <2>3, <4>1, ConcatEmptySeq
      <4>3. DOMAIN Sectors(buf) = 1 .. drive.left - 1
        BY <2>3, SectorsProperties
      <4>4. Owed' = [k \in DOMAIN Sectors(buf) |-> <<drive'.lba + k - 1, Sectors(buf)[k]>>]
        <5>1. /\ req'.mode = "write" /\ pc' = "xfer" /\ drive'.cmd = "write"
          BY <1>1, <2>3, <4>1
        <5>2. Owed' = [k \in DOMAIN Sectors(drive'.data \o buf') |->
                          <<drive'.lba + k - 1, Sectors(drive'.data \o buf')[k]>>]
          BY <5>1 DEF Owed
        <5>3. Sectors(drive'.data \o buf') = Sectors(buf)
          BY <4>2
        <5> QED BY <5>2, <5>3
      <4>5. \A k \in 1 .. drive.left - 1 : drive'.lba + k - 1 = drive.lba + k
        BY <4>1, DriveFacts
      <4> QED BY <2>3, <4>3, <4>4, <4>5
    <3> QED BY <3>1, <3>2
  <2>5. Late \o Owed = Owed /\ media' = [media EXCEPT ![Owed[1][1]] = Owed[1][2]]
    BY <1>1, <2>2, <2>3
  <2>6. media' = [media EXCEPT ![(Late \o Owed)[1][1]] = (Late \o Owed)[1][2]]
    BY <2>5
  <2> QED BY <1>1, <1>2, <2>2, <2>3, <2>4, <2>5, <2>6, Zenon DEF M!Take, Late, Calling, Answer
<1> QED BY <1>3, <1>4

\* An error loses the late sector, or ends the writing of the present call.
LEMMA MapFail == DiskInv /\ Fail => M!LoseLate \/ M!Fault
<1> SUFFICES ASSUME DiskInv, Fail PROVE M!LoseLate \/ M!Fault
  OBVIOUS
<1>1. /\ drive.st = "busy" /\ Active
      /\ \/ UNCHANGED media
         \/ /\ drive.cmd = "write" /\ Full
            /\ media' = [media EXCEPT ![drive.lba] = [i \in 1 .. Words |-> Noise]]
      /\ failed' = (failed \/ pc \in {"wait2", "xfer"})
      /\ UNCHANGED <<pc, req, buf, count>>
  BY DEF Fail, Working, Active
<1>2. ~Active' /\ drive'.cmd = "none" /\ drive'.st # "busy"
  <2>1. PICK st \in {"ready", "dead"} : drive' = [Resting EXCEPT !.st = st]
    BY DEF Fail
  <2>2. ~Active' /\ drive'.cmd = "none"
    BY <2>1, RestingOK
  <2> QED BY <2>2 DEF Active
<1>3. Calling' = Calling /\ Answer' = Answer /\ Late' = <<>>
  BY <1>1, <1>2 DEF Calling, Answer, Late, Pending, Working
<1> DEFINE spoilt == [i \in 1 .. Words |-> Noise]
<1>4. spoilt \in [1 .. Words -> Datum \X (1 .. Words) \cup {Noise}]
  OBVIOUS
<1> HIDE DEF spoilt
<1>5. CASE pc \in {"idle", "wait1"}
  <2>1. Late # <<>> /\ Late = <<<<drive.lba, drive.data>>>>
    BY <1>1, <1>5, LateFirst
  <2>2. failed' = failed /\ Owed' = Owed
    BY <1>1, <1>5 DEF Owed, DiskInv, TypeOK
  <2>3. \/ UNCHANGED media
        \/ \E c \in [1 .. Words -> Datum \X (1 .. Words) \cup {Noise}] :
               media' = [media EXCEPT ![Late[1][1]] = c]
    BY <1>1, <1>4, <2>1 DEF spoilt
  <2>4. M!LoseLate
    BY <1>1, <1>3, <2>1, <2>2, <2>3 DEF M!LoseLate, M!Spoilt, Late, Calling, Answer
  <2> QED BY <2>4
<1>6. CASE pc \notin {"idle", "wait1"}
  <2>1. pc \in {"wait2", "xfer"} /\ failed' = TRUE
    BY <1>1, <1>6 DEF DiskInv, TypeOK
  <2>2. Late = <<>>
    BY <1>6 DEF Late
  <2>3. Owed' = <<>>
    BY <1>1, <1>2, <2>1 DEF Owed
  <2>4. Calling # [mode |-> "idle"]
    <3>1. Calling.mode # "idle"
      BY <2>1, DriveFacts DEF Calling
    <3> QED BY <3>1
  <2>5. \/ UNCHANGED media
        \/ Owed # <<>> /\ \E c \in [1 .. Words -> Datum \X (1 .. Words) \cup {Noise}] :
                              media' = [media EXCEPT ![Owed[1][1]] = c]
    <3> SUFFICES ASSUME drive.cmd = "write", Full, media' = [media EXCEPT ![drive.lba] = spoilt]
                 PROVE  Owed # <<>> /\ \E c \in [1 .. Words -> Datum \X (1 .. Words) \cup {Noise}] :
                                           media' = [media EXCEPT ![Owed[1][1]] = c]
      BY <1>1 DEF spoilt
    <3>1. Owed # <<>> /\ Owed[1] = <<drive.lba, drive.data>>
      BY <1>1, <2>1, OwedFirst
    <3>2. media' = [media EXCEPT ![Owed[1][1]] = spoilt]
      BY <3>1
    <3> QED BY <1>4, <3>1, <3>2
  <2>6. M!Fault
    BY <1>1, <1>3, <2>1, <2>2, <2>3, <2>4, <2>5 DEF M!Fault, M!Spoilt, M!Idle, Late, Calling, Answer
  <2> QED BY <2>6
<1> QED BY <1>5, <1>6

\* Every step of the driver or the drive is one of the medium, or is not seen.
LEMMA MapNext == DiskInv /\ [Next]_vars => [M!Next]_(M!vars)
<1> SUFFICES ASSUME DiskInv, [Next]_vars PROVE M!Next \/ UNCHANGED M!vars
  OBVIOUS
<1>1. ASSUME NEW r \in Requests, disk_read(r[1], r[2]) \/ disk_write(r[1], r[2]) PROVE M!Next
  <2> DEFINE s == r[1]  n == r[2]  e == s + n - 1
  <2>1. s \in Sector /\ n \in 1 .. MaxCount /\ e \in Sector
    BY DEF Requests
  <2>2. s <= e /\ e - s + 1 = n
    BY <2>1, DiskAssumption DEF Sector
  <2>3. M!Read(s, e - s + 1) \/ M!Write(s, e - s + 1)
    BY <1>1, <2>1, <2>2, MapRead, MapWrite
  <2> HIDE DEF s, e
  <2> QED BY <2>1, <2>2, <2>3 DEF M!Next
<1>2. ASSUME Driver PROVE M!Next \/ UNCHANGED M!vars
  BY <1>2, MapGiveUp, MapCommand, MapEnter, MapTransfer, MapReturn, MapUnseen DEF Driver, M!Next
<1>3. ASSUME Drive PROVE M!Next \/ UNCHANGED M!vars
  BY <1>3, MapFetch, MapAccept, MapCommit, MapUnseen DEF Drive, M!Next
<1>4. ASSUME Fail PROVE M!Next
  BY <1>4, MapFail DEF M!Next
<1>5. ASSUME UNCHANGED vars PROVE UNCHANGED M!vars
  BY <1>5 DEF vars, M!vars, Pending, Working, Full, Owed
<1> QED BY <1>1, <1>2, <1>3, <1>4, <1>5 DEF Next

\* disk_read and disk_write over the ATA driver are the medium the file system
\* expects: sectors are written in the order of the calls, a read gives what
\* was written last, and an error harms only the call in which it happens.
THEOREM DiskImplementsMedium == Spec => ImplementsMedium
<1>1. Init => M!Init
  BY MapInit
<1>2. DiskInv /\ [Next]_vars => [M!Next]_(M!vars)
  BY MapNext
<1> QED BY <1>1, <1>2, WordsAccounted, PTL DEF Spec, M!Spec, ImplementsMedium

=============================================================================
