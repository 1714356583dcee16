-------------------------------- MODULE Disk --------------------------------
(***************************************************************************)
(* The ATA driver (src/device/ata.c) under the disk layer of FatFs         *)
(* (src/kernel/fs/fat/diskio.c), and the drive it polls.  Every access to  *)
(* the data port is a step; the registers of a command are written while   *)
(* the drive rests and are one step with it.  The driver waits by reading  *)
(* the status until BSY is clear: such a wait is the guard of what follows.*)
(*                                                                         *)
(* The drive raises BSY with the command, has DRDY set while it works at   *)
(* all, also after an error, and ignores the data port when it does not    *)
(* ask for data.  `dead' is a drive that shows only ERR or DF.             *)
(***************************************************************************)
EXTENDS Integers, Sequences, Functions

CONSTANTS Size,      \* sectors of the drive
          Words,     \* words in a sector: 256
          U8,        \* numbers the sector count register can hold: 256
          LBA,       \* sector numbers its address registers can hold: 2^28
          MaxCount,  \* sectors in a request: FatFs asks for one cluster, 128
          Datum,     \* what callers write
          Calls,     \* bound: calls of a behaviour
          Faults     \* bound: errors of the drive

ASSUME DiskAssumption ==
    /\ Size \in Nat \ {0} /\ Words \in Nat \ {0}
    /\ U8 \in Nat /\ LBA \in Nat /\ Size <= LBA
    /\ MaxCount \in Nat \ {0} /\ MaxCount < U8
    /\ Calls \in Nat /\ Faults \in Nat

Sector == 0 .. Size - 1
Block(d) == [i \in 1 .. Words |-> <<d, i>>]
Content == {Block(d) : d \in Datum}
Noise == <<"?", 0>>

VARIABLES pc,       \* of ata_rw: "idle", "wait1", "wait2", "xfer"
          req,      \* the present call, or the last one
          buf,      \* the words read so far, or still to be written
          count,    \* read_count
          drive,    \* st, cmd, lba, left (sectors), data (of a sector)
          media,
          failed,   \* history: the drive has failed during this call
          left      \* bounds: calls and faults left

vars == <<pc, req, buf, count, drive, media, failed, left>>

Resting == [st |-> "ready", cmd |-> "none", lba |-> 0, left |-> 0, data |-> <<>>]

Init ==
    /\ pc = "idle" /\ req = [mode |-> "write", at |-> 0, n |-> 0] /\ buf = <<>> /\ count = 0
    /\ drive = Resting /\ media \in [Sector -> Content]
    /\ failed = FALSE /\ left = [calls |-> Calls, faults |-> Faults]

-----------------------------------------------------------------------------
(* get_ata_state returns as soon as BSY is clear; with 0 when the drive is *)
(* ready, error or not, or asks for data, otherwise with an error code.    *)
\* Mutant of Settled: BSY is not looked at, DRDY alone decides.
SettledAtOnce == TRUE
\* Mutant of Settled: only DRQ ends the wait.
SettledByData == drive.st = "drq"
Settled == drive.st # "busy"
StateOk == drive.st # "dead"

(* disk_read and disk_write call ata_rw; they return RES_OK, always.       *)
Call(mode, s, n, words) ==
    /\ pc = "idle" /\ pc' = "wait1"
    /\ left.calls > 0 /\ left' = [left EXCEPT !.calls = @ - 1]
    /\ s + n - 1 \in Sector
    /\ req' = [mode |-> mode, at |-> s, n |-> n]
    /\ buf' = words /\ failed' = FALSE
    /\ UNCHANGED <<count, drive, media>>

disk_read(s, n) == Call("read", s, n, <<>>)

disk_write(s, n) ==
    \E ds \in [1 .. n -> Datum] :
        Call("write", s, n,
             [k \in 1 .. n * Words |-> <<ds[(k - 1) \div Words + 1], ((k - 1) % Words) + 1>>])

(* ata_rw leaves at its first two waits when the state is an error.        *)
GiveUp ==
    /\ pc \in {"wait1", "wait2"} /\ Settled /\ ~StateOk
    /\ pc' = "idle" /\ failed' = TRUE
    /\ UNCHANGED <<req, buf, count, drive, media, left>>

(* The registers, the count cut to its width, then the command.  The drive *)
(* takes a count of 0 for the largest.                                     *)
Started(n) ==
    [st |-> "busy", cmd |-> req.mode, lba |-> req.at % LBA,
     left |-> IF n = 0 THEN U8 ELSE n, data |-> <<>>]

Command ==
    /\ pc = "wait1" /\ Settled /\ StateOk /\ pc' = "wait2"
    /\ drive' = Started(req.n % U8)
    /\ UNCHANGED <<req, buf, count, media, failed, left>>

Enter ==
    /\ pc = "wait2" /\ Settled /\ StateOk /\ pc' = "xfer"
    /\ count' = (req.n % U8) * Words
    /\ UNCHANGED <<req, buf, drive, media, failed, left>>

(* The drive's side of the data port: after the last word of a sector it   *)
(* goes to the next one, or rests, or has a sector to write.               *)
Drained ==
    IF Len(drive.data) > 1 THEN [drive EXCEPT !.data = Tail(@)]
    ELSE IF drive.left = 1 THEN Resting
    ELSE [drive EXCEPT !.st = "busy", !.data = <<>>, !.left = @ - 1, !.lba = @ + 1]

Filled(w) ==
    [drive EXCEPT !.data = Append(@, w),
                  !.st = IF Len(drive.data) + 1 = Words THEN "busy" ELSE "drq"]

(* One turn of the loop of ata_rw; what get_ata_state returns is ignored.  *)
Transfer ==
    /\ pc = "xfer" /\ count > 0 /\ Settled /\ count' = count - 1
    /\ IF req.mode = "read"
       THEN IF drive.st = "drq" /\ drive.cmd = "read"
            THEN buf' = Append(buf, Head(drive.data)) /\ drive' = Drained
            ELSE buf' = Append(buf, Noise) /\ UNCHANGED drive
       ELSE /\ buf' = Tail(buf)
            /\ IF drive.st = "drq" /\ drive.cmd = "write"
               THEN drive' = Filled(Head(buf)) ELSE UNCHANGED drive
    /\ UNCHANGED <<pc, req, media, failed, left>>

Return ==
    /\ pc = "xfer" /\ count = 0 /\ pc' = "idle"
    /\ UNCHANGED <<req, buf, count, drive, media, failed, left>>

-----------------------------------------------------------------------------
(* External: the drive. *)
Working(cmd) == drive.st = "busy" /\ drive.cmd = cmd
Full == Len(drive.data) = Words

Fetch ==
    /\ Working("read")
    /\ drive' = [drive EXCEPT !.st = "drq", !.data = media[drive.lba]]
    /\ UNCHANGED <<pc, req, buf, count, media, failed, left>>

Accept ==
    /\ Working("write") /\ ~Full
    /\ drive' = [drive EXCEPT !.st = "drq"]
    /\ UNCHANGED <<pc, req, buf, count, media, failed, left>>

Commit ==
    /\ Working("write") /\ Full
    /\ media' = [media EXCEPT ![drive.lba] = drive.data]
    /\ drive' = IF drive.left = 1 THEN Resting
                ELSE [drive EXCEPT !.data = <<>>, !.left = @ - 1, !.lba = @ + 1]
    /\ UNCHANGED <<pc, req, buf, count, failed, left>>

(* The command ends with an error; a sector about to be written is spoilt  *)
(* or not.  The drive goes on, or stays dead.                              *)
Fail ==
    /\ drive.st = "busy" /\ left.faults > 0
    /\ left' = [left EXCEPT !.faults = @ - 1]
    /\ \/ UNCHANGED media
       \/ /\ Working("write") /\ Full
          /\ media' = [media EXCEPT ![drive.lba] = [i \in 1 .. Words |-> Noise]]
    /\ \E st \in {"ready", "dead"} : drive' = [Resting EXCEPT !.st = st]
    /\ failed' = (failed \/ pc \in {"wait2", "xfer"})
    /\ UNCHANGED <<pc, req, buf, count>>

-----------------------------------------------------------------------------
Requests == {r \in Sector \X (1 .. MaxCount) : r[1] + r[2] - 1 \in Sector}
Driver == GiveUp \/ Command \/ Enter \/ Transfer \/ Return
Drive == Fetch \/ Accept \/ Commit

Next ==
    \/ \E r \in Requests : disk_read(r[1], r[2]) \/ disk_write(r[1], r[2])
    \/ Driver \/ Drive \/ Fail

(* The driver is kernel code with interrupts off; a drive that works comes *)
(* to an end of it.                                                        *)
Spec == Init /\ [][Next]_vars /\ WF_vars(Driver) /\ WF_vars(Drive)

-----------------------------------------------------------------------------
(* The words a caller sees as sectors.                                     *)
Sectors(ws) == [k \in 1 .. Len(ws) \div Words |-> SubSeq(ws, (k - 1) * Words + 1, k * Words)]

(* What a write has still to bring to the medium: the sector the drive is  *)
(* about to write, and those of which it has not all words.                *)
Pending == IF Working("write") /\ Full THEN <<<<drive.lba, drive.data>>>> ELSE <<>>

Owed ==
    LET rest == Sectors(drive.data \o buf)
    IN  IF req.mode = "read" \/ pc = "idle" THEN <<>>
        ELSE IF pc = "wait1" THEN [k \in 1 .. req.n |-> <<req.at + k - 1, Sectors(buf)[k]>>]
        ELSE IF drive.cmd # "write" THEN <<>>
        ELSE [k \in DOMAIN rest |-> <<drive.lba + k - 1, rest[k]>>]

M == INSTANCE Medium WITH
         Any <- [1 .. Words -> Datum \X (1 .. Words) \cup {Noise}],
         disk <- media,
         late <- IF pc \in {"idle", "wait1"} THEN Pending ELSE <<>>,
         out <- Owed,
         call <- IF pc = "idle" THEN [mode |-> "idle"] ELSE req,
         answer <- IF pc = "idle" /\ req.mode = "read" THEN Sectors(buf) ELSE <<>>,
         bad <- failed

(* Sectors reach the medium in the order of the calls, a read gives what   *)
(* was written last, a write that returns has at most one sector left to   *)
(* write, and an error harms the call in which it happens and the sector   *)
(* being written, never a later call (Medium).                             *)
ImplementsMedium == M!Spec

(* Every call returns, whatever the drive reports: no wait of the driver   *)
(* is for a state that an error, an early end or a dead drive prevents.    *)
CallsReturn == (pc # "idle") ~> (pc = "idle")
=============================================================================
