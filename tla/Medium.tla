------------------------------- MODULE Medium -------------------------------
(***************************************************************************)
(* What the layers above expect of the disk (src/kernel/fs/fat/diskio.h):  *)
(* sectors are written in the order in which they were handed over, and a  *)
(* read gives what was written last.  Calls come one at a time.            *)
(*                                                                         *)
(* What it does not promise is seen as well: a write may return before its *)
(* last sector is on the medium (CTRL_SYNC does nothing), and nobody is    *)
(* told of an error, so that after one the caller has anything.            *)
(***************************************************************************)
EXTENDS Integers, Sequences

CONSTANTS Sector,     \* numbers of sectors
          Content,    \* what callers write to a sector
          Any         \* what may be found in one after an error

VARIABLES disk,       \* the medium
          late,       \* the last sector of a call that has returned
          out,        \* sectors of the present call: <<number, content>>
          call,       \* the present call
          answer,     \* what the last read put into the buffer
          bad         \* the drive has failed during the present call

vars == <<disk, late, out, call, answer, bad>>

Idle == [mode |-> "idle"]

Init ==
    /\ disk \in [Sector -> Content] /\ late = <<>> /\ out = <<>>
    /\ call = Idle /\ answer = <<>> /\ bad = FALSE

Read(s, n) ==
    /\ call = Idle /\ call' = [mode |-> "read", at |-> s, n |-> n]
    /\ answer' = <<>> /\ bad' = FALSE
    /\ UNCHANGED <<disk, late, out>>

Write(s, n) ==
    /\ call = Idle /\ call' = [mode |-> "write", at |-> s, n |-> n]
    /\ \E cs \in [1 .. n -> Content] : out' = [k \in 1 .. n |-> <<s + k - 1, cs[k]>>]
    /\ answer' = <<>> /\ bad' = FALSE
    /\ UNCHANGED <<disk, late>>

(* Nothing of the present call is taken before the last one is through.    *)
Take ==
    LET q == late \o out
    IN  /\ q # <<>> /\ disk' = [disk EXCEPT ![q[1][1]] = q[1][2]]
        /\ IF late # <<>> THEN late' = <<>> /\ UNCHANGED out
           ELSE out' = Tail(out) /\ UNCHANGED late
        /\ UNCHANGED <<call, answer, bad>>

Spoilt(q) == q # <<>> /\ \E c \in Any : disk' = [disk EXCEPT ![q[1][1]] = c]

(* The drive fails: at the late sector, which is nobody's business; or at  *)
(* the present call, of which no further sector is written then.           *)
LoseLate ==
    /\ late # <<>> /\ late' = <<>>
    /\ Spoilt(late) \/ UNCHANGED disk
    /\ UNCHANGED <<out, call, answer, bad>>

Fault ==
    /\ late = <<>> /\ call # Idle /\ bad' = TRUE /\ out' = <<>>
    /\ Spoilt(out) \/ UNCHANGED disk
    /\ UNCHANGED <<late, call, answer>>

Return ==
    /\ call # Idle /\ call' = Idle /\ out' = <<>>
    /\ \/ /\ bad /\ answer' \in Seq(Any) /\ UNCHANGED <<late, bad>>
       \/ /\ ~bad /\ late = <<>> /\ call.mode = "read"
          /\ answer' = [k \in 1 .. call.n |-> disk[call.at + k - 1]]
          /\ UNCHANGED <<late, bad>>
       \/ /\ ~bad /\ late = <<>> /\ call.mode = "write"
          /\ Len(out) <= 1 /\ late' = out
          /\ UNCHANGED <<answer, bad>>
    /\ UNCHANGED disk

(* The drive does not take part at all. *)
Refuse ==
    /\ call # Idle /\ late = <<>>
    /\ call' = Idle /\ out' = <<>> /\ bad' = TRUE
    /\ UNCHANGED <<disk, late, answer>>

Next ==
    \/ \E s, e \in Sector : s <= e /\ (Read(s, e - s + 1) \/ Write(s, e - s + 1))
    \/ Take \/ LoseLate \/ Fault \/ Return \/ Refuse

Spec == Init /\ [][Next]_vars
=============================================================================
