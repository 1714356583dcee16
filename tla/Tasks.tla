------------------------------- MODULE Tasks -------------------------------
(***************************************************************************)
(* What a task manager promises, without a ring, PCBs or saved contexts:   *)
(* there is a set of live tasks, the processor executes one of them or is  *)
(* between two of them, and the idle task 0 only when there is no other.   *)
(***************************************************************************)
EXTENDS Integers, FiniteSets

CONSTANTS
    Task,       \* contains the idle task, 0
    Limit       \* with more live tasks than this the manager may give up

VARIABLES live, current     \* current = NoTask between an exit and a dispatch

NoTask == -1
Stopped == -2

TInit == live = {0} /\ current = 0

\* The current task makes a task that never existed before; it stays current.
Create(t) ==
    /\ current \in live
    /\ t \in Task \ live
    /\ live' = live \cup {t}
    /\ UNCHANGED current

\* Only the current task dies, never the idle task.
Die ==
    /\ current \in live \ {0}
    /\ live' = live \ {current}
    /\ current' = NoTask

\* The processor goes to a live task; to the idle task only if it is alone.
Dispatch(t) ==
    /\ t \in live
    /\ t = 0 => live = {0}
    /\ current' = t
    /\ UNCHANGED live

\* It gives up only when there are too many tasks.
GiveUp ==
    /\ current \in live
    /\ Cardinality(live) > Limit
    /\ current' = Stopped
    /\ UNCHANGED live

TNext == Die \/ GiveUp \/ \E t \in Task : Create(t) \/ Dispatch(t)

TSpec == TInit /\ [][TNext]_<<live, current>>
============================================================================
