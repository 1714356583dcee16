------------------------------ MODULE MCSched ------------------------------
(* Sched on a small ring, for TLC. *)
EXTENDS Sched, TLC

\* PCB blocks other than task 0's are interchangeable.
SlotSymmetry == Permutations(Slot \ {Root})
============================================================================
