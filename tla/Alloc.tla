------------------------------- MODULE Alloc -------------------------------
(***************************************************************************)
(* What kalloc and kfree (include/nar/heap.h) promise to the kernel: the   *)
(* memory of an allocation is the caller's alone until it is freed.        *)
(***************************************************************************)
EXTENDS Integers

CONSTANTS
    Addr,       \* the addresses of the heap
    Sizes       \* the sizes that are requested

VARIABLE owned    \* the length of every allocation in use, by its address

Bytes(p, n) == p .. p + n - 1

Init == owned = [p \in {} |-> 0]

\* kalloc returns p for a request of n bytes.
Allocate(p, n) ==
    /\ p \notin DOMAIN owned
    /\ \A q \in DOMAIN owned : Bytes(q, owned[q]) \cap Bytes(p, n) = {}
    /\ owned' = [q \in DOMAIN owned \cup {p} |-> IF q = p THEN n ELSE owned[q]]

\* kfree of an allocation in use.
Release(p) ==
    /\ p \in DOMAIN owned
    /\ owned' = [q \in DOMAIN owned \ {p} |-> owned[q]]

Next ==
    \/ \E p \in Addr, n \in Sizes : Allocate(p, n)
    \/ \E p \in DOMAIN owned : Release(p)

Spec == Init /\ [][Next]_owned
============================================================================
