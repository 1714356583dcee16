------------------------------- MODULE Loops -------------------------------
(***************************************************************************)
(* A loop of a C function whose number of turns is known when it starts.   *)
(* The folds of the community modules take the elements of a set in an     *)
(* order that is chosen; a loop written as a function of the turn is one   *)
(* the proofs can follow from each turn to the next.                       *)
(***************************************************************************)
EXTENDS Integers

Pow2[n \in Nat] == IF n = 0 THEN 1 ELSE 2 * Pow2[n - 1]

(* What n turns of a loop make of s; the k-th one is f(., k).              *)
Loop(f(_, _), s, n) ==
    LET g[k \in 0 .. n] == IF k = 0 THEN s ELSE f(g[k - 1], k) IN g[n]
=============================================================================
