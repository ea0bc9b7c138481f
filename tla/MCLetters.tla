----------------------------- MODULE MCLetters -----------------------------
(* Small instances of Letters. *)
EXTENDS Letters, TLC

Doubling == [n \in Attempts |-> 2 ^ (n - 1)]

Symmetry == Permutations(Letters) \cup Permutations(Processes)
=============================================================================
