---------------------------- MODULE MCKeepsakes ----------------------------
(* Small instances of Keepsakes. *)
EXTENDS Keepsakes, TLC

\* A drawing may come out in two ways; with Sharing, as another keepsake's as well.
Sharing == [k \in Sources |-> IF k \in Letters THEN {"plain", "shared"} ELSE {"shared"}]
Symmetry == Permutations(Workers)
=============================================================================
