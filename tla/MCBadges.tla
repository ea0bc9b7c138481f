----------------------------- MODULE MCBadges -----------------------------
(* Small instances of Badges. *)
EXTENDS Badges, TLC

Symmetry == Permutations(Workers)
=============================================================================
