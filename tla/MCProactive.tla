---------------------------- MODULE MCProactive ----------------------------
(* Small instances of Proactive. *)
EXTENDS Proactive, TLC

CONSTANTS amy, bea, a1, b1

\* The characters amy and bea.
MCOf == [s \in Sources |-> IF s = a1 THEN amy ELSE bea]

\* The two characters, with one occasion each, may be exchanged.
Exchange == [x \in {amy, bea, a1, b1} |->
  CASE x = amy -> bea [] x = bea -> amy [] x = a1 -> b1 [] x = b1 -> a1]
Symmetry == Permutations(Processes) \cup {Exchange}
=============================================================================
