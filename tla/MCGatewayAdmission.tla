------------------------- MODULE MCGatewayAdmission -------------------------
(* Small instances of GatewayAdmission. *)
EXTENDS GatewayAdmission

CONSTANTS ann, bob, a1, a2, aPicture, b1, bPicture

TwoAccounts == [c \in Calls |-> IF c \in {b1, bPicture} THEN bob ELSE ann]
Pictures    == {aPicture, bPicture} \cap Calls

Limit(global, perUser, waiting, enabled) ==
  [global |-> global, perUser |-> perUser, waiting |-> waiting, enabled |-> enabled]

\* The limits shrink and grow under the running calls, and calls are switched off.
Changing == {Limit(2, 1, 3, TRUE), Limit(1, 2, 2, TRUE), Limit(2, 2, 3, FALSE)}
=============================================================================
