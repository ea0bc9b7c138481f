--------------------------- MODULE MCHostedBilling ---------------------------
(* Small instances of HostedBilling. *)
EXTENDS HostedBilling

CONSTANTS ann, bob, chat, review, mine

\* One account: a platform call that may be retried once and one that may not.
OneOwner   == [c \in Calls |-> ann]
RetryTries == [c \in Calls |-> IF c = chat THEN 2 ELSE 1]
Ceilings   == [c \in Calls |-> IF c = chat THEN 2 ELSE 1]
\* Above, at and below the one price of the run about money.
Spread     == [c \in Calls |-> CASE c = chat -> 3 [] c = review -> 2 [] OTHER -> 1]

\* Two accounts share the daily budget of the server; "chat" and "mine" are both ann's.
TwoOwners  == [c \in Calls |-> IF c = review THEN bob ELSE ann]
OneTry     == [c \in Calls |-> 1]
Signed     == {-2, 2}

Set(on, user, all) ==
  [callsEnabled |-> on, perUserDailyMicros |-> user, globalDailyMicros |-> all]
\* Calls are switched off and on under limits that never bind ...
OnAndOff   == {Set(TRUE, 9, 9), Set(FALSE, 9, 9)}
\* ... or the daily limits are lowered and raised.
Tight      == {Set(TRUE, 3, 4), Set(TRUE, 2, 3)}
NoTopUps   == {}
=============================================================================
