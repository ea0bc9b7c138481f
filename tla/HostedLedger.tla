---------------------------- MODULE HostedLedger ----------------------------
(***************************************************************************)
(* What the hosted billing promises of one physical model request: the     *)
(* money it may cost is frozen before it leaves, it leaves at most once,   *)
(* and the frozen money is either charged once or, if the request never    *)
(* left, given back.  An account can always pay what is frozen.  There are *)
(* no processes, crashes, databases or answers here; HostedBilling shows   *)
(* how the code keeps the promise in their presence.                       *)
(***************************************************************************)
EXTENDS Integers

CONSTANTS
  Users, Requests,
  PaidBy,      \* the account that pays for a request
  Limit,       \* the most a request freezes
  Opening      \* the balance an account starts with

VARIABLES
  hold,        \* "free", "held", "charged" or "returned"
  left,        \* the requests that have left the server
  price,       \* what was charged for a request
  funds        \* for each account its balance and the frozen part of it

ledgerVars == <<hold, left, price, funds>>

Solvent(u) == funds'[u].balance >= funds'[u].reserved

Freeze(q) ==
  /\ hold[q] = "free"
  /\ hold' = [hold EXCEPT ![q] = "held"]
  /\ funds' = [funds EXCEPT ![PaidBy[q]].reserved = @ + Limit[q]]
  /\ Solvent(PaidBy[q])
  /\ UNCHANGED <<left, price>>

Leave(q) ==
  /\ hold[q] = "held" /\ q \notin left
  /\ left' = left \cup {q}
  /\ UNCHANGED <<hold, price, funds>>

\* The price is settled when the money is taken, and is what leaves the account.
Charge(q) ==
  /\ hold[q] = "held"
  /\ hold' = [hold EXCEPT ![q] = "charged"]
  /\ price' = [price EXCEPT ![q] = price'[q]] /\ price'[q] >= 0
  /\ funds' = [funds EXCEPT ![PaidBy[q]] =
                 [balance |-> @.balance - price'[q], reserved |-> @.reserved - Limit[q]]]
  /\ Solvent(PaidBy[q])
  /\ UNCHANGED left

GiveBack(q) ==
  /\ hold[q] = "held" /\ q \notin left
  /\ hold' = [hold EXCEPT ![q] = "returned"]
  /\ funds' = [funds EXCEPT ![PaidBy[q]].reserved = @ - Limit[q]]
  /\ UNCHANGED <<left, price>>

Fund(u) ==
  /\ funds' = [funds EXCEPT ![u].balance = funds'[u].balance]
  /\ Solvent(u)
  /\ UNCHANGED <<hold, left, price>>

Init ==
  /\ hold = [q \in Requests |-> "free"]
  /\ left = {}
  /\ price = [q \in Requests |-> 0]
  /\ funds = [u \in Users |-> [balance |-> Opening, reserved |-> 0]]

Next ==
  \/ \E q \in Requests : Freeze(q) \/ Leave(q) \/ GiveBack(q) \/ Charge(q)
  \/ \E u \in Users : Fund(u)

Spec == Init /\ [][Next]_ledgerVars
=============================================================================
