---------------------------- MODULE LetterPromise ---------------------------
(***************************************************************************)
(* What a correspondence promises: letters are read when they have been    *)
(* under way long enough, in the order in which they arrive; a letter that *)
(* was read gets one reply, which is under way as long as the letter was,  *)
(* counted from the arrival of the letter and not from the time at which   *)
(* the reply was written; a letter that cannot be read is given up openly. *)
(* There are no tasks, leases, processes, attempts or crashes here;        *)
(* Letters shows how the code keeps the promise in their presence.         *)
(*                                                                         *)
(* Times are relative to the present, as in Letters.                       *)
(***************************************************************************)
EXTENDS Integers

CONSTANTS
  Letters, Transits,
  Horizon      \* times older than this are not told apart

VARIABLES
  letter,      \* "draft", "in_transit", "given_up" or "read"
  transit,     \* how long the letter is under way
  arrival,     \* when it arrives, or arrived
  reply,       \* "none", "in_transit", "delivered_unread" or "read"
  return       \* when the reply arrives, or arrived

promiseVars == <<letter, transit, arrival, reply, return>>

Seal(l, d) ==
  /\ letter[l] = "draft"
  /\ letter' = [letter EXCEPT ![l] = "in_transit"]
  /\ transit' = [transit EXCEPT ![l] = d] /\ arrival' = [arrival EXCEPT ![l] = d]
  /\ UNCHANGED <<reply, return>>

\* No letter that is still to be read arrived earlier.
ComesFirst(l) == \A k \in Letters : letter[k] = "in_transit" => arrival[k] >= arrival[l]

Read(l) ==
  /\ letter[l] = "in_transit" /\ arrival[l] <= 0 /\ ComesFirst(l)
  /\ letter' = [letter EXCEPT ![l] = "read"]
  /\ UNCHANGED <<transit, arrival, reply, return>>

GiveUp(l) ==
  /\ letter[l] = "in_transit" /\ arrival[l] <= 0
  /\ letter' = [letter EXCEPT ![l] = "given_up"]
  /\ UNCHANGED <<transit, arrival, reply, return>>

Answer(l) ==
  /\ letter[l] = "read" /\ reply[l] = "none"
  /\ reply' = [reply EXCEPT ![l] = "in_transit"]
  /\ return' = [return EXCEPT ![l] = arrival[l] + transit[l]]
  /\ UNCHANGED <<letter, transit, arrival>>

Deliver(l) ==
  /\ reply[l] = "in_transit" /\ return[l] <= 0
  /\ reply' = [reply EXCEPT ![l] = "delivered_unread"]
  /\ UNCHANGED <<letter, transit, arrival, return>>

Open(l) ==
  /\ reply[l] = "delivered_unread"
  /\ reply' = [reply EXCEPT ![l] = "read"]
  /\ UNCHANGED <<letter, transit, arrival, return>>

Older(x) == IF x > -Horizon THEN x - 1 ELSE x

\* The clock.
Tick ==
  /\ arrival' = [l \in Letters |-> IF letter[l] = "draft" THEN arrival[l] ELSE Older(arrival[l])]
  /\ return' = [l \in Letters |-> IF reply[l] = "none" THEN return[l] ELSE Older(return[l])]
  /\ UNCHANGED <<letter, transit, reply>>

Init ==
  /\ letter = [l \in Letters |-> "draft"] /\ reply = [l \in Letters |-> "none"]
  /\ transit = [l \in Letters |-> 0]
  /\ arrival = [l \in Letters |-> 0] /\ return = [l \in Letters |-> 0]

Next ==
  \/ \E l \in Letters :
       \/ \E d \in Transits : Seal(l, d)
       \/ Read(l) \/ GiveUp(l) \/ Answer(l) \/ Deliver(l) \/ Open(l)
  \/ Tick

Spec == Init /\ [][Next]_promiseVars
=============================================================================
