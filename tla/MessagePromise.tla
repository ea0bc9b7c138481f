--------------------------- MODULE MessagePromise ---------------------------
(***************************************************************************)
(* What the server promises of a chat message, however often the client    *)
(* sends it: the message stands for the input it first came with, it is    *)
(* decided once, by a reply to that input or by a refusal, and every       *)
(* client is told of that reply and of no other.  There are no requests,   *)
(* databases, model calls, failures or restarts here; HostedOperations     *)
(* shows how the code keeps the promise in their presence.                 *)
(***************************************************************************)
CONSTANTS
  Messages, Inputs, Replies,
  None,        \* no input yet
  NoTurn       \* no reply yet

VARIABLES
  input,       \* the input a message stands for
  turn,        \* the reply to a message, with the input it replies to
  verdict,     \* "open", "answered" or "refused"
  told         \* what clients were told: message, input, reply

promiseVars == <<input, turn, verdict, told>>

Undecided(m) == turn[m] = NoTurn /\ verdict[m] = "open"

Take(m, i) ==
  /\ input[m] = None
  /\ input' = [input EXCEPT ![m] = i]
  /\ UNCHANGED <<turn, verdict, told>>

Decide(m, a) ==
  /\ input[m] # None /\ Undecided(m)
  /\ turn' = [turn EXCEPT ![m] = [input |-> input[m], answer |-> a]]
  /\ UNCHANGED <<input, verdict, told>>

Refuse(m) ==
  /\ input[m] # None /\ Undecided(m)
  /\ verdict' = [verdict EXCEPT ![m] = "refused"]
  /\ UNCHANGED <<input, turn, told>>

\* A client is told, for the first time or again.
Tell(m) ==
  /\ turn[m] # NoTurn
  /\ verdict' = [verdict EXCEPT ![m] = "answered"]
  /\ told' = told \cup {<<m, turn[m].input, turn[m].answer>>}
  /\ UNCHANGED <<input, turn>>

Init ==
  /\ input = [m \in Messages |-> None]
  /\ turn = [m \in Messages |-> NoTurn]
  /\ verdict = [m \in Messages |-> "open"]
  /\ told = {}

Next ==
  \E m \in Messages :
    \/ \E i \in Inputs : Take(m, i)
    \/ \E a \in Replies : Decide(m, a)
    \/ Refuse(m) \/ Tell(m)

Spec == Init /\ [][Next]_promiseVars
=============================================================================
