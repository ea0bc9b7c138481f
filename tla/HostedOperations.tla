-------------------------- MODULE HostedOperations --------------------------
(***************************************************************************)
(* A chat message and the operation that answers it, across repetitions,   *)
(* failures and restarts: hosted/business-http.ts, the operation rows of   *)
(* hosted/control-store.ts, and the turn of services/conversation-         *)
(* service.ts and services/turn-commit-service.ts.                         *)
(*                                                                         *)
(* Three databases are written one after the other: the answer that was    *)
(* paid for (research and control databases, see HostedBilling), the turn  *)
(* (database of the account), the response (control database).  Messages   *)
(* are the clientMessageIds of one session; all handlers share one section *)
(* of the character queue (see ActorQueue), which runs one at a time.      *)
(*                                                                         *)
(* The model calls of a turn are one answer: "good", or "bad" if the reply *)
(* made of it will be found incomplete; "fallback" is the reply without    *)
(* one.                                                                    *)
(***************************************************************************)
EXTENDS Naturals

CONSTANTS
  Requests,     \* HTTP requests under way
  Messages,     \* client message identifiers
  Inputs,       \* texts and model selections
  None,
  MaxFaults,    \* bound: failures of a database or of the catch-up
  MaxCrashes    \* bound: restarts

ASSUME OperationAssumption ==
  /\ None \notin Messages \cup Inputs
  /\ MaxFaults \in Nat /\ MaxCrashes \in Nat

VARIABLES
  op,           \* control database: operations
  saved,        \* control and research databases: the settled answer
  turn,         \* database of the account: the messages of a turn
  live,         \* memory: liveOperations
  at,           \* memory: where a request is
  told,         \* history: the turns clients were told of
  faults, crashes

databases == <<op, saved, turn>>
vars      == <<databases, live, at, told, faults, crashes>>

Answers == {"good", "bad"}
NoOp    == [status |-> "none", input |-> None, result |-> "none"]
NoTurn  == [input |-> None, answer |-> "none"]
Gone    == [stage |-> "idle", msg |-> None, input |-> None, result |-> "none"]

Stages == {"idle", "waiting", "thinking", "answered", "committed", "replying"}
Busy   == {r \in Requests : at[r].stage # "idle"}
M(r)   == at[r].msg

Inside(r)    == at[r].stage \in {"thinking", "answered", "committed"}
SectionFree  == \A r \in Requests : ~Inside(r)
HasTurn(m)   == turn[m] # NoTurn

\* r goes on to stage s with what it will answer.
Goes(r, s, result) ==
  at' = [at EXCEPT ![r] = [stage |-> s, msg |-> M(r), input |-> at[r].input,
                           result |-> result]]

-----------------------------------------------------------------------------
\* beginOperation(): a known identifier must come with the input it came with first.
SameInput(m, i) == op[m].status = "none" \/ op[m].input = i

\* Mutant of Handles: liveOperations is not asked.
HandlesTwice(m) == op[m].status \in {"none", "running"}

\* Mutant of Handles: a message that was refused is handled anew.
HandlesAgain(m) == op[m].status \in {"none", "running", "failed"} /\ m \notin live

\* The request is handled, and neither answered from the row nor turned away with 409.
Handles(m) == op[m].status \in {"none", "running"} /\ m \notin live

Begin(r, m, i) ==
  /\ at[r] = Gone /\ SameInput(m, i) /\ Handles(m)
  /\ op' = [op EXCEPT ![m] = [status |-> "running", input |-> i, result |-> "none"]]
  /\ live' = live \cup {m}
  /\ at' = [at EXCEPT ![r] = [stage |-> "waiting", msg |-> m, input |-> i,
                              result |-> "none"]]
  /\ UNCHANGED <<saved, turn, told, faults, crashes>>

\* Mutant of Repeat: the input is not compared with that of the row.
RepeatAnyInput(r, m, i) ==
  /\ at[r] = Gone /\ op[m].status \in {"completed", "failed"}
  /\ told' = IF op[m].status = "completed" THEN told \cup {<<m, i, op[m].result>>} ELSE told
  /\ UNCHANGED <<databases, live, at, faults, crashes>>

\* An operation that has ended is answered from its row.
Repeat(r, m, i) ==
  /\ at[r] = Gone /\ SameInput(m, i) /\ op[m].status \in {"completed", "failed"}
  /\ told' = IF op[m].status = "completed" THEN told \cup {<<m, i, op[m].result>>} ELSE told
  /\ UNCHANGED <<databases, live, at, faults, crashes>>

\* chat() in the section of the character: a stored turn is replayed.
Enter(r) ==
  /\ at[r].stage = "waiting" /\ SectionFree
  /\ IF HasTurn(M(r)) THEN Goes(r, "replying", turn[M(r)].answer)
                      ELSE Goes(r, "thinking", "none")
  /\ UNCHANGED <<databases, live, told, faults, crashes>>

\* The model calls of the turn: a saved answer is taken again, whatever the prompt is
\* now; otherwise the provider answers, and the answer is saved.
Think(r) ==
  /\ at[r].stage = "thinking"
  /\ \E a \in Answers :
       /\ saved[M(r)] \in {"none", a}
       /\ saved' = [saved EXCEPT ![M(r)] = a]
       /\ Goes(r, "answered", a)
  /\ UNCHANGED <<op, turn, live, told, faults, crashes>>

\* The call was refused or failed: the turn goes on with a reply of its own.
FallBack(r) ==
  /\ at[r].stage = "thinking" /\ saved[M(r)] = "none"
  /\ Goes(r, "answered", "fallback")
  /\ UNCHANGED <<databases, live, told, faults, crashes>>

\* commit(): the transaction writes both messages, unless the turn is there already.
Commit(r) ==
  /\ at[r].stage = "answered" /\ at[r].result # "bad"
  /\ IF HasTurn(M(r))
       THEN Goes(r, "replying", turn[M(r)].answer) /\ UNCHANGED turn
       ELSE /\ turn' = [turn EXCEPT ![M(r)] = [input |-> at[r].input, answer |-> at[r].result]]
            /\ Goes(r, "committed", at[r].result)
  /\ UNCHANGED <<op, saved, live, told, faults, crashes>>

\* Diagnostics and continuity follow, whose failures are swallowed; the section is left.
Leave(r) ==
  /\ at[r].stage = "committed"
  /\ Goes(r, "replying", at[r].result)
  /\ UNCHANGED <<databases, live, told, faults, crashes>>

\* An error of status 4xx: bad input, an unpublished character, changed sources.
Reject(r) ==
  /\ at[r].stage \in {"waiting", "thinking", "answered"} /\ ~HasTurn(M(r))
  /\ Goes(r, "replying", "rejected")
  /\ UNCHANGED <<databases, live, told, faults, crashes>>

\* The reply is incomplete, or misses its goal: a 502, which leaves the server as 500.
Incomplete(r) ==
  /\ at[r].stage = "answered" /\ at[r].result \in {"bad", "fallback"}
  /\ Goes(r, "replying", "broken")
  /\ UNCHANGED <<databases, live, told, faults, crashes>>

\* Anything else that is thrown, at any await, is a 500.
Break(r) ==
  /\ at[r].stage \in {"waiting", "thinking", "answered", "committed"}
  /\ faults < MaxFaults /\ faults' = faults + 1
  /\ Goes(r, "replying", "broken")
  /\ UNCHANGED <<databases, live, told, crashes>>

-----------------------------------------------------------------------------
\* The hook onSend(): the request is no longer live, and its operation is finished, if
\* it still runs.
Ends(r) ==
  /\ at[r].stage = "replying"
  /\ live' = live \ {M(r)}
  /\ at' = [at EXCEPT ![r] = Gone]
  /\ UNCHANGED <<saved, turn, crashes>>

Finish(m, status, result) ==
  op' = IF op[m].status = "running"
          THEN [op EXCEPT ![m].status = status, ![m].result = result] ELSE op

\* Mutant of Answered: a 500 completes the operation too.
AnsweredAnyhow(r) ==
  /\ at[r].result # "rejected" /\ Ends(r)
  /\ Finish(M(r), "completed", at[r].result)
  /\ told' = told \cup {<<M(r), at[r].input, at[r].result>>}
  /\ UNCHANGED faults

\* The response is stored, and the client gets it.
Answered(r) ==
  /\ at[r].result \notin {"rejected", "broken"} /\ Ends(r)
  /\ Finish(M(r), "completed", at[r].result)
  /\ told' = told \cup {<<M(r), at[r].input, at[r].result>>}
  /\ UNCHANGED faults

Rejected(r) ==
  /\ at[r].result = "rejected" /\ Ends(r)
  /\ Finish(M(r), "failed", "none")
  /\ UNCHANGED <<told, faults>>

\* Mutant of Broken: the identifier stays among the live ones.
BrokenStaysLive(r) ==
  /\ at[r].stage = "replying" /\ at[r].result = "broken"
  /\ at' = [at EXCEPT ![r] = Gone]
  /\ UNCHANGED <<databases, live, told, faults, crashes>>

\* A 500 keeps the operation recoverable.
Broken(r) ==
  /\ at[r].result = "broken" /\ Ends(r)
  /\ UNCHANGED <<op, told, faults>>

\* The row cannot be written; the client gets a 500 instead.
Unstored(r) ==
  /\ at[r].result # "broken" /\ faults < MaxFaults /\ Ends(r)
  /\ faults' = faults + 1
  /\ UNCHANGED <<op, told>>

Crash ==
  /\ crashes < MaxCrashes /\ crashes' = crashes + 1
  /\ live' = {} /\ at' = [r \in Requests |-> Gone]
  /\ UNCHANGED <<databases, told, faults>>

-----------------------------------------------------------------------------
Init ==
  /\ op = [m \in Messages |-> NoOp] /\ saved = [m \in Messages |-> "none"]
  /\ turn = [m \in Messages |-> NoTurn]
  /\ live = {} /\ at = [r \in Requests |-> Gone]
  /\ told = {} /\ faults = 0 /\ crashes = 0

Reply(r) == Answered(r) \/ Rejected(r) \/ Broken(r) \/ Unstored(r)

Progress(r) ==
  \/ Enter(r) \/ Think(r) \/ FallBack(r) \/ Commit(r) \/ Leave(r)
  \/ Reject(r) \/ Incomplete(r) \/ Break(r) \/ Reply(r)

Next ==
  \/ \E r \in Requests :
       \/ \E m \in Messages, i \in Inputs : Begin(r, m, i) \/ Repeat(r, m, i)
       \/ Progress(r)
  \/ Crash

Spec == Init /\ [][Next]_vars

\* A client that got no answer repeats its request under the same identifier.
Insists(m) ==
  /\ op[m].status = "running"
  /\ \E r \in Requests : Begin(r, m, op[m].input)

\* The handlers go on (the section is given in order of arrival, see ActorQueue), and
\* clients insist.
Fairness ==
  /\ \A r \in Requests : SF_vars(Progress(r))
  /\ \A m \in Messages : SF_vars(Insists(m))

FairSpec == Spec /\ Fairness

-----------------------------------------------------------------------------
\* Replies are complete: what is committed, stored or told is never "bad".
Replies == {"good", "fallback"}

TypeOK ==
  /\ op \in [Messages -> [status : {"none", "running", "completed", "failed"},
                           input : Inputs \cup {None}, result : Replies \cup {"none"}]]
  /\ saved \in [Messages -> Answers \cup {"none"}]
  /\ turn \in [Messages -> [input : Inputs \cup {None}, answer : Replies \cup {"none"}]]
  /\ live \subseteq Messages
  /\ at \in [Requests -> [stage : Stages, msg : Messages \cup {None},
                           input : Inputs \cup {None},
                           result : Replies \cup {"none", "bad", "rejected", "broken"}]]
  /\ told \subseteq Messages \X Inputs \X Replies
  /\ faults \in 0..MaxFaults /\ crashes \in 0..MaxCrashes

\* A message is handled by one request at a time, however often it is repeated, and is
\* live exactly while one handles it: no repetition is turned away for ever.
OneHandler ==
  /\ \A r, s \in Busy : M(r) = M(s) => r = s
  /\ live = {M(r) : r \in Busy}

\* A turn that a client was told of is in the database of the account, for the input
\* that this client sent, after any failure and restart.
ToldIsStored ==
  \A t \in told : turn[t[1]] = [input |-> t[2], answer |-> t[3]]

\* Three databases agree although they are written one after the other: a completed
\* operation has its turn, a failed one has none, and a turn was made of the answer that
\* was paid for, if there is one.
RowsAgree ==
  \A m \in Messages :
    /\ op[m].status = "completed" => turn[m] = [input |-> op[m].input, answer |-> op[m].result]
    /\ op[m].status = "failed" => ~HasTurn(m)
    /\ HasTurn(m) => turn[m].answer = saved[m] \/ saved[m] = "none"

\* An answer that was paid for, and whose reply is complete, is not lost: the operation
\* is completed or rejected, if the client insists.
PaidIsResolved ==
  \A m \in Messages :
    saved[m] = "good" ~> op[m].status \in {"completed", "failed"}

-----------------------------------------------------------------------------
\* HostedOperations implements MessagePromise: the input of a message is in its operation
\* row, its reply is its turn, and the verdict is the status of the row.
InputOf   == [m \in Messages |-> op[m].input]
VerdictOf == [m \in Messages |-> IF op[m].status = "completed" THEN "answered"
                                 ELSE IF op[m].status = "failed" THEN "refused" ELSE "open"]

Promise == INSTANCE MessagePromise WITH input <- InputOf, verdict <- VerdictOf

\* Through repetitions, failures and restarts a message has one input, one reply and one
\* end, and a client that is told anything is told of that reply.
PromiseSpec == Promise!Spec
=============================================================================
