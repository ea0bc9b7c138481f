----------------------------- MODULE ActorQueue -----------------------------
(***************************************************************************)
(* The queue of runtime/actor-queue.ts that serialises the work on one     *)
(* character: every call of runExclusive puts a promise at the tail of its *)
(* actor's chain and waits for the promise that was there before.          *)
(*                                                                         *)
(* A task is one call.  Its chained promise is named by the task itself:   *)
(* tails[a] is the task whose promise the map holds for a, or None.        *)
(*                                                                         *)
(* Whoever extends this module has a specification of its own besides, as  *)
(* HostedMaintenanceProofs does: hence QueueInit, QueueNext, QueueSpec.    *)
(***************************************************************************)
EXTENDS FiniteSets

CONSTANTS
  Actors,
  Tasks,      \* calls of runExclusive
  Of,         \* the actor of a task
  None

VARIABLES
  tails,      \* the map of promises
  behind,     \* the task whose promise a task waits for: previous
  stage,
  settled,    \* tasks whose chained promise is resolved
  before      \* history: the tasks of its actor that had come when a task came

queueVars == <<tails, behind, stage, settled, before>>

ASSUME QueueAssumption == Of \in [Tasks -> Actors] /\ None \notin Tasks

SetStage(t, s) == stage' = [stage EXCEPT ![t] = s]

\* Mutant of PreviousIsOver: a promise resolves when its task begins.
PreviousHasBegun(t) == behind[t] \in {None} \cup {s \in Tasks : stage[s] # "waiting"}

\* previous is a promise that resolves at once, or one of the chain.
PreviousIsOver(t) == behind[t] = None \/ behind[t] \in settled

-----------------------------------------------------------------------------
\* Mutant of Enter: the call awaits the promise it has just put at the tail.
AwaitsItself(t) ==
  /\ stage[t] = "idle" /\ SetStage(t, "waiting")
  /\ behind' = [behind EXCEPT ![t] = t]
  /\ tails' = [tails EXCEPT ![Of[t]] = t]
  /\ before' = [before EXCEPT ![t] = {s \in Tasks : Of[s] = Of[t] /\ stage[s] # "idle"}]
  /\ UNCHANGED settled

\* The call up to its await: it becomes the tail.
Enter(t) ==
  /\ stage[t] = "idle" /\ SetStage(t, "waiting")
  /\ behind' = [behind EXCEPT ![t] = tails[Of[t]]]
  /\ tails' = [tails EXCEPT ![Of[t]] = t]
  /\ before' = [before EXCEPT ![t] = {s \in Tasks : Of[s] = Of[t] /\ stage[s] # "idle"}]
  /\ UNCHANGED settled

Begin(t) ==
  /\ stage[t] = "waiting" /\ PreviousIsOver(t) /\ SetStage(t, "running")
  /\ UNCHANGED <<tails, behind, settled, before>>

\* The task returned or threw: its own promise is released, and the map forgets the
\* actor unless somebody came later.
End(t) ==
  /\ stage[t] = "running" /\ SetStage(t, "done")
  /\ tails' = IF tails[Of[t]] = t THEN [tails EXCEPT ![Of[t]] = None] ELSE tails
  /\ UNCHANGED <<behind, settled, before>>

\* The chained promise resolves in a later microtask than the release.
Settle(t) ==
  /\ stage[t] = "done" /\ t \notin settled /\ PreviousIsOver(t)
  /\ settled' = settled \cup {t}
  /\ UNCHANGED <<tails, behind, stage, before>>

-----------------------------------------------------------------------------
QueueInit ==
  /\ tails = [a \in Actors |-> None] /\ behind = [t \in Tasks |-> None]
  /\ stage = [t \in Tasks |-> "idle"] /\ settled = {}
  /\ before = [t \in Tasks |-> {}]

QueueNext == \E t \in Tasks : Enter(t) \/ Begin(t) \/ End(t) \/ Settle(t)

\* Promises that are due are run, and every task ends: it is synchronous, or what it
\* awaits has a timeout.  Nobody has to come.
Fairness == \A t \in Tasks : WF_queueVars(Begin(t) \/ End(t) \/ Settle(t))

QueueSpec == QueueInit /\ [][QueueNext]_queueVars /\ Fairness

-----------------------------------------------------------------------------
QueueTypeOK ==
  /\ tails \in [Actors -> Tasks \cup {None}]
  /\ behind \in [Tasks -> Tasks \cup {None}]
  /\ stage \in [Tasks -> {"idle", "waiting", "running", "done"}]
  /\ settled \subseteq Tasks
  /\ before \in [Tasks -> SUBSET Tasks]

\* A task starts only when every task of its actor that came before it is done, also
\* when the map had forgotten the actor in between.
ServedInOrder ==
  \A t \in Tasks : stage[t] \in {"running", "done"} =>
    \A s \in before[t] : stage[s] = "done"

\* At most one task of an actor is inside its section.
OneAtATime ==
  \A s, t \in Tasks :
    Of[s] = Of[t] /\ stage[s] = "running" /\ stage[t] = "running" => s = t

\* activeActors counts exactly the actors with work to do: a backup reads 0 there as
\* the sign that no task waits or runs.
CountedWhileBusy ==
  \A a \in Actors :
    tails[a] # None <=> \E t \in Tasks : Of[t] = a /\ stage[t] \in {"waiting", "running"}

\* Every task that came is run and ends.
EveryTaskEnds == \A t \in Tasks : stage[t] = "waiting" ~> stage[t] = "done"
=============================================================================
