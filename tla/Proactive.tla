------------------------------ MODULE Proactive ------------------------------
(***************************************************************************)
(* Messages the characters of one user send unasked, from the occasion to  *)
(* the message: services/proactive-task-repository.ts, proactive-task-     *)
(* service.ts, proactive-generation-service.ts and -repository.ts,         *)
(* conversation-activity-tracker.ts and features/proactive-delivery.ts,    *)
(* with PROACTIVE_MODE=on.                                                 *)
(*                                                                         *)
(* Every process scans the database in cycles, claims a task, lets the     *)
(* model write outside of every transaction and commits only if everything *)
(* it saw before still holds.  Meanwhile the user talks, in any process.   *)
(*                                                                         *)
(* Times are relative to the present: time left of what is to come, which  *)
(* a tick lowers as far as -Horizon; time passed of what has been.         *)
(***************************************************************************)
EXTENDS Integers, Sequences, FiniteSets

CONSTANTS
  Characters,
  Sources,       \* occasions: follow-ups and activity candidates
  Of,            \* the character of a source
  Processes,     \* server processes on the user's database
  Lifetime,      \* of a source, from its earliest time to its expiry
  Lease,         \* of a task, a run and a user's turn (30 minutes each)
  Window,        \* of the user's budget (24 hours)
  UserLimit,     \* messages within Window (4)
  Cooldown,      \* between any two messages to the user (30 minutes)
  MaxUnanswered, \* messages of one character without an answer (2)
  ActiveWindow,  \* a conversation counts as going on for so long (2 minutes)
  Delays,        \* until the next evaluation
  MaxAttempts,   \* of a task (64)
  MaxFailures,   \* failed executions of a task (3)
  Horizon,       \* bound: times further past are not told apart
  MaxTurns,      \* bound: turns of the user
  MaxCrashes     \* bound: crashes of processes

Turns == 1..MaxTurns

ASSUME ProactiveAssumption ==
  /\ Of \in [Sources -> Characters]
  /\ {Lifetime, Lease, UserLimit, MaxUnanswered, MaxAttempts, MaxFailures} \subseteq Nat \ {0}
  /\ {Window, Cooldown, ActiveWindow, Horizon, MaxTurns, MaxCrashes} \subseteq Nat
  /\ Cooldown <= Window /\ Delays \subseteq Nat \ {0}

VARIABLES
  source,   \* database: follow_up_intents, proactive_candidates and the decisions on them
  task,     \* database: temporal_tasks of the kinds proactive.*, one for a source
  run,      \* database: the last of proactive_generation_runs for a source
  sent,     \* database: the proactive messages, in the order of their commits
  turn,     \* database and memory: the user's turns
  spoke,    \* database: time for which the last chat message still counts as talk
  pass,     \* memory: the cycle of a process and the task it is at
  crashes

vars == <<source, task, run, sent, turn, spoke, pass, crashes>>
chat == <<turn, spoke>>

NoTask == [status |-> "none", due |-> 0, lease |-> 0, attempt |-> 0, failures |-> 0]
\* No run, or one that is over: committed, discarded or failed.
NoRun  == [status |-> "none", token |-> 0, age |-> 0, arrivals |-> 0, said |-> 0]
NoTurn == [stage |-> "none", by |-> "none", who |-> "none", lease |-> 0, said |-> FALSE]
Idle(observed) ==
  [stage |-> "idle", observed |-> observed, source |-> "none", token |-> 0, outcome |-> "none"]

-----------------------------------------------------------------------------
(* The user's side. *)

\* A source that is no longer pending; its expiry is of no use then.
Left(s, status) == [status |-> status, left |-> 0, declined |-> source[s].declined]

\* An occasion to write, at its earliest time.
Appear(s) ==
  /\ source[s].status = "unknown"
  /\ source' = [source EXCEPT ![s] =
       [status |-> "pending", left |-> Lifetime, declined |-> FALSE]]
  /\ UNCHANGED <<task, run, sent, chat, pass, crashes>>

arrivals == Cardinality({i \in Turns : turn[i].stage # "none"})
said     == Cardinality({i \in Turns : turn[i].said})

\* A request is counted before it waits for the character.
BeginTurn(p, c) ==
  /\ arrivals < MaxTurns
  /\ turn' = [turn EXCEPT ![arrivals + 1] =
       [stage |-> "open", by |-> p, who |-> c, lease |-> Lease, said |-> FALSE]]
  /\ UNCHANGED <<source, task, run, sent, spoke, pass, crashes>>

\* The turn is committed; what the user said may settle what the character meant to ask.
Say(i) ==
  /\ turn[i].stage = "open" /\ ~turn[i].said
  /\ turn' = [turn EXCEPT ![i].said = TRUE]
  /\ spoke' = ActiveWindow
  /\ sent' = [n \in DOMAIN sent |->
       [sent[n] EXCEPT !.answered = @ \/ Of[sent[n].source] = turn[i].who]]
  /\ \E settled \in SUBSET {s \in Sources : /\ Of[s] = turn[i].who
                                            /\ source[s].status \in {"pending", "sent"}} :
       source' = [s \in Sources |->
         IF s \in settled THEN Left(s, "resolved") ELSE source[s]]
  /\ UNCHANGED <<task, run, pass, crashes>>

Ended(i, lease) ==
  [stage |-> "over", by |-> "none", who |-> "none", lease |-> lease, said |-> turn[i].said]

EndTurn(i) ==
  /\ turn[i].stage = "open"
  /\ turn' = [turn EXCEPT ![i] = Ended(i, 0)]
  /\ UNCHANGED <<source, task, run, sent, spoke, pass, crashes>>

\* Mutant of Active: turns in other processes are not seen.
ActiveHere(p) == (\E i \in Turns : turn[i].stage = "open" /\ turn[i].by = p) \/ spoke > 0

\* A turn in the memory of this process, a leased one anywhere, or talk a moment ago.
Active(p) ==
  \/ \E i \in Turns : (turn[i].stage = "open" /\ turn[i].by = p) \/ turn[i].lease > 0
  \/ spoke > 0

-----------------------------------------------------------------------------
(* Claiming a task. *)

At(p, stage) == pass[p].stage = stage
S(p)         == pass[p].source
Owns(p)      == task[S(p)].status = "claimed" /\ task[S(p)].attempt = pass[p].token

\* synchronize: sources end at their expiry, and each that stands gets one task for ever.
Expired(at) == [s \in Sources |->
  IF source[s].status = "pending" /\ source[s].left <= at
  THEN Left(s, "expired") ELSE source[s]]

Standing(src, s) == src[s].status = "pending" /\ ~src[s].declined

Scheduled(src) == [s \in Sources |->
  IF Standing(src, s) /\ task[s].status = "none"
  THEN [NoTask EXCEPT !.status = "pending"] ELSE task[s]]

Due(t, at) ==
  \/ t.status \in {"pending", "retryable"} /\ t.due <= at
  \/ t.status = "claimed" /\ t.due <= at /\ t.lease <= at

\* What else a task held that is over is of no use.
Over(status) == [NoTask EXCEPT !.status = status]

\* A cycle reads the clock once, for all the tasks it comes to.
Clocks(p) == {0, -pass[p].observed}

\* Several tasks that are due are taken in any order.
Take(p, s) ==
  \E at \in Clocks(p) :
    LET tasks == Scheduled(Expired(at))
        claimed == [status |-> "claimed", due |-> tasks[s].due, lease |-> at + Lease,
                    attempt |-> tasks[s].attempt + 1, failures |-> tasks[s].failures]
    IN
    /\ At(p, "idle")
    /\ Due(tasks[s], at)
    /\ source' = Expired(at)
    /\ IF tasks[s].attempt < MaxAttempts /\ Standing(source', s)
       THEN /\ task' = [tasks EXCEPT ![s] = claimed]
            /\ pass' = [pass EXCEPT ![p] = [stage |-> "claimed", observed |-> -at, source |-> s,
                                             token |-> claimed.attempt, outcome |-> "none"]]
       ELSE \* the attempts are used up, or the occasion is over
            /\ task' = [tasks EXCEPT ![s] = Over("dead_letter")]
            /\ pass' = [pass EXCEPT ![p].observed = -at]
    /\ UNCHANGED <<run, sent, chat, crashes>>

\* Nothing is due; the cycle ends.
Rest(p) ==
  \E at \in Clocks(p) :
    LET tasks == Scheduled(Expired(at)) IN
    /\ At(p, "idle")
    /\ \A s \in Sources : ~Due(tasks[s], at)
    /\ source' = Expired(at) /\ task' = tasks
    /\ pass' = [pass EXCEPT ![p].observed = 0]
    /\ UNCHANGED <<run, sent, chat, crashes>>

-----------------------------------------------------------------------------
(* Before the model is asked: one transaction in the character's section. *)

Recovered(c) == [s \in Sources |->
  IF Of[s] = c /\ run[s].status = "generating" /\ run[s].age >= Lease
  THEN NoRun ELSE run[s]]
Writing(runs, c) == \E s \in Sources : Of[s] = c /\ runs[s].status = "generating"

Lapsed(c) == [s \in Sources |->
  IF Of[s] = c /\ source[s].status = "pending" /\ source[s].left <= 0
  THEN Left(s, "expired") ELSE source[s]]

Unanswered(c) == {n \in DOMAIN sent : Of[sent[n].source] = c /\ ~sent[n].answered}
Recent == {n \in DOMAIN sent : sent[n].ago <= Window}
Discussed(s) == \E n \in DOMAIN sent : sent[n].source = s

\* What the user is owed by all characters together, and by this one.
Quota(c) ==
  /\ Cardinality(Recent) < UserLimit
  /\ sent # <<>> => sent[Len(sent)].ago >= Cooldown
  /\ Cardinality(Unanswered(c)) < MaxUnanswered

Ends(p, outcome) ==
  pass' = [pass EXCEPT ![p].stage = "finish", ![p].outcome = outcome]

\* The character has no session, is not published, or the database fails.
NotReady(p) ==
  /\ At(p, "claimed")
  /\ \E outcome \in {"later", "gone", "failed"} : Ends(p, outcome)
  /\ UNCHANGED <<source, task, run, sent, chat, crashes>>

Ask(p) ==
  LET s == S(p) c == Of[S(p)] IN
  /\ At(p, "claimed")
  /\ ~Writing(Recovered(c), c)
  /\ source' = Lapsed(c)
  /\ Standing(source', s) /\ ~Discussed(s) /\ Quota(c) /\ ~Active(p)
  /\ run' = [Recovered(c) EXCEPT ![s] =
       [status |-> "generating", token |-> pass[p].token, age |-> 0,
        arrivals |-> arrivals, said |-> said]]
  /\ pass' = [pass EXCEPT ![p].stage = "compose"]
  /\ UNCHANGED <<task, sent, chat, crashes>>

\* Another run of the character, one of the checks of Ask, or a reason of the character's
\* own (quiet hours, closeness, its daily cap and cooldown), which may turn up any time.
Refuse(p) ==
  LET s == S(p) c == Of[S(p)] IN
  /\ At(p, "claimed")
  /\ run' = Recovered(c)
  /\ source' = IF Writing(Recovered(c), c) THEN source ELSE Lapsed(c)
  /\ Ends(p, IF Writing(Recovered(c), c) \/ Standing(source', s) THEN "later" ELSE "gone")
  /\ UNCHANGED <<task, sent, chat, crashes>>

-----------------------------------------------------------------------------
(* After the model has answered: one transaction in the character's section. *)

Mine(p) == run[S(p)].status = "generating" /\ run[S(p)].token = pass[p].token

\* Mutant of Stands: the occasion is not looked at again.
StoodBefore(p) == TRUE

Stands(p) ==
  /\ Mine(p) /\ run[S(p)].age < Lease
  /\ Standing(source, S(p)) /\ source[S(p)].left > 0 /\ ~Discussed(S(p))

\* Nobody came back while the model was writing.
Undisturbed(p) ==
  /\ run[S(p)].arrivals = arrivals /\ run[S(p)].said = said
  /\ ~Active(p)

\* Mutant of Send: the budget was checked before the model was asked.
SendUnchecked(p) ==
  LET s == S(p) IN
  /\ At(p, "compose") /\ Stands(p) /\ Undisturbed(p)
  /\ sent' = Append(sent, [source |-> s, ago |-> 0, answered |-> FALSE])
  /\ source' = [source EXCEPT ![s] = Left(s, "sent")]
  /\ run' = [run EXCEPT ![s] = NoRun]
  /\ Ends(p, "done")
  /\ UNCHANGED <<task, chat, crashes>>

Send(p) ==
  LET s == S(p) IN
  /\ At(p, "compose") /\ Stands(p) /\ Undisturbed(p) /\ Quota(Of[s])
  /\ sent' = Append(sent, [source |-> s, ago |-> 0, answered |-> FALSE])
  /\ source' = [source EXCEPT ![s] = Left(s, "sent")]
  /\ run' = [run EXCEPT ![s] = NoRun]
  /\ Ends(p, "done")
  /\ UNCHANGED <<task, chat, crashes>>

\* The model decides not to write, once for all.
Decline(p) ==
  LET s == S(p) IN
  /\ At(p, "compose") /\ Stands(p) /\ Undisturbed(p) /\ Quota(Of[s])
  /\ source' = [source EXCEPT ![s].declined = TRUE]
  /\ run' = [run EXCEPT ![s] = NoRun]
  /\ Ends(p, "done")
  /\ UNCHANGED <<task, sent, chat, crashes>>

\* The answer is thrown away, for one of the checks or a reason of the character's own, or
\* there is none.
Discard(p) ==
  /\ At(p, "compose")
  /\ run' = IF Mine(p) THEN [run EXCEPT ![S(p)] = NoRun] ELSE run
  /\ \E outcome \in {"later", "failed"} : Ends(p, outcome)
  /\ UNCHANGED <<source, task, sent, chat, crashes>>

-----------------------------------------------------------------------------
\* What becomes of a task after an outcome, when the next evaluation is d away.
Settled(t, outcome, d, left) ==
  LET failed == IF outcome = "failed" THEN 1 ELSE 0
      over == \/ outcome = "gone" \/ d >= left
              \/ t.attempt >= MaxAttempts \/ t.failures + failed >= MaxFailures
  IN IF outcome = "done" THEN Over("completed")
     ELSE IF over THEN Over("dead_letter")
     ELSE [status |-> "retryable", due |-> d, lease |-> 0, attempt |-> t.attempt,
           failures |-> t.failures + failed]

\* What the task of s has left of its time; of a source that is over it is not kept.
Remaining(s) == IF source[s].status = "pending" THEN {source[s].left} ELSE 0..Lifetime

\* Late work does not overwrite the schedule of the task's new owner.
Finish(p) ==
  LET s == S(p) IN
  /\ At(p, "finish")
  /\ IF Owns(p)
     THEN \E d \in Delays, left \in Remaining(s) :
            task' = [task EXCEPT ![s] = Settled(@, pass[p].outcome, d, left)]
     ELSE UNCHANGED task
  /\ pass' = [pass EXCEPT ![p] = Idle(pass[p].observed)]
  /\ UNCHANGED <<source, run, sent, chat, crashes>>

Older(x)    == IF x > -Horizon THEN x - 1 ELSE x
Past(x, n)  == IF x < n THEN x + 1 ELSE x

Tick ==
  /\ source' = [s \in Sources |->
       IF source[s].status = "pending" THEN [source[s] EXCEPT !.left = Older(@)] ELSE source[s]]
  /\ task' = [s \in Sources |->
       [task[s] EXCEPT !.due   = IF @ > -Horizon /\ task[s].status \notin
                                      {"none", "completed", "dead_letter"} THEN @ - 1 ELSE @,
                       !.lease = IF task[s].status = "claimed" THEN Older(@) ELSE @]]
  /\ run' = [s \in Sources |->
       IF run[s].status = "generating" THEN [run[s] EXCEPT !.age = Past(@, Lease)] ELSE run[s]]
  /\ sent' = [n \in DOMAIN sent |-> [sent[n] EXCEPT !.ago = Past(@, Window + 1)]]
  /\ turn' = [i \in Turns |-> [turn[i] EXCEPT !.lease = IF @ > 0 THEN @ - 1 ELSE 0]]
  /\ spoke' = IF spoke > 0 THEN spoke - 1 ELSE 0
  /\ pass' = [p \in Processes |->
       IF At(p, "idle") THEN pass[p] ELSE [pass[p] EXCEPT !.observed = Past(@, Horizon)]]
  /\ UNCHANGED crashes

\* The turns of a process die with it, but not their leases.
Crash(p) ==
  /\ crashes < MaxCrashes /\ crashes' = crashes + 1
  /\ pass' = [pass EXCEPT ![p] = Idle(0)]
  /\ turn' = [i \in Turns |->
       IF turn[i].by = p THEN Ended(i, turn[i].lease) ELSE turn[i]]
  /\ UNCHANGED <<source, task, run, sent, spoke>>

-----------------------------------------------------------------------------
Init ==
  /\ source = [s \in Sources |-> [status |-> "unknown", left |-> 0, declined |-> FALSE]]
  /\ task = [s \in Sources |-> NoTask] /\ run = [s \in Sources |-> NoRun]
  /\ sent = <<>> /\ turn = [i \in Turns |-> NoTurn] /\ spoke = 0
  /\ pass = [p \in Processes |-> Idle(0)] /\ crashes = 0

User ==
  \/ \E s \in Sources : Appear(s)
  \/ \E p \in Processes, c \in Characters : BeginTurn(p, c)
  \/ \E i \in Turns : Say(i) \/ EndTurn(i)

Step(p) ==
  \/ (\E s \in Sources : Take(p, s)) \/ Rest(p)
  \/ NotReady(p) \/ Ask(p) \/ Refuse(p)
  \/ Send(p) \/ Decline(p) \/ Discard(p)
  \/ Finish(p)

Next ==
  \/ User
  \/ \E p \in Processes : Step(p) \/ Crash(p)
  \/ Tick

Spec == Init /\ [][Next]_vars

-----------------------------------------------------------------------------
TypeOK ==
  /\ source \in [Sources ->
       [status : {"unknown", "pending", "sent", "resolved", "expired"},
        left : Int, declined : BOOLEAN]]
  /\ task \in [Sources ->
       [status : {"none", "pending", "claimed", "completed", "retryable", "dead_letter"},
        due : Int, lease : Int, attempt : 0..MaxAttempts, failures : 0..(MaxFailures - 1)]]
  /\ run \in [Sources ->
       [status : {"none", "generating"}, token : 0..MaxAttempts,
        age : 0..Lease, arrivals : 0..MaxTurns, said : 0..MaxTurns]]
  /\ sent \in Seq([source : Sources, ago : 0..(Window + 1), answered : BOOLEAN])
  /\ turn \in [Turns ->
       [stage : {"none", "open", "over"}, by : Processes \cup {"none"},
        who : Characters \cup {"none"}, lease : 0..Lease, said : BOOLEAN]]
  /\ spoke \in 0..ActiveWindow
  /\ pass \in [Processes ->
       [stage : {"idle", "claimed", "compose", "finish"}, observed : 0..Horizon,
        source : Sources \cup {"none"}, token : 0..MaxAttempts,
        outcome : {"none", "done", "later", "failed", "gone"}]]
  /\ crashes \in 0..MaxCrashes

\* The user is written to by all characters together at most so often within any window,
\* with a pause after every message, although characters write at the same time in several
\* processes.
QuotasHeld ==
  /\ Cardinality(Recent) <= UserLimit
  /\ \A n \in DOMAIN sent : n > 1 => sent[n - 1].ago - sent[n].ago >= Cooldown
                                     \/ sent[n - 1].ago > Window

\* An occasion is used for one message at most, and never after the user has settled it or
\* it has expired, whatever leases ran out and processes crashed in between.
SentOnce ==
  /\ [](\A m, n \in DOMAIN sent : sent[m].source = sent[n].source => m = n)
  /\ [][\A s \in Sources : source[s].status \in {"resolved", "expired"}
          => source'[s].status = source[s].status]_vars

\* A message never breaks into a turn of the user that any process is serving, as long as
\* the turn's lease lasts, and is written in view of all the user has said.
NeverInterrupts ==
  [][Len(sent') > Len(sent) =>
       /\ \A i \in Turns : turn[i].stage = "open" => turn[i].lease = 0
       /\ run[sent'[Len(sent')].source].said = said]_vars

\* When the model has decided not to write, it is not asked again.
DeclinedIsFinal ==
  [][\A s \in Sources : source[s].declined => run'[s].status # "generating"]_vars

\* A claim whose lease lasts is given up by its holder only: the late work of an earlier
\* holder touches neither the schedule nor the outcome.
ClaimsAreKept ==
  [][\A s \in Sources :
       task[s].status = "claimed" /\ task[s].lease > 0 /\ task'[s].status # "claimed"
         => \E p \in Processes : pass[p].stage = "finish" /\ pass[p].source = s
                                /\ pass[p].token = task[s].attempt]_vars
=============================================================================
