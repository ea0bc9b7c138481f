------------------------------ MODULE Letters ------------------------------
(***************************************************************************)
(* The letters between a user and one character, from the seal to the      *)
(* opened reply: repositories/correspondence-repository.ts,                *)
(* services/temporal-catch-up-service.ts, services/letter-reply-           *)
(* generation-service.ts and services/correspondence-snapshot-service.ts.  *)
(*                                                                         *)
(* A letter lives in three tables: its row, the temporal tasks that move   *)
(* it (its arrival, the writing of the reply, the arrival of the reply)    *)
(* and the runs of the model.  Passes of several server processes work on  *)
(* the tasks in the order of their due times, one database transaction at  *)
(* a time; a claim on a task is a token and a lease.                       *)
(*                                                                         *)
(* Times are kept relative to the present, which is 0: a tick of the clock *)
(* moves every stored time one unit into the past, as far as Horizon.      *)
(***************************************************************************)
EXTENDS Integers, FiniteSets

CONSTANTS
  Letters,      \* letters of the user
  Processes,    \* server processes on one database
  Transits,     \* days under way: 0 (email) or the fixed transit
  MaxAttempts,  \* attempts of a task, and of a run (3)
  Lease,        \* CORRESPONDENCE_GENERATION_LEASE_MS
  Backoff,      \* delay of the n-th retry
  Horizon,      \* bound: times older than this are not told apart
  MaxEpoch,     \* bound: retries by the user
  MaxCrashes    \* bound: crashes of processes

Attempts == 1..MaxAttempts

ASSUME LettersAssumption ==
  /\ MaxAttempts \in Nat \ {0} /\ Lease \in Nat \ {0}
  /\ Transits \subseteq Nat /\ Backoff \in [Attempts -> Nat \ {0}]
  /\ Horizon \in Nat /\ \A d \in Transits : d <= Horizon
  /\ MaxEpoch \in Nat /\ MaxCrashes \in Nat

Epochs == 0..MaxEpoch

\* Tasks: what is done, for which letter, and the generation epoch.
Out(l)    == <<"outbound", l, 0>>
Gen(l, e) == <<"generation", l, e>>
Back(l)   == <<"return", l, 0>>
Tasks ==
  {Out(l) : l \in Letters} \cup {Back(l) : l \in Letters}
    \cup {Gen(l, e) : l \in Letters, e \in Epochs}
Kind(t)  == t[1]
Of(t)    == t[2]
Epoch(t) == t[3]

Priority == [outbound |-> 10, generation |-> 20, return |-> 30]

VARIABLES
  letter,       \* database: status of the user's letter
  transit,      \* database: its delivery method
  reply,        \* database: status of the reply
  task,         \* database: temporal_tasks
  run,          \* database: letter_generation_runs
  outrun,       \* database: the runtime state is newer than the letter's due time
  pass,         \* memory: the pass of a process, or its chat turn
  crashes

vars == <<letter, transit, reply, task, run, outrun, pass, crashes>>
rows == <<letter, transit, reply, outrun>>

NoTask == [status |-> "none", due |-> 0, attempt |-> 0, lease |-> 0]
NoRun  == [status |-> "none", attempt |-> 0, token |-> 0, lease |-> 0]
\* A pass as of a time, without a task.
Fresh(stage, observed) ==
  [stage |-> stage, observed |-> observed, task |-> <<>>, token |-> 0,
   result |-> "none", delay |-> 0]
Idle == Fresh("idle", 0)

NewTask(due) == [status |-> "pending", due |-> due, attempt |-> 0, lease |-> 0]
\* A task that leaves its claim with status s.
Left(t, s, due) == [status |-> s, due |-> due, attempt |-> task[t].attempt, lease |-> 0]

Waiting(t) == task[t].status \in {"pending", "retryable"}
Open(t)    == Waiting(t) \/ task[t].status = "claimed"
Settled(t) == task[t].status \in {"completed", "dead_letter"}
RunId(t)   == <<Of(t), Epoch(t)>>
RunOf(t)   == run[RunId(t)]
Answered(l) == \E e \in Epochs : run[<<l, e>>].status = "committed"

-----------------------------------------------------------------------------
\* What a pass p is about to do, and with what.
At(p, stage)  == pass[p].stage = stage
T(p)          == pass[p].task
Seen(p)       == pass[p].observed
Owns(p)       == task[T(p)].status = "claimed" /\ task[T(p)].attempt = pass[p].token
Goes(p, stage) == pass' = [pass EXCEPT ![p].stage = stage]
Ends(p)       == pass' = [pass EXCEPT ![p] = Idle]
Again(p)      == pass' = [pass EXCEPT ![p] = Fresh("find", Seen(p))]

Seal(l, d) ==
  /\ letter[l] = "draft"
  /\ letter' = [letter EXCEPT ![l] = "in_transit"]
  /\ transit' = [transit EXCEPT ![l] = d]
  /\ task' = [task EXCEPT ![Out(l)] = NewTask(d)]
  /\ UNCHANGED <<reply, run, outrun, pass, crashes>>

\* A pass of the scheduler or of an entry point.
Begin(p) ==
  /\ At(p, "idle")
  /\ pass' = [pass EXCEPT ![p] = Fresh("find", 0)]
  /\ UNCHANGED <<rows, task, run, crashes>>

Candidates(p) == {t \in Tasks : Open(t) /\ task[t].due <= Seen(p)}

\* Mutant of Before: the latest task first.
LatestFirst(t, u) == task[t].due >= task[u].due

\* The order of effective time; times at the horizon are not told apart.
Before(t, u) ==
  \/ task[t].due < task[u].due
  \/ /\ task[t].due = task[u].due
     /\ (task[t].due = -Horizon \/ Priority[Kind(t)] <= Priority[Kind(u)])
Heads(p) == {t \in Candidates(p) : \A u \in Candidates(p) : Before(t, u)}

Leased(t, at) == task[t].status = "claimed" /\ task[t].lease > at

Find(p) ==
  /\ At(p, "find")
  /\ \E t \in Heads(p) :
       ~Leased(t, Seen(p)) /\ pass' = [pass EXCEPT ![p].stage = "claim", ![p].task = t]
  /\ UNCHANGED <<rows, task, run, crashes>>

\* Nothing is due, or the head of the queue is another's: the pass ends here, and if it
\* was made for a message to the character, the turn begins, as of the present.
Rest(p) ==
  /\ At(p, "find")
  /\ Candidates(p) = {} \/ \E t \in Heads(p) : Leased(t, Seen(p))
  /\ Ends(p) \/ pass' = [pass EXCEPT ![p] = Fresh("chat", 0)]
  /\ UNCHANGED <<rows, task, run, crashes>>

\* The turn advances the runtime state to the time it began.
Chat(p) ==
  /\ At(p, "chat")
  /\ outrun' = [l \in Letters |-> \/ outrun[l]
                                  \/ (letter[l] = "in_transit" /\ task[Out(l)].due < Seen(p))]
  /\ Ends(p)
  /\ UNCHANGED <<letter, transit, reply, task, run, crashes>>

-----------------------------------------------------------------------------
\* Mutant of Free: an expired lease is not taken over.
StaysClaimed(t, at) == Waiting(t)

Free(t, at) == Waiting(t) \/ (task[t].status = "claimed" /\ task[t].lease <= at)

Claim(p) ==
  LET t == T(p) IN
  /\ At(p, "claim")
  /\ Free(t, Seen(p)) /\ task[t].due <= Seen(p) /\ task[t].attempt < MaxAttempts
  /\ task' = [task EXCEPT ![t] = [status |-> "claimed", due |-> @.due,
                                  attempt |-> @.attempt + 1, lease |-> Seen(p) + Lease]]
  /\ pass' = [pass EXCEPT ![p].stage = "work", ![p].token = task[t].attempt + 1]
  /\ UNCHANGED <<rows, run, crashes>>

Spent(r, at) == r.status = "generating" /\ r.attempt >= MaxAttempts /\ r.lease <= at

\* A row r that leaves its claim with status s.
Closed(r, s) == [status |-> s, attempt |-> r.attempt, token |-> 0, lease |-> 0]

\* The last attempt was lost with its owner.
Sweep(p) ==
  LET t == T(p) IN
  /\ At(p, "claim")
  /\ Free(t, Seen(p)) /\ task[t].due <= Seen(p) /\ task[t].attempt >= MaxAttempts
  /\ task' = [task EXCEPT ![t] = Left(t, "dead_letter", @.due)]
  /\ run' = [x \in DOMAIN run |->
               IF Kind(t) = "generation" /\ x[1] = Of(t) /\ Spent(run[x], Seen(p))
               THEN Closed(run[x], "failed")
               ELSE run[x]]
  /\ Again(p)
  /\ UNCHANGED <<rows, crashes>>

Raced(p) ==
  /\ At(p, "claim") /\ ~(Free(T(p), Seen(p)) /\ task[T(p)].due <= Seen(p))
  /\ Again(p)
  /\ UNCHANGED <<rows, task, run, crashes>>

-----------------------------------------------------------------------------
\* One transaction: the letter arrives and is read, the snapshot is frozen, the reply is
\* ordered.
Arrive(p) ==
  LET t == T(p) l == Of(T(p)) IN
  /\ At(p, "work") /\ Kind(t) = "outbound"
  /\ letter[l] = "read" \/ ~outrun[l]
  /\ Owns(p) \/ task[t].status = "completed"
  /\ letter' = [letter EXCEPT ![l] = "read"]
  /\ task' = [task EXCEPT
       ![t] = Left(t, "completed", @.due),
       ![Gen(l, 0)] = IF @.status = "none" THEN NewTask(task[t].due) ELSE @]
  /\ Again(p)
  /\ UNCHANGED <<transit, reply, run, outrun, crashes>>

ReplyArrives(p) ==
  LET l == Of(T(p)) IN
  /\ At(p, "work") /\ Kind(T(p)) = "return"
  /\ reply' = [reply EXCEPT ![l] = IF @ = "in_transit" THEN "delivered_unread" ELSE @]
  /\ Goes(p, "finish")
  /\ UNCHANGED <<letter, transit, task, run, outrun, crashes>>

\* An arrival that throws is retried at the same due time.
ArrivalFails(p) ==
  /\ At(p, "work") /\ Kind(T(p)) \in {"outbound", "return"}
  /\ pass' = [pass EXCEPT ![p].stage = "retry", ![p].result = "retryable"]
  /\ UNCHANGED <<rows, task, run, crashes>>

-----------------------------------------------------------------------------
Refused(p, result, delay) ==
  pass' = [pass EXCEPT ![p].stage = "retry", ![p].result = result, ![p].delay = delay]

\* Preflight throws before it claims a run: the model cannot be selected, or the letter
\* or its snapshot are damaged.
CannotStart(p) ==
  /\ At(p, "work") /\ Kind(T(p)) = "generation"
  /\ \E result \in {"retryable", "final"} : Refused(p, result, Backoff[1])
  /\ UNCHANGED <<rows, task, run, crashes>>

\* claimGenerationRun, for the claim of the task.
Takes(p) ==
  LET r == RunOf(T(p)) IN
  /\ ~Answered(Of(T(p)))
  /\ \/ r.status \in {"none", "retryable"}
     \/ r.status = "generating" /\ r.lease <= Seen(p) /\ ~Spent(r, Seen(p))

Preflight(p) ==
  LET t == T(p) IN
  /\ At(p, "work") /\ Kind(t) = "generation"
  /\ Takes(p)
  /\ run' = [run EXCEPT ![RunId(t)] =
               [status |-> "generating", attempt |-> @.attempt + 1, token |-> pass[p].token,
                lease |-> Seen(p) + Lease]]
  /\ Goes(p, "compose")
  /\ UNCHANGED <<rows, task, crashes>>

\* The run failed for good, or another claim still owns it: then no attempt is wasted
\* before its lease ends.
RunUnavailable(p) ==
  LET r == RunOf(T(p)) IN
  /\ At(p, "work") /\ Kind(T(p)) = "generation"
  /\ ~Answered(Of(T(p))) /\ ~Takes(p)
  /\ IF r.status = "generating" /\ ~Spent(r, Seen(p))
     THEN Refused(p, "retryable", r.lease - Seen(p) + 1) /\ UNCHANGED run
     ELSE /\ Refused(p, "final", 0)
          /\ run' = [run EXCEPT ![RunId(T(p))] = Closed(@, "failed")]
  /\ UNCHANGED <<rows, task, crashes>>


\* The model is called outside every section and transaction; meanwhile the claim of the run
\* may be lost.
Current(p) == RunOf(T(p)).status = "generating" /\ RunOf(T(p)).token = pass[p].token

\* Mutant of ReturnDue: the reply is under way from the time at which it is written.
ReturnFromNow(l) == transit[l]

\* The reply is under way as long as the letter was, from the arrival of the letter.
ReturnDue(l) == task[Out(l)].due + transit[l]

\* One transaction: the reply is written as of the arrival of the letter, and its own
\* arrival is scheduled from there.
Commit(p) ==
  LET l == Of(T(p)) IN
  /\ At(p, "compose") /\ Current(p) /\ Seen(p) <= RunOf(T(p)).lease
  /\ letter[l] = "read" /\ reply[l] = "none"
  /\ reply' = [reply EXCEPT ![l] = "in_transit"]
  /\ task' = [task EXCEPT ![Back(l)] = NewTask(ReturnDue(l))]
  /\ run' = [run EXCEPT ![RunId(T(p))] = Closed(@, "committed")]
  /\ Goes(p, "finish")
  /\ UNCHANGED <<letter, transit, outrun, crashes>>

\* Mutant of FailRun: a late failure counts although the claim was lost.
FailsLate(p) ==
  LET r == RunOf(T(p)) IN
  /\ At(p, "compose")
  /\ \E result \in {"retryable", "final"} :
       /\ run' = [run EXCEPT ![RunId(T(p))] =
                    Closed(@, IF result = "final" \/ r.attempt >= MaxAttempts
                              THEN "failed" ELSE "retryable")]
       /\ Refused(p, result, Backoff[r.attempt])
  /\ UNCHANGED <<rows, task, crashes>>

\* The model failed, or its reply cannot be encrypted or committed.
FailRun(p) ==
  LET r == RunOf(T(p)) IN
  /\ At(p, "compose") /\ Current(p)
  /\ \E result \in {"retryable", "final"} :
       /\ run' = [run EXCEPT ![RunId(T(p))] =
                    Closed(@, IF result = "final" \/ r.attempt >= MaxAttempts
                              THEN "failed" ELSE "retryable")]
       /\ Refused(p, result, Backoff[r.attempt])
  /\ UNCHANGED <<rows, task, crashes>>

\* Mutant of Finish: the token of the claim is not compared.
FinishesOthers(p) ==
  LET t == T(p) IN
  /\ \/ At(p, "finish")
     \/ At(p, "work") /\ Kind(t) = "generation" /\ Answered(Of(t))
     \/ At(p, "compose") /\ ~Current(p)
  /\ task' = [task EXCEPT ![t] = Left(t, "completed", @.due)]
  /\ Again(p)
  /\ UNCHANGED <<rows, run, crashes>>

\* completeTask, also when the letter turns out to be answered, or the claim of the run to
\* be lost; without the claim of the task the pass fails, and so does its retryTask.
Finish(p) ==
  LET t == T(p) IN
  /\ \/ At(p, "finish")
     \/ At(p, "work") /\ Kind(t) = "generation" /\ Answered(Of(t))
     \/ At(p, "compose") /\ ~Current(p)
  /\ IF Owns(p) \/ task[t].status = "completed"
     THEN /\ task' = [task EXCEPT ![t] = Left(t, "completed", @.due)]
          /\ Again(p)
     ELSE UNCHANGED task /\ Ends(p)
  /\ UNCHANGED <<rows, run, crashes>>

\* retryTask; an arrival that failed also fails its pass.
Retry(p) ==
  LET t == T(p)
      dead == pass[p].result = "final" \/ task[t].attempt >= MaxAttempts
      due  == IF dead \/ Kind(t) # "generation" THEN task[t].due ELSE Seen(p) + pass[p].delay
  IN
  /\ At(p, "retry")
  /\ task' = IF ~Owns(p) THEN task
             ELSE [task EXCEPT ![t] = Left(t, IF dead THEN "dead_letter" ELSE "retryable", due)]
  /\ IF Owns(p) /\ Kind(t) = "generation" THEN Again(p) ELSE Ends(p)
  /\ UNCHANGED <<rows, run, crashes>>

-----------------------------------------------------------------------------
\* The user asks again for a reply that failed, under a new epoch.
AskAgain(l) ==
  \E e \in Epochs :
    /\ e + 1 \in Epochs /\ task[Gen(l, e + 1)].status = "none"
    /\ letter[l] = "read" /\ reply[l] = "none"
    /\ task[Gen(l, e)].status = "dead_letter" /\ run[<<l, e>>].status = "failed"
    /\ task' = [task EXCEPT ![Gen(l, e + 1)] = NewTask(0)]
    /\ UNCHANGED <<rows, run, pass, crashes>>

OpenReply(l) ==
  /\ reply[l] = "delivered_unread"
  /\ reply' = [reply EXCEPT ![l] = "read"]
  /\ UNCHANGED <<letter, transit, outrun, task, run, pass, crashes>>

Older(x) == IF x > -Horizon THEN x - 1 ELSE x

\* The due time of a task that is over is of no use, but that of an arrival is the letter's.
Ages(t) == Open(t) \/ (Kind(t) # "generation" /\ Settled(t))

Busy == {p \in Processes : ~At(p, "idle")}

\* The clock; no pass is older than the horizon.
Tick ==
  /\ \A p \in Busy : Seen(p) > -Horizon
  /\ task' = [t \in Tasks |->
       [task[t] EXCEPT !.due   = IF Ages(t) THEN Older(@) ELSE @,
                       !.lease = IF task[t].status = "claimed" THEN Older(@) ELSE @]]
  /\ run' = [x \in DOMAIN run |->
       [run[x] EXCEPT !.lease = IF run[x].status = "generating" THEN Older(@) ELSE @]]
  /\ pass' = [p \in Processes |->
       IF p \in Busy THEN [pass[p] EXCEPT !.observed = Older(@)] ELSE pass[p]]
  /\ UNCHANGED <<rows, crashes>>

Crash(p) ==
  /\ crashes < MaxCrashes /\ crashes' = crashes + 1
  /\ p \in Busy /\ Ends(p)
  /\ UNCHANGED <<rows, task, run>>

-----------------------------------------------------------------------------
Init ==
  /\ letter = [l \in Letters |-> "draft"] /\ transit = [l \in Letters |-> 0]
  /\ reply = [l \in Letters |-> "none"]
  /\ task = [t \in Tasks |-> NoTask] /\ run = [x \in Letters \X Epochs |-> NoRun]
  /\ outrun = [l \in Letters |-> FALSE]
  /\ pass = [p \in Processes |-> Idle] /\ crashes = 0

Step(p) ==
  \/ Find(p) \/ Rest(p) \/ Chat(p)
  \/ Claim(p) \/ Sweep(p) \/ Raced(p)
  \/ Arrive(p) \/ ReplyArrives(p) \/ ArrivalFails(p)
  \/ CannotStart(p) \/ Preflight(p) \/ RunUnavailable(p)
  \/ Commit(p) \/ FailRun(p)
  \/ Finish(p) \/ Retry(p)

Next ==
  \/ \E l \in Letters : (\E d \in Transits : Seal(l, d)) \/ AskAgain(l) \/ OpenReply(l)
  \/ \E p \in Processes : Begin(p) \/ Step(p) \/ Crash(p)
  \/ Tick

Spec == Init /\ [][Next]_vars

\* The scheduler starts passes again and again, a pass goes on, time passes.
Fairness ==
  /\ \A p \in Processes : WF_vars(Begin(p)) /\ WF_vars(Step(p))
  /\ WF_vars(Tick)

FairSpec == Spec /\ Fairness

-----------------------------------------------------------------------------
Statuses == {"none", "pending", "claimed", "completed", "retryable", "dead_letter"}

TypeOK ==
  /\ letter \in [Letters -> {"draft", "in_transit", "read"}]
  /\ transit \in [Letters -> Transits \cup {0}]
  /\ reply \in [Letters -> {"none", "in_transit", "delivered_unread", "read"}]
  /\ task \in [Tasks -> [status : Statuses, due : Int, attempt : 0..MaxAttempts, lease : Int]]
  /\ run \in [Letters \X Epochs ->
       [status : {"none", "generating", "retryable", "committed", "failed"},
        attempt : 0..MaxAttempts, token : 0..MaxAttempts, lease : Int]]
  /\ outrun \in [Letters -> BOOLEAN]
  /\ pass \in [Processes ->
       [stage : {"idle", "find", "claim", "work", "compose", "finish", "retry", "chat"},
        observed : Int, task : Tasks \cup {<<>>}, token : 0..MaxAttempts,
        result : {"none", "retryable", "final"}, delay : Nat]]
  /\ crashes \in 0..MaxCrashes

\* A letter is answered at most once, whatever workers, leases and epochs did.
AnsweredOnce ==
  \A l \in Letters :
    /\ Cardinality({e \in Epochs : run[<<l, e>>].status = "committed"}) <= 1
    /\ Answered(l) <=> reply[l] # "none"

\* Nothing is forgotten: what is still to happen to a letter has a task that is open, or
\* one that was given up in the open.
Pending(t) == Open(t) \/ task[t].status = "dead_letter"
NothingForgotten ==
  \A l \in Letters :
    /\ letter[l] = "in_transit" => Pending(Out(l))
    /\ letter[l] = "read" /\ reply[l] = "none" => \E e \in Epochs : Pending(Gen(l, e))
    /\ reply[l] = "in_transit" => Pending(Back(l))

\* Nothing happens before its time: no letter is read, no model called and no reply
\* delivered before it is due.
NothingEarly ==
  \A l \in Letters :
    /\ letter[l] = "read" => task[Out(l)].due <= 0
    /\ reply[l] \in {"delivered_unread", "read"} => task[Back(l)].due <= 0
    /\ \A e \in Epochs : run[<<l, e>>].status # "none" => letter[l] = "read"

\* A run under a live lease belongs to the live claim of its task.
LeasesAgree ==
  \A l \in Letters, e \in Epochs :
    run[<<l, e>>].status = "generating" /\ run[<<l, e>>].lease > 0 =>
      /\ task[Gen(l, e)].status = "claimed"
      /\ task[Gen(l, e)].attempt = run[<<l, e>>].token

\* Letters are read in the order of their arrival: none overtakes an earlier one, unless
\* that was given up.
ReadInOrder ==
  [][\A k, l \in Letters :
       letter[k] # "read" /\ letter'[k] = "read" /\ letter[l] = "in_transit"
         /\ task[Out(l)].due < task[Out(k)].due
       => task[Out(l)].status = "dead_letter"]_vars

\* Every task comes to an end, after any crash.
EveryTaskEnds == \A t \in Tasks : Open(t) ~> Settled(t)

-----------------------------------------------------------------------------
\* Letters implements LetterPromise: a letter arrives when the task of its arrival is due,
\* and is given up with that task.
Fate(l) == IF letter[l] = "in_transit" /\ task[Out(l)].status = "dead_letter"
           THEN "given_up" ELSE letter[l]
Fates    == [l \in Letters |-> Fate(l)]
Arrivals == [l \in Letters |-> IF letter[l] = "draft" THEN 0 ELSE task[Out(l)].due]
Returns  == [l \in Letters |-> IF reply[l] = "none" THEN 0 ELSE task[Back(l)].due]

Promise == INSTANCE LetterPromise WITH
  letter <- Fates, arrival <- Arrivals, return <- Returns

\* Letters are read on time and in order, a letter has one reply, and the reply arrives as
\* if it had been written when the letter arrived, however long the server was down.
LetterSpec == Promise!Spec
=============================================================================
