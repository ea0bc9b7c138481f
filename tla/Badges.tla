------------------------------- MODULE Badges -------------------------------
(***************************************************************************)
(* The drawing of badges: the worker of services/achievement-service.ts    *)
(* and the repainting of services/achievement-wax-admin.ts.                *)
(*                                                                         *)
(* An unlocked achievement leaves a job.  One job at a time is claimed,    *)
(* with a token and a lease, and a request for its picture is sent, which  *)
(* costs money once the provider accepts it.  A clear refusal for the      *)
(* moment is tried again; what became of any other request may not be      *)
(* known, and only the user may then order the next.                       *)
(*                                                                         *)
(* Badges are numbered in the order of their unlocking.  The picture's     *)
(* files are those of module Keepsakes and are left out, and the settings  *)
(* are enabled and stay as they are.                                       *)
(*                                                                         *)
(* PaidCallsProofs extends this module next to GatewayAdmission: hence     *)
(* BadgesInit, BadgesNext, BadgesSpec.                                     *)
(***************************************************************************)
EXTENDS Integers

CONSTANTS
  Badges,       \* unlocked achievements, by u.sequence
  Workers,      \* services on one database
  MaxAttempts,  \* automatic attempts (3)
  None,
  MaxOrders,    \* bound: retries by the user
  MaxCrashes    \* bound: crashes of processes

ASSUME BadgesAssumption ==
  /\ Badges \subseteq Nat /\ None \notin Workers
  /\ MaxAttempts \in Nat \ {0} /\ MaxOrders \in Nat /\ MaxCrashes \in Nat

VARIABLES
  job,      \* database: achievement_badge_jobs
  shown,    \* database: a picture is stored for the badge
  work,     \* memory: processNext of a service
  keys,     \* request ids given out so far, per badge
  calls,    \* history: requests sent since the last order
  open,     \* history: requests sent since then and not refused for the moment, by worker
  doubt,    \* history: id of the failed request nobody knows the outcome of, or 0;
            \* forgotten, as by the code, at the next answer, also a refusal
  orders, crashes

badgesVars == <<job, shown, work, keys, calls, open, doubt, orders, crashes>>
history == <<calls, open, doubt>>
bounds  == <<orders, crashes>>

\* A job of the given visual version that waits.
Queued(version, request) ==
  [status |-> "pending", version |-> version, attempts |-> 0, request |-> request,
   token |-> None, lapsed |-> FALSE, due |-> TRUE, error |-> "none"]
Idle == [stage |-> "idle", of |-> 0, version |-> 0, attempts |-> 0, error |-> "none"]

\* Jobs of before the migration have version 1.
BadgesInit ==
  /\ job \in [Badges -> {Queued(v, 0) : v \in {1, 2}}]
  /\ shown = [b \in Badges |-> FALSE]
  /\ work = [w \in Workers |-> Idle]
  /\ keys = [b \in Badges |-> 0]
  /\ calls = [b \in Badges |-> 0]
  /\ open = [b \in Badges |-> {}]
  /\ doubt = [b \in Badges |-> 0]
  /\ orders = 0 /\ crashes = 0

-----------------------------------------------------------------------------
Generating(b) == job[b].status = "generating"
\* Mutant of Left: the attempts are forgotten.
LeftAfresh(j, status, error) ==
  [j EXCEPT !.status = status, !.error = error, !.token = None, !.lapsed = FALSE,
            !.attempts = 0]

\* A job that leaves its claim.
Left(j, status, error) ==
  [j EXCEPT !.status = status, !.error = error, !.token = None, !.lapsed = FALSE]
\* The claim is still this worker's.
Mine(w) ==
  LET j == job[work[w].of]
  IN  j.status = "generating" /\ j.token = w /\ j.version = work[w].version

\* Mutant of AfterLapse: a lost job is drawn again.
TriesAgain(j) == Left(j, "pending", "unknown")

\* A lost lease can mean that the picture was drawn already.
AfterLapse(j) == Left(j, "failed", "unknown")

At(w, stage) == work[w].stage = stage
Ends(w) == work' = [work EXCEPT ![w] = Idle]

Lost == {b \in Badges : Generating(b) /\ job[b].lapsed}

\* processNext first gives up the claims whose lease ran out ...
ExpireLost(w) ==
  /\ At(w, "idle")
  /\ job' = [b \in Badges |-> IF b \in Lost THEN AfterLapse(job[b]) ELSE job[b]]
  /\ doubt' = [b \in Badges |-> IF b \in Lost THEN job[b].request ELSE doubt[b]]
  /\ work' = [work EXCEPT ![w].stage = "claim"]
  /\ UNCHANGED <<shown, keys, calls, open, bounds>>

Due == {b \in Badges : job[b].status = "pending" /\ job[b].due}

Quiet == \A b \in Badges : ~Generating(b)

\* The id of an attempt whose request is unchanged is used again.
RequestOf(b) == IF job[b].request # 0 THEN job[b].request ELSE keys[b] + 1

\* ... and claims the earliest job that is due, when none is being drawn.
Claim(w, b) ==
  /\ At(w, "claim") /\ Quiet
  /\ b \in Due /\ \A c \in Due : b <= c
  /\ job' = [job EXCEPT ![b] = [job[b] EXCEPT !.status = "generating",
                                              !.attempts = job[b].attempts + 1,
                                              !.token = w, !.lapsed = FALSE,
                                              !.request = RequestOf(b)]]
  /\ keys' = [keys EXCEPT ![b] = IF RequestOf(b) > @ THEN RequestOf(b) ELSE @]
  /\ work' = [work EXCEPT ![w] = [stage |-> "send", of |-> b, version |-> job[b].version,
                                  attempts |-> job[b].attempts + 1, error |-> "none"]]
  /\ UNCHANGED <<shown, history, bounds>>

NothingToDo(w) ==
  /\ At(w, "claim") /\ (~Quiet \/ Due = {})
  /\ Ends(w)
  /\ UNCHANGED <<job, shown, keys, history, bounds>>

-----------------------------------------------------------------------------
Send(w) ==
  /\ At(w, "send")
  /\ work' = [work EXCEPT ![w].stage = "ask"]
  /\ calls' = [calls EXCEPT ![work[w].of] = @ + 1]
  /\ open' = [open EXCEPT ![work[w].of] = @ \cup {w}]
  /\ UNCHANGED <<job, shown, keys, doubt, bounds>>

\* The provider draws; refuses for the moment (429, 503); refuses for good; or the request
\* times out, is aborted or loses its connection.
Answer(w) ==
  /\ At(w, "ask")
  /\ \/ work' = [work EXCEPT ![w].stage = "commit"] /\ UNCHANGED open
     \/ /\ work' = [work EXCEPT ![w].stage = "fail", ![w].error = "temporary"]
        /\ open' = [open EXCEPT ![work[w].of] = @ \ {w}]
     \/ \E e \in {"rejected", "unknown"} :
          work' = [work EXCEPT ![w].stage = "fail", ![w].error = e] /\ UNCHANGED open
  /\ UNCHANGED <<job, shown, keys, calls, doubt, bounds>>

\* The picture comes and is of no use, or its files cannot be stored.
Unusable(w) ==
  /\ At(w, "commit")
  /\ work' = [work EXCEPT ![w].stage = "fail", ![w].error = "unusable"]
  /\ UNCHANGED <<job, shown, keys, history, bounds>>

\* The result j of worker w is recorded, unless the claim is another's; and when its lease
\* has run out the job is given up instead (expireClaim).  The error of the job is that of
\* the last answer: when a request of unknown outcome is repeated and refused, the row no
\* longer says that the fate of the first is open, and the next order takes a new id.
Settle(w, j) ==
  LET b == work[w].of
  IN  /\ job' = IF ~Mine(w) THEN job
                ELSE [job EXCEPT ![b] = IF @.lapsed THEN AfterLapse(@) ELSE j]
      /\ doubt' = IF ~Mine(w) THEN doubt
                  ELSE [doubt EXCEPT ![b] = IF job'[b].error = "unknown" THEN job[b].request ELSE 0]
      /\ Ends(w)

Commit(w) ==
  /\ At(w, "commit")
  /\ Settle(w, Left(job[work[w].of], "ready", "none"))
  /\ shown' = [shown EXCEPT ![work[w].of] = @ \/ (Mine(w) /\ ~job[work[w].of].lapsed)]
  /\ UNCHANGED <<keys, calls, open, bounds>>

Retryable(w) == work[w].error = "temporary" /\ work[w].attempts < MaxAttempts

Fail(w) ==
  /\ At(w, "fail")
  /\ Settle(w, [Left(job[work[w].of], IF Retryable(w) THEN "pending" ELSE "failed",
                     work[w].error) EXCEPT !.due = FALSE])
  /\ UNCHANGED <<shown, keys, calls, open, bounds>>

-----------------------------------------------------------------------------
\* An order of the user or the administrator starts the count of calls anew.
Ordered(b) ==
  /\ calls' = [calls EXCEPT ![b] = 0]
  /\ open' = [open EXCEPT ![b] = {}]

\* Mutant of KeptRequest: the retry is a request of its own.
FreshRequest(b) == 0

\* Outside the hosted service, only a request without an outcome keeps its id.
KeptRequest(b) == IF job[b].error = "unknown" THEN job[b].request ELSE 0

RetryBadge(b) ==
  /\ job[b].status = "failed" /\ orders < MaxOrders
  /\ orders' = orders + 1
  /\ job' = [job EXCEPT ![b] = Queued(@.version, KeptRequest(b))]
  /\ Ordered(b)
  /\ UNCHANGED <<shown, work, keys, doubt, crashes>>

\* The administrator has badges of the older version painted anew, all of them or those
\* that are chosen; none while a chosen one is being drawn.
Redraw(old) ==
  /\ old # {} /\ \A b \in old : job[b].version < 2 /\ ~Generating(b)
  /\ job' = [b \in Badges |-> IF b \in old THEN Queued(2, 0) ELSE job[b]]
  /\ calls' = [b \in Badges |-> IF b \in old THEN 0 ELSE calls[b]]
  /\ open' = [b \in Badges |-> IF b \in old THEN {} ELSE open[b]]
  /\ doubt' = [b \in Badges |-> IF b \in old THEN 0 ELSE doubt[b]]
  /\ UNCHANGED <<shown, work, keys, bounds>>

\* The administrator puts an earlier picture back.
Restore(b) ==
  /\ shown[b] /\ ~Generating(b) /\ job[b].status # "ready"
  /\ job' = [job EXCEPT ![b] = Left(@, "ready", "none")]
  /\ UNCHANGED <<shown, work, keys, history, bounds>>

\* The delay of a retry is over.
Wait(b) ==
  /\ job[b].status = "pending" /\ ~job[b].due
  /\ job' = [job EXCEPT ![b].due = TRUE]
  /\ UNCHANGED <<shown, work, keys, history, bounds>>

\* A lease runs out; not within the turn in which the worker claims and then sends.
Lapse(b) ==
  /\ Generating(b) /\ ~job[b].lapsed
  /\ ~\E w \in Workers : At(w, "send") /\ work[w].of = b
  /\ job' = [job EXCEPT ![b].lapsed = TRUE]
  /\ UNCHANGED <<shown, work, keys, history, bounds>>

\* A process dies; its requests remain without an answer.
Crash(w) ==
  /\ ~At(w, "idle") /\ crashes < MaxCrashes
  /\ crashes' = crashes + 1
  /\ Ends(w)
  /\ UNCHANGED <<job, shown, keys, history, orders>>

Step(w) ==
  \/ ExpireLost(w) \/ NothingToDo(w) \/ \E b \in Badges : Claim(w, b)
  \/ Send(w) \/ Answer(w) \/ Unusable(w) \/ Commit(w) \/ Fail(w)

BadgesNext ==
  \/ \E w \in Workers : Step(w) \/ Crash(w)
  \/ \E b \in Badges : RetryBadge(b) \/ Restore(b) \/ Wait(b) \/ Lapse(b)
  \/ \E old \in SUBSET Badges : Redraw(old)

BadgesSpec == BadgesInit /\ [][BadgesNext]_badgesVars

-----------------------------------------------------------------------------
BadgesTypeOK ==
  /\ job \in [Badges ->
       [status : {"pending", "generating", "ready", "failed"}, version : {1, 2},
        attempts : 0..MaxAttempts, request : Nat, token : Workers \cup {None},
        lapsed : BOOLEAN, due : BOOLEAN,
        error : {"none", "temporary", "rejected", "unusable", "unknown"}]]
  /\ shown \in [Badges -> BOOLEAN]
  /\ work \in [Workers ->
       [stage : {"idle", "claim", "send", "ask", "commit", "fail"}, of : Badges \cup {0},
        version : 0..2, attempts : 0..MaxAttempts,
        error : {"none", "temporary", "rejected", "unusable", "unknown"}]]
  /\ keys \in [Badges -> Nat] /\ doubt \in [Badges -> Nat]
  /\ calls \in [Badges -> Nat] /\ open \in [Badges -> SUBSET Workers]

\* docs/ACHIEVEMENTS.md: a job whose request has no known outcome, that timed out or lost
\* its lease, is not sent again by itself.  So a request leaves only when every request
\* since the last order of a person was refused for the moment.
NoSecondCharge ==
  [][\A b \in Badges : calls'[b] > calls[b] => open[b] = {}]_badgesVars

\* The same paragraph: at most two retries are added to the first attempt, whatever
\* processes die and whichever service draws.
TwoRetriesAtMost == \A b \in Badges : calls[b] <= MaxAttempts

\* After a request of unknown outcome the job keeps its id, through the retry by the user and
\* the next claim, so that the provider can tell a repetition: until the next answer, and
\* not beyond a refusal of the repetition, which the row then remembers instead.
DoubtKeepsItsKey ==
  \A b \in Badges :
    doubt[b] # 0 /\ job[b].status \in {"pending", "generating"} => job[b].request = doubt[b]
=============================================================================
