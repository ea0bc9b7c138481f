------------------------- MODULE HostedMaintenance --------------------------
(***************************************************************************)
(* Background work of the accounts, and those who stop and restart it: the *)
(* handlers that register, ban and unban an account, and backups           *)
(* (hosted/runtime-manager.ts, hosted/app.ts, hosted/backup.ts).           *)
(*                                                                         *)
(* Each account has two schedulers, "letters" and "proactive", and a       *)
(* worker for "badges".  A scheduler's cycles form a chain of promises: to *)
(* dispose of it is to stop it and to await the chain as it was then, to   *)
(* start it is to await the cycle that starting adds.  The hourly          *)
(* scheduler (runtime/hourly-scheduler.ts) is stopped and started with the *)
(* letters, but its ticks are not awaited.                                 *)
(*                                                                         *)
(* disconnect() and resume() await between the workers, so that several    *)
(* may be under way on one account.  Who has what it awaited goes on at    *)
(* once, before timers and new requests (Turn).  When one cycle ends that  *)
(* both awaited resume() goes on first: it awaits the cycle itself,        *)
(* disconnect() promises derived from it, in a later microtask (Calm).     *)
(*                                                                         *)
(* The gateway, paused and resumed with the flag, is GatewayAdmission.     *)
(***************************************************************************)
EXTENDS Integers, Sequences

CONSTANTS
  Users,
  AtBoot,     \* the accounts restored at boot, each once, in that order; others register
  Requests,   \* requests that register, ban or unban
  Backups,    \* requests that make a backup
  MaxLoops    \* bound: timers and ticks of one hourly scheduler

VARIABLES
  status,       \* control database; "none" before the account is registered
  runtimes,     \* the accounts that have a runtime, in the order of the map
  maintenance,  \* API surfaces are closed
  on,           \* workers that are started
  pending,      \* cycles in the chain of a worker
  hourly,       \* hourly scheduler: the timer it holds, timers it lost, running ticks
  job,          \* what a request does to which account, and what it awaits
  phase, pos    \* how far a backup is, and which account is next

accounts == <<status, runtimes>>
work     == <<on, pending, hourly>>
backup   == <<phase, pos, maintenance>>
vars     == <<accounts, work, job, backup>>

Workers == {"letters", "proactive", "badges"}
Idle    == [op |-> "idle", user |-> AtBoot[1], at |-> "letters", ahead |-> 0]
Restored == {AtBoot[i] : i \in DOMAIN AtBoot}
Procs   == Requests \cup Backups

ASSUME MaintenanceAssumption ==
  /\ AtBoot \in Seq(Users) /\ Len(AtBoot) > 0
  /\ \A i, j \in DOMAIN AtBoot : AtBoot[i] = AtBoot[j] => i = j
  /\ Requests \cap Backups = {}
  /\ MaxLoops \in Nat \ {0}

-----------------------------------------------------------------------------
IsIdle(p)   == job[p].op = "idle"
Creating(u) == \E p \in Requests : job[p].op = "create" /\ job[p].user = u
Walks(b)    == IsIdle(b) /\ pos[b] <= Len(runtimes)

\* p has what it awaited, or is between two accounts of a walk.
Ready(p) ==
  \/ job[p].op \in {"create", "resume", "disconnect"} /\ job[p].ahead = 0
  \/ /\ p \in Backups /\ phase[p] \in {"stop", "stopAgain", "resume"}
     /\ Walks(p) /\ ~Creating(runtimes[pos[p]])

GoesFirst(p) ==
  /\ Ready(p)
  /\ job[p].op \in {"create", "resume"} \/ (p \in Backups /\ phase[p] = "resume")

Calm == \A p \in Procs : ~GoesFirst(p)
Turn == \A p \in Procs : ~Ready(p)

\* p awaits the first n cycles in the chain of u's worker w.
Awaits(p, op, u, w, n) ==
  job' = [job EXCEPT ![p] = [op |-> op, user |-> u, at |-> w, ahead |-> n]]

\* The hourly scheduler sets its next timer: one that is still set is lost from view.
Arm(h) == [h EXCEPT !.timer = TRUE, !.orphans = IF h.timer THEN @ + 1 ELSE @]

StopHourly(h)  == [h EXCEPT !.stopped = TRUE, !.timer = FALSE]
StartHourly(h) == IF h.stopped THEN Arm([h EXCEPT !.stopped = FALSE]) ELSE h

\* Mutant of Dispose: the worker is stopped, but its chain is not awaited.
StopsWithoutWaiting(p, u, w) ==
  /\ on' = on \ {<<u, w>>} /\ UNCHANGED pending
  /\ hourly' = IF w = "letters" THEN [hourly EXCEPT ![u] = StopHourly(@)] ELSE hourly
  /\ Awaits(p, "disconnect", u, w, 0)

\* dispose() of a scheduler, pause() of the badges; before the letters the hourly
\* scheduler is stopped.
Dispose(p, u, w) ==
  /\ on' = on \ {<<u, w>>} /\ UNCHANGED pending
  /\ hourly' = IF w = "letters" THEN [hourly EXCEPT ![u] = StopHourly(@)] ELSE hourly
  /\ Awaits(p, "disconnect", u, w, pending[<<u, w>>])

\* start() of a scheduler that runs returns its chain; otherwise it adds a cycle.
\* The hourly scheduler and the badges are started just before the letters.
Start(p, op, u, w) ==
  LET new == {x \in {w} \cup (IF w = "letters" THEN {"badges"} ELSE {}) :
                /\ <<u, x>> \notin on
                /\ x = "badges" => pending[<<u, x>>] = 0}
  IN /\ on' = on \cup {<<u, w>>} \cup (IF w = "letters" THEN {<<u, "badges">>} ELSE {})
     /\ pending' = [x \in Users \X Workers |->
                      IF x[1] = u /\ x[2] \in new THEN pending[x] + 1 ELSE pending[x]]
     /\ hourly' = IF w = "letters" THEN [hourly EXCEPT ![u] = StartHourly(@)] ELSE hourly
     /\ Awaits(p, op, u, w, pending'[<<u, w>>])

-----------------------------------------------------------------------------
\* A timer or a route wakes a worker; its cycle ends, and whoever awaits it learns.
Wake(u, w) ==
  /\ Turn /\ <<u, w>> \in on /\ pending[<<u, w>>] = 0
  /\ pending' = [pending EXCEPT ![<<u, w>>] = 1]
  /\ UNCHANGED <<accounts, on, hourly, job, backup>>

CycleEnds(u, w) ==
  /\ pending[<<u, w>>] > 0 /\ pending' = [pending EXCEPT ![<<u, w>>] = @ - 1]
  /\ job' = [p \in Procs |->
       IF job[p].user = u /\ job[p].at = w /\ job[p].ahead > 0
       THEN [job[p] EXCEPT !.ahead = @ - 1] ELSE job[p]]
  /\ UNCHANGED <<accounts, on, hourly, backup>>

\* A timer of the hourly scheduler fires.  A tick that ends sets the next timer,
\* unless the scheduler is stopped then.
HourlyFires(u) ==
  /\ Turn
  /\ LET h == hourly[u] IN
     \/ /\ h.timer /\ h.orphans + h.ticking < MaxLoops
        /\ hourly' = [hourly EXCEPT ![u] = [h EXCEPT !.timer = FALSE, !.ticking = @ + 1]]
     \/ /\ h.orphans > 0
        /\ hourly' = [hourly EXCEPT ![u] =
                        [h EXCEPT !.orphans = @ - 1, !.ticking = @ + 1]]
  /\ UNCHANGED <<accounts, on, pending, job, backup>>

\* Mutant of TickEnds: a tick does not set the next timer.
TickEndsTheHours(u) ==
  /\ hourly[u].ticking > 0 /\ hourly' = [hourly EXCEPT ![u].ticking = @ - 1]
  /\ UNCHANGED <<accounts, on, pending, job, backup>>

TickEnds(u) ==
  /\ hourly[u].ticking > 0
  /\ LET h == [hourly[u] EXCEPT !.ticking = @ - 1]
     IN hourly' = [hourly EXCEPT ![u] = IF h.stopped THEN h ELSE Arm(h)]
  /\ UNCHANGED <<accounts, on, pending, job, backup>>

\* A registration is admitted and hashes the password; then the account is there and
\* its runtime is created, which starts the schedulers.
Register(p, u) ==
  /\ Turn /\ ~maintenance /\ IsIdle(p)
  /\ status[u] = "none" /\ \A q \in Procs : job[q].op = "hash" => job[q].user # u
  /\ Awaits(p, "hash", u, "letters", 0)
  /\ UNCHANGED <<accounts, work, backup>>

Create(p) ==
  LET u == job[p].user IN
  /\ Turn /\ job[p].op = "hash"
  /\ status' = [status EXCEPT ![u] = "active"] /\ runtimes' = Append(runtimes, u)
  /\ Start(p, "create", u, "letters") /\ UNCHANGED backup

\* The handler of an administrator's ban or unban.
Ban(p, u) ==
  /\ Turn /\ ~maintenance /\ IsIdle(p) /\ status[u] # "none" /\ ~Creating(u)
  /\ status' = [status EXCEPT ![u] = "banned"] /\ Dispose(p, u, "letters")
  /\ UNCHANGED <<runtimes, backup>>

Unban(p, u) ==
  /\ Turn /\ ~maintenance /\ IsIdle(p) /\ status[u] # "none" /\ ~Creating(u)
  /\ status' = [status EXCEPT ![u] = "active"] /\ Start(p, "resume", u, "letters")
  /\ UNCHANGED <<runtimes, backup>>

\* disconnect() goes on to the next worker when the chain it awaited is over.
Disconnecting(p) ==
  /\ Calm /\ job[p].op = "disconnect" /\ job[p].ahead = 0
  /\ \/ job[p].at = "letters" /\ Dispose(p, job[p].user, "proactive")
     \/ job[p].at = "proactive" /\ Dispose(p, job[p].user, "badges")
     \/ job[p].at = "badges" /\ job' = [job EXCEPT ![p] = Idle] /\ UNCHANGED work
  /\ UNCHANGED <<accounts, backup>>

Resuming(p) ==
  /\ job[p].op \in {"create", "resume"} /\ job[p].ahead = 0
  /\ \/ job[p].at = "letters" /\ Start(p, job[p].op, job[p].user, "proactive")
     \/ job[p].at = "proactive" /\ job' = [job EXCEPT ![p] = Idle] /\ UNCHANGED work
  /\ UNCHANGED <<accounts, backup>>

-----------------------------------------------------------------------------
Walk(b, ph) == phase' = [phase EXCEPT ![b] = ph] /\ pos' = [pos EXCEPT ![b] = 1]

\* quiesce(): one backup at a time gets past the flag.
Quiesce(b) ==
  /\ Turn /\ phase[b] = "idle" /\ ~maintenance
  /\ maintenance' = TRUE /\ Walk(b, "stop")
  /\ UNCHANGED <<accounts, work, job>>

\* The next account of a walk, once its runtime is there, is disconnected, or resumed
\* if it is active.
Visit(b) ==
  /\ Walks(b) /\ ~Creating(runtimes[pos[b]])
  /\ LET u == runtimes[pos[b]] IN
     \/ Calm /\ phase[b] \in {"stop", "stopAgain"} /\ Dispose(b, u, "letters")
     \/ phase[b] = "resume" /\ status[u] = "active" /\ Start(b, "resume", u, "letters")
     \/ phase[b] = "resume" /\ status[u] # "active" /\ UNCHANGED <<work, job>>
  /\ pos' = [pos EXCEPT ![b] = @ + 1] /\ UNCHANGED <<accounts, phase, maintenance>>

WalkEnds(b) ==
  /\ IsIdle(b) /\ pos[b] > Len(runtimes)
  /\ \/ phase[b] = "stop" /\ Calm /\ Walk(b, "settle")
     \/ phase[b] = "stopAgain" /\ Calm /\ Walk(b, "settleAgain")
     \/ phase[b] = "resume" /\ Walk(b, "idle")
  /\ UNCHANGED <<accounts, work, job, maintenance>>

\* All runtimes are there, and none has a tick inside the queues of its characters.
ActorsIdle == \A u \in Users : ~Creating(u) /\ hourly[u].ticking = 0

Settled(b) ==
  /\ Calm /\ ActorsIdle
  /\ \/ phase[b] = "settle" /\ Walk(b, "drain")
     \/ phase[b] = "settleAgain" /\ Walk(b, "snapshot")
  /\ UNCHANGED <<accounts, work, job, maintenance>>

\* Mutant of Drained: the accounts are not stopped again after the requests ended.
StopsOnce(b) ==
  /\ Calm /\ phase[b] = "drain" /\ \A q \in Requests : IsIdle(q)
  /\ Walk(b, "snapshot")
  /\ UNCHANGED <<accounts, work, job, maintenance>>

\* The requests that had been admitted are over: all accounts are stopped once more.
Drained(b) ==
  /\ Calm /\ phase[b] = "drain" /\ \A q \in Requests : IsIdle(q)
  /\ Walk(b, "stopAgain")
  /\ UNCHANGED <<accounts, work, job, maintenance>>

\* The surfaces are opened again, and resumeAll() starts.
Reopen(b) ==
  /\ maintenance' = FALSE /\ Walk(b, "resume")
  /\ UNCHANGED <<accounts, work, job>>

\* The deadline of one of the waits passes; the snapshot is made, or has failed.
GiveUp(b) ==
  /\ Turn /\ phase[b] \in {"settle", "drain", "settleAgain"} /\ Reopen(b)

Snapshot(b) == Turn /\ phase[b] = "snapshot" /\ Reopen(b)

-----------------------------------------------------------------------------
Init ==
  /\ runtimes = AtBoot /\ maintenance = FALSE
  /\ status = [u \in Users |-> IF u \in Restored THEN "active" ELSE "none"]
  /\ on = Restored \X Workers /\ pending = [x \in Users \X Workers |-> 0]
  /\ hourly = [u \in Users |->
       [stopped |-> u \notin Restored, timer |-> u \in Restored,
        orphans |-> 0, ticking |-> 0]]
  /\ job = [p \in Procs |-> Idle]
  /\ phase = [b \in Backups |-> "idle"] /\ pos = [b \in Backups |-> 1]

Proceed(p) == Create(p) \/ Disconnecting(p) \/ Resuming(p)

Maintain(b) ==
  Visit(b) \/ WalkEnds(b) \/ Settled(b) \/ Drained(b) \/ GiveUp(b) \/ Snapshot(b)

Next ==
  \/ \E u \in Users, w \in Workers : Wake(u, w) \/ CycleEnds(u, w)
  \/ \E u \in Users : HourlyFires(u) \/ TickEnds(u)
  \/ \E p \in Requests, u \in Users : Register(p, u) \/ Ban(p, u) \/ Unban(p, u)
  \/ \E p \in Procs : Proceed(p)
  \/ \E b \in Backups : Quiesce(b) \/ Maintain(b)

Spec == Init /\ [][Next]_vars

-----------------------------------------------------------------------------
TypeOK ==
  /\ status \in [Users -> {"none", "active", "banned"}] /\ maintenance \in BOOLEAN
  /\ runtimes \in Seq(Users) /\ on \subseteq Users \X Workers
  /\ pending \in [Users \X Workers -> Nat]
  /\ hourly \in [Users -> [stopped : BOOLEAN, timer : BOOLEAN, orphans : 0 .. MaxLoops,
                           ticking : 0 .. MaxLoops]]
  /\ job \in [Procs -> [op : {"idle", "hash", "create", "disconnect", "resume"},
                        user : Users, at : Workers, ahead : Nat]]
  /\ phase \in [Backups -> {"idle", "stop", "settle", "drain", "stopAgain", "settleAgain",
                         "snapshot", "resume"}]
  /\ pos \in [Backups -> 1 .. Len(runtimes) + 1]

\* While the files are copied no worker of any account is started, no cycle runs and
\* no ban or unban is under way, also when the resumeAll() of an earlier backup was
\* still waking the accounts when this one closed the surfaces.
QuietDuringBackup ==
  \A b \in Backups : phase[b] = "snapshot" =>
    /\ on = {} /\ \A x \in Users \X Workers : pending[x] = 0
    /\ \A q \in Requests : IsIdle(q)

\* A started hourly scheduler keeps a timer in its hands, or a tick runs that will set
\* the next one, however stops and starts fell into its ticks.
HourGoesOn ==
  \A u \in Users : ~hourly[u].stopped => hourly[u].timer \/ hourly[u].ticking > 0

\* A banned account that nobody is working on has no worker started, however bans,
\* unbans and backups overlapped.
BannedIsQuiet ==
  \A u \in Users :
    status[u] = "banned" /\ (\A p \in Procs : IsIdle(p) \/ job[p].user # u)
    => \A w \in Workers : <<u, w>> \notin on
=============================================================================
