----------------------- MODULE HostedMaintenanceProofs -----------------------
(***************************************************************************)
(* Safety of HostedMaintenance, for any sets of accounts, requests and     *)
(* backups, and of the queue of a character, ActorQueue, whose idleness a  *)
(* backup waits for.                                                       *)
(*                                                                         *)
(* Three parts: the hourly schedulers (HourInv); who stops and starts the  *)
(* workers (StopInv), with what a backup and a ban promise; the queue      *)
(* (QueueInv).                                                             *)
(***************************************************************************)
EXTENDS HostedMaintenance, ActorQueue, TLAPS

\* The states of an hourly scheduler.
Hourly == [stopped : BOOLEAN, timer : BOOLEAN, orphans : Nat, ticking : Nat]

\* A started one has a timer or a tick, a stopped one holds no timer; what is bounded
\* are the timers it lost and the ticks together.
Armed(h) ==
  /\ h \in Hourly /\ h.orphans + h.ticking <= MaxLoops
  /\ IF h.stopped THEN ~h.timer ELSE h.timer \/ h.ticking > 0

\* The inductive invariant: HourGoesOn, what a stopped scheduler holds and the bounds.
HourInv == hourly \in [Users -> Hourly] /\ \A u \in Users : Armed(hourly[u])

-----------------------------------------------------------------------------
(* What the methods of the scheduler do to one of its states. *)

\* A scheduler that sets a timer is armed, if there is room for the one it may lose.
LEMMA ArmIsArmed ==
  ASSUME NEW h \in Hourly, ~h.stopped,
         h.orphans + h.ticking + (IF h.timer THEN 1 ELSE 0) <= MaxLoops
  PROVE  Armed(Arm(h))
<1> DEFINE n == IF h.timer THEN h.orphans + 1 ELSE h.orphans
           a == [h EXCEPT !.timer = TRUE, !.orphans = n]
<1>1. Arm(h) = a
  BY DEF Arm
<1>2. n \in Nat /\ n + h.ticking <= MaxLoops
  BY MaintenanceAssumption DEF Hourly
<1> HIDE DEF n
<1>3. a \in Hourly /\ a.timer /\ ~a.stopped /\ a.orphans = n /\ a.ticking = h.ticking
  BY <1>2 DEF Hourly
<1> QED
  BY <1>1, <1>2, <1>3 DEF Armed

\* One that is stopped keeps its lost timers and its ticks.
LEMMA StopIsArmed == ASSUME NEW h, Armed(h) PROVE Armed(StopHourly(h))
  BY DEF Hourly, Armed, StopHourly

\* One that was stopped held no timer, so that starting it loses none.
LEMMA StartIsArmed == ASSUME NEW h, Armed(h) PROVE Armed(StartHourly(h))
<1> DEFINE s == [h EXCEPT !.stopped = FALSE]
<1>1. CASE h.stopped
  <2>1. /\ s \in Hourly /\ ~s.stopped /\ s.orphans = h.orphans /\ s.ticking = h.ticking
        /\ ~s.timer /\ h.orphans \in Nat /\ h.ticking \in Nat
    BY <1>1 DEF Armed, Hourly
  <2>2. s.orphans + s.ticking + (IF s.timer THEN 1 ELSE 0) <= MaxLoops
    BY <1>1, <2>1 DEF Armed
  <2>3. Armed(Arm(s))
    BY <2>1, <2>2, ArmIsArmed
  <2> QED
    BY <1>1, <2>3 DEF StartHourly
<1>2. CASE ~h.stopped
  BY <1>2 DEF StartHourly
<1> QED
  BY <1>1, <1>2

\* A tick begins: it takes the timer, or one that was lost.
LEMMA TickIsArmed ==
  ASSUME NEW h, Armed(h)
  PROVE  /\ h.timer /\ h.orphans + h.ticking < MaxLoops
              => Armed([h EXCEPT !.timer = FALSE, !.ticking = h.ticking + 1])
         /\ h.orphans > 0
              => Armed([h EXCEPT !.orphans = h.orphans - 1, !.ticking = h.ticking + 1])
<1>1. h \in Hourly /\ h.orphans \in Nat /\ h.ticking \in Nat /\ h.ticking + 1 \in Nat
      /\ h.orphans + h.ticking <= MaxLoops
  BY DEF Armed, Hourly
<1>2. ASSUME h.timer, h.orphans + h.ticking < MaxLoops
      PROVE  Armed([h EXCEPT !.timer = FALSE, !.ticking = h.ticking + 1])
  <2> DEFINE k == h.ticking + 1
             a == [h EXCEPT !.timer = FALSE, !.ticking = k]
  <2>1. k \in Nat /\ k > 0 /\ h.orphans + k <= MaxLoops
    BY <1>1, <1>2, MaintenanceAssumption
  <2> HIDE DEF k
  <2>2. a \in Hourly /\ a.orphans = h.orphans /\ a.ticking = k /\ a.timer = FALSE
    BY <1>1, <2>1 DEF Hourly
  <2>3. Armed(a)
    BY <2>1, <2>2 DEF Armed
  <2> QED
    BY <2>3 DEF k
<1>3. ASSUME h.orphans > 0
      PROVE  Armed([h EXCEPT !.orphans = h.orphans - 1, !.ticking = h.ticking + 1])
  <2> DEFINE n == h.orphans - 1
             k == h.ticking + 1
             a == [h EXCEPT !.orphans = n, !.ticking = k]
  <2>1. n \in Nat /\ k \in Nat /\ k > 0 /\ n + k <= MaxLoops
    BY <1>1, <1>3, MaintenanceAssumption
  <2> HIDE DEF n, k
  <2>2. /\ a \in Hourly /\ a.orphans = n /\ a.ticking = k
        /\ a.timer = h.timer /\ a.stopped = h.stopped
    BY <1>1, <2>1 DEF Hourly
  <2>3. h.stopped => ~h.timer
    BY DEF Armed
  <2>4. Armed(a)
    BY <2>1, <2>2, <2>3 DEF Armed
  <2> QED
    BY <2>4 DEF n, k
<1> QED
  BY <1>2, <1>3

\* A step that gives one account's scheduler an armed state keeps the invariant.
LEMMA OneScheduler ==
  ASSUME HourInv, NEW u, NEW h, u \in Users => Armed(h),
         hourly' = [hourly EXCEPT ![u] = h]
  PROVE  HourInv'
  BY DEF HourInv, Armed

\* Stopping a worker stops the scheduler if the worker is its own.
LEMMA DisposeKeeps == ASSUME HourInv, NEW p, NEW u, NEW w, Dispose(p, u, w) PROVE HourInv'
<1>1. CASE w = "letters"
  <2>1. u \in Users => Armed(StopHourly(hourly[u]))
    BY StopIsArmed DEF HourInv
  <2>2. hourly' = [hourly EXCEPT ![u] = StopHourly(hourly[u])]
    BY <1>1 DEF Dispose
  <2> QED
    BY <2>1, <2>2, OneScheduler
<1>2. CASE w # "letters"
  BY <1>2 DEF Dispose, HourInv
<1> QED
  BY <1>1, <1>2

\* Starting a worker starts the scheduler if the worker is its own.
LEMMA StartKeeps ==
  ASSUME HourInv, NEW p, NEW op, NEW u, NEW w, Start(p, op, u, w) PROVE HourInv'
<1>1. CASE w = "letters"
  <2>1. u \in Users => Armed(StartHourly(hourly[u]))
    BY StartIsArmed DEF HourInv
  <2>2. hourly' = [hourly EXCEPT ![u] = StartHourly(hourly[u])]
    BY <1>1 DEF Start
  <2> QED
    BY <2>1, <2>2, OneScheduler
<1>2. CASE w # "letters"
  BY <1>2 DEF Start, HourInv
<1> QED
  BY <1>1, <1>2

-----------------------------------------------------------------------------
\* At first every scheduler is stopped and holds no timer.
LEMMA InitHour == Init => HourInv
<1> SUFFICES ASSUME Init PROVE HourInv
  OBVIOUS
<1>1. /\ Armed([stopped |-> TRUE, timer |-> FALSE, orphans |-> 0, ticking |-> 0])
      /\ Armed([stopped |-> FALSE, timer |-> TRUE, orphans |-> 0, ticking |-> 0])
  BY MaintenanceAssumption DEF Armed, Hourly
<1>2. ASSUME NEW u \in Users PROVE Armed(hourly[u])
  <2>1. hourly[u] = [stopped |-> u \notin Restored, timer |-> u \in Restored,
                     orphans |-> 0, ticking |-> 0]
    BY DEF Init
  <2>2. CASE u \in Restored
    <3>1. (u \notin Restored) = FALSE /\ (u \in Restored) = TRUE
      BY <2>2
    <3> QED
      BY <1>1, <2>1, <3>1
  <2>3. CASE u \notin Restored
    <3>1. (u \notin Restored) = TRUE /\ (u \in Restored) = FALSE
      BY <2>3
    <3> QED
      BY <1>1, <2>1, <3>1
  <2> QED
    BY <2>2, <2>3
<1>3. hourly = [u \in Users |-> hourly[u]]
  BY DEF Init
<1> QED
  BY <1>2, <1>3 DEF HourInv, Armed

\* A timer that fires turns into a tick.
LEMMA FiresKeeps == ASSUME HourInv, NEW u \in Users, HourlyFires(u) PROVE HourInv'
<1> DEFINE h == hourly[u]
<1>1. Armed(h)
  BY DEF HourInv
<1>2. CASE /\ h.timer /\ h.orphans + h.ticking < MaxLoops
           /\ hourly' = [hourly EXCEPT ![u] = [h EXCEPT !.timer = FALSE, !.ticking = @ + 1]]
  <2>1. Armed([h EXCEPT !.timer = FALSE, !.ticking = h.ticking + 1])
    BY <1>1, <1>2, TickIsArmed
  <2> QED
    BY <1>2, <2>1, OneScheduler
<1>3. CASE /\ h.orphans > 0
           /\ hourly' = [hourly EXCEPT ![u] = [h EXCEPT !.orphans = @ - 1, !.ticking = @ + 1]]
  <2>1. Armed([h EXCEPT !.orphans = h.orphans - 1, !.ticking = h.ticking + 1])
    BY <1>1, <1>3, TickIsArmed
  <2> QED
    BY <1>3, <2>1, OneScheduler
<1> QED
  BY <1>2, <1>3 DEF HourlyFires

\* A tick that ends while the scheduler is stopped leaves nothing behind; otherwise it
\* sets the next timer, in the room the tick took.
LEMMA TickKeeps == ASSUME HourInv, NEW u \in Users, TickEnds(u) PROVE HourInv'
<1> DEFINE k == hourly[u].ticking - 1
           h == [hourly[u] EXCEPT !.ticking = k]
<1>1. /\ Armed(hourly[u]) /\ hourly[u] \in Hourly /\ hourly[u].ticking > 0
      /\ hourly[u].ticking \in Nat /\ hourly[u].orphans \in Nat
  BY DEF HourInv, Armed, Hourly, TickEnds
<1>2. k \in Nat /\ hourly[u].orphans + k + 1 <= MaxLoops
  BY <1>1, MaintenanceAssumption DEF Armed
<1>3. hourly' = [hourly EXCEPT ![u] = IF h.stopped THEN h ELSE Arm(h)]
  BY DEF TickEnds
<1> HIDE DEF k
<1>4. /\ h \in Hourly /\ h.orphans = hourly[u].orphans /\ h.ticking = k
      /\ h.timer = hourly[u].timer /\ h.stopped = hourly[u].stopped
  BY <1>1, <1>2 DEF Hourly
<1>5. ASSUME h.stopped PROVE Armed(h)
  BY <1>1, <1>2, <1>4, <1>5, MaintenanceAssumption DEF Armed
<1>6. ASSUME ~h.stopped PROVE Armed(Arm(h))
  <2>1. h.orphans + h.ticking + (IF h.timer THEN 1 ELSE 0) <= MaxLoops
    BY <1>1, <1>2, <1>4, MaintenanceAssumption
  <2> QED
    BY <1>4, <1>6, <2>1, ArmIsArmed
<1> QED
  BY <1>3, <1>5, <1>6, OneScheduler

\* Every step keeps it: only dispose(), start() and the ticks touch the schedulers.
LEMMA NextHour == ASSUME HourInv, [Next]_vars PROVE HourInv'
<1>1. ASSUME UNCHANGED hourly PROVE HourInv'
  BY <1>1 DEF HourInv
<1>2. ASSUME NEW u \in Users, NEW w \in Workers, Wake(u, w) \/ CycleEnds(u, w) PROVE HourInv'
  BY <1>1, <1>2 DEF Wake, CycleEnds
<1>3. ASSUME NEW u \in Users, HourlyFires(u) \/ TickEnds(u) PROVE HourInv'
  BY <1>3, FiresKeeps, TickKeeps
<1>4. ASSUME NEW p \in Requests, NEW u \in Users, Register(p, u) \/ Ban(p, u) \/ Unban(p, u)
      PROVE  HourInv'
  BY <1>1, <1>4, DisposeKeeps, StartKeeps DEF Register, Ban, Unban, work
<1>5. ASSUME NEW p \in Procs, Proceed(p) PROVE HourInv'
  BY <1>1, <1>5, DisposeKeeps, StartKeeps
  DEF Proceed, Create, Disconnecting, Resuming, work
<1>6. ASSUME NEW b \in Backups, Quiesce(b) \/ Maintain(b) PROVE HourInv'
  <2>1. CASE Visit(b)
    BY <1>1, <2>1, DisposeKeeps, StartKeeps DEF Visit, work
  <2>2. CASE Quiesce(b) \/ WalkEnds(b) \/ Settled(b) \/ Drained(b) \/ GiveUp(b) \/ Snapshot(b)
    BY <1>1, <2>2 DEF Quiesce, WalkEnds, Settled, Drained, GiveUp, Snapshot, Reopen, work
  <2> QED
    BY <1>6, <2>1, <2>2 DEF Maintain
<1>7. CASE UNCHANGED vars
  BY <1>1, <1>7 DEF vars, work
<1> QED
  BY <1>2, <1>3, <1>4, <1>5, <1>6, <1>7 DEF Next

-----------------------------------------------------------------------------
\* However stops and starts fall into the ticks of an hourly scheduler, one that is
\* started has a timer, or a tick that will set it: the hours never silently end.
THEOREM MaintenanceHourGoesOn == Spec => []HourGoesOn
<1>1. Init => HourInv
  BY InitHour
<1>2. HourInv /\ [Next]_vars => HourInv'
  BY NextHour
<1>3. HourInv => HourGoesOn
  BY DEF HourInv, Armed, HourGoesOn
<1> QED
  BY <1>1, <1>2, <1>3, PTL DEF Spec

-----------------------------------------------------------------------------
(***************************************************************************)
(* Who stops and starts the workers.  StopInv has two purposes.            *)
(*                                                                         *)
(* A banned account: its letters are stopped, and as long as another       *)
(* worker is not, some disconnect() is on its way to it (Banned).          *)
(*                                                                         *)
(* A backup that stops all accounts once more: those it has been to are    *)
(* off, and a resumeAll() of an earlier backup that still runs is further  *)
(* in the map than it, or at the same account and ahead of it there        *)
(* (StopsAll).  So what is off stays off.                                  *)
(***************************************************************************)
Operations == {"idle", "hash", "create", "disconnect", "resume"}
Phases == {"idle", "stop", "settle", "drain", "stopAgain", "settleAgain", "snapshot", "resume"}
JobRow == [op : Operations, user : Users, at : Workers, ahead : Nat]

On(u, w)   == <<u, w>> \in on
Pend(u, w) == pending[<<u, w>>]
Registered(u) == \E i \in DOMAIN runtimes : runtimes[i] = u
Starts(p)   == job[p].op \in {"create", "resume"}
Stopping(b) == phase[b] \notin {"idle", "resume"}
After(b)    == phase[b] \in {"stopAgain", "settleAgain", "snapshot"}

\* The type of all but the hourly schedulers.
Types ==
  /\ status \in [Users -> {"none", "active", "banned"}] /\ maintenance \in BOOLEAN
  /\ runtimes \in Seq(Users) /\ on \subseteq Users \X Workers
  /\ pending \in [Users \X Workers -> Nat] /\ job \in [Procs -> JobRow]
  /\ phase \in [Backups -> Phases] /\ pos \in [Backups -> Nat]

\* What p awaits is in the chain, and the account it works on is there, unless p is
\* about to register it.
Known(p) ==
  /\ job[p].ahead <= Pend(job[p].user, job[p].at)
  /\ job[p].op \in {"create", "resume", "disconnect"} => status[job[p].user] # "none"
  /\ Starts(p) => job[p].at # "badges"
  /\ job[p].op = "hash" => status[job[p].user] = "none"

\* A backup at work is at the account before the next one.
Walker(b) ==
  /\ pos[b] \in 1 .. Len(runtimes) + 1
  /\ job[b].op \in {"idle", "disconnect", "resume"}
  /\ job[b].op = "disconnect" => phase[b] \in {"stop", "stopAgain"}
  /\ job[b].op = "resume" => phase[b] = "resume"
  /\ ~IsIdle(b) => pos[b] >= 2 /\ job[b].user = runtimes[pos[b] - 1]

\* The accounts of the database are those that have a runtime, each one.
Directory ==
  /\ \A i, j \in DOMAIN runtimes : runtimes[i] = runtimes[j] => i = j
  /\ \A u \in Users : status[u] # "none" <=> Registered(u)
  /\ \A u \in Users, w \in Workers : status[u] = "none" => ~On(u, w) /\ Pend(u, w) = 0
  /\ \A p, q \in Procs :
       job[p].op = "hash" /\ job[q].op = "hash" /\ job[p].user = job[q].user => p = q

\* One backup has closed the surfaces.
OneBackup ==
  /\ \A b \in Backups : Stopping(b) => maintenance
  /\ \A b, c \in Backups : Stopping(b) /\ Stopping(c) => b = c

\* No request is under way once the drain is over.
Drain == \A b \in Backups : After(b) => \A q \in Requests : IsIdle(q)

Base ==
  /\ Types /\ Directory /\ OneBackup /\ Drain
  /\ \A p \in Procs : Known(p)
  /\ \A b \in Backups : Walker(b)

Leaves(q, u) == job[q].op = "disconnect" /\ job[q].user = u

\* Somebody stops the workers of a banned account that are not stopped yet, and is
\* behind all who still start it: they start the next worker before it stops that.
Banned(u) ==
  status[u] = "banned" =>
    /\ ~On(u, "letters")
    /\ On(u, "proactive") => \E q \in Procs : Leaves(q, u) /\ job[q].at = "letters"
    /\ On(u, "badges") => \E q \in Procs : Leaves(q, u) /\ job[q].at # "badges"
    /\ \A p \in Procs : Starts(p) /\ job[p].user = u /\ job[p].at = "letters"
         => \E q \in Procs : Leaves(q, u) /\ job[q].at = "letters" /\ job[p].ahead <= job[q].ahead

Off(u) == \A w \in Workers : ~On(u, w) /\ Pend(u, w) = 0

\* How many accounts b is through with.
Visited(b) == IF IsIdle(b) THEN pos[b] - 1 ELSE pos[b] - 2

\* c, that starts the account b stops, is ahead of b.
Meets(b, c) ==
  \/ job[c].at = "proactive" /\ job[b].at = "letters"
  \/ job[c].at = job[b].at /\ job[c].ahead <= job[b].ahead

\* c, that wakes the accounts, is ahead of b, that stops them.
Before(b, c) ==
  IF IsIdle(c) THEN pos[c] >= pos[b]
  ELSE pos[c] > pos[b] \/ (pos[c] = pos[b] /\ ~IsIdle(b) /\ Meets(b, c))

\* What b has stopped of the account it is at: it awaits all that is left there.
Stopped(b) ==
  /\ ~On(job[b].user, job[b].at) /\ Pend(job[b].user, job[b].at) = job[b].ahead
  /\ job[b].at # "letters" => ~On(job[b].user, "letters") /\ Pend(job[b].user, "letters") = 0
  /\ job[b].at = "badges" => ~On(job[b].user, "proactive") /\ Pend(job[b].user, "proactive") = 0

StopsAll(b) ==
  /\ phase[b] = "stopAgain" =>
       /\ \A i \in 1 .. Visited(b) : Off(runtimes[i])
       /\ ~IsIdle(b) => Stopped(b)
       /\ \A c \in Backups : phase[c] = "resume" => Before(b, c)
  /\ phase[b] \in {"settleAgain", "snapshot"} =>
       /\ \A i \in DOMAIN runtimes : Off(runtimes[i])
       /\ \A c \in Backups : phase[c] = "resume" => IsIdle(c) /\ pos[c] > Len(runtimes)

\* The inductive invariant.
StopInv == Base /\ (\A u \in Users : Banned(u)) /\ (\A b \in Backups : StopsAll(b))


-----------------------------------------------------------------------------
\* What dispose() does to the workers, the chains and the jobs.
Disposed(p, u, w) ==
  /\ on' \subseteq Users \X Workers /\ pending' = pending /\ job' \in [Procs -> JobRow]
  /\ \A v \in Users, x \in Workers : On(v, x)' <=> On(v, x) /\ <<v, x>> # <<u, w>>
  /\ \A v \in Users, x \in Workers : Pend(v, x)' = Pend(v, x) /\ Pend(v, x) \in Nat
  /\ \A q \in Procs \ {p} : job'[q] = job[q]
  /\ job'[p].op = "disconnect" /\ job'[p].user = u /\ job'[p].at = w
  /\ job'[p].ahead = Pend(u, w)

\* What start() does, to the letters with the badges or to the proactive scheduler.
Started(p, op, u, w) ==
  /\ on' \subseteq Users \X Workers /\ pending' \in [Users \X Workers -> Nat]
  /\ job' \in [Procs -> JobRow]
  /\ \A v \in Users, x \in Workers :
       /\ v # u \/ (w = "proactive" /\ x # "proactive")
            => (On(v, x)' <=> On(v, x)) /\ Pend(v, x)' = Pend(v, x)
       /\ Pend(v, x) <= Pend(v, x)' /\ Pend(v, x) \in Nat
  /\ \A q \in Procs \ {p} : job'[q] = job[q]
  /\ job'[p].op = op /\ job'[p].user = u /\ job'[p].at = w
  /\ job'[p].ahead = Pend(u, w)'

\* dispose() stops the worker and awaits its chain as it is.
LEMMA DisposeDoes ==
  ASSUME Types, NEW p \in Procs, NEW u \in Users, NEW w \in Workers, Dispose(p, u, w)
  PROVE  Disposed(p, u, w)
<1> DEFINE r == [op |-> "disconnect", user |-> u, at |-> w, ahead |-> pending[<<u, w>>]]
<1>1. <<u, w>> \in Users \X Workers /\ pending[<<u, w>>] \in Nat
  BY DEF Types
<1>2. r \in JobRow /\ r.op = "disconnect" /\ r.user = u /\ r.at = w /\ r.ahead = Pend(u, w)
  BY <1>1 DEF JobRow, Operations, Pend
<1>3. job' = [job EXCEPT ![p] = r]
  BY DEF Dispose, Awaits
<1> HIDE DEF r
<1>4. job' \in [Procs -> JobRow] /\ job'[p] = r /\ \A q \in Procs \ {p} : job'[q] = job[q]
  BY <1>2, <1>3 DEF Types
<1>5. /\ on' \subseteq Users \X Workers /\ pending' = pending
      /\ \A v \in Users, x \in Workers : On(v, x)' <=> On(v, x) /\ <<v, x>> # <<u, w>>
      /\ \A v \in Users, x \in Workers : Pend(v, x)' = Pend(v, x) /\ Pend(v, x) \in Nat
  BY DEF Dispose, Types, On, Pend
<1> QED
  BY <1>2, <1>4, <1>5 DEF Disposed

\* start() adds cycles to the account's chains at most, and awaits the chain with
\* them.
LEMMA StartDoes ==
  ASSUME Types, NEW p \in Procs, NEW u \in Users, NEW w \in {"letters", "proactive"},
         NEW op \in {"create", "resume"}, Start(p, op, u, w)
  PROVE  Started(p, op, u, w)
<1> DEFINE new == {x \in {w} \cup (IF w = "letters" THEN {"badges"} ELSE {}) :
                     /\ <<u, x>> \notin on
                     /\ x = "badges" => pending[<<u, x>>] = 0}
           r == [op |-> op, user |-> u, at |-> w, ahead |-> pending'[<<u, w>>]]
<1>1. /\ on' = on \cup {<<u, w>>} \cup (IF w = "letters" THEN {<<u, "badges">>} ELSE {})
      /\ pending' = [x \in Users \X Workers |->
                      IF x[1] = u /\ x[2] \in new THEN pending[x] + 1 ELSE pending[x]]
      /\ job' = [job EXCEPT ![p] = r]
  BY DEF Start, Awaits
<1>2. w \in Workers /\ "badges" \in Workers /\ new \subseteq {w} \cup (IF w = "letters" THEN {"badges"} ELSE {})
  BY DEF Workers
<1> HIDE DEF new, r
<1>3. pending' \in [Users \X Workers -> Nat]
  BY <1>1 DEF Types
<1>4. on' \subseteq Users \X Workers
  BY <1>1, <1>2 DEF Types
<1>5. r \in JobRow /\ r.op = op /\ r.user = u /\ r.at = w /\ r.ahead = Pend(u, w)'
  BY <1>2, <1>3 DEF r, JobRow, Operations, Pend
<1>6. job' \in [Procs -> JobRow] /\ job'[p] = r /\ \A q \in Procs \ {p} : job'[q] = job[q]
  BY <1>1, <1>5 DEF Types
<1>7. ASSUME NEW v \in Users, NEW x \in Workers
      PROVE  /\ v # u \/ (w = "proactive" /\ x # "proactive")
                   => (On(v, x)' <=> On(v, x)) /\ Pend(v, x)' = Pend(v, x)
             /\ Pend(v, x) <= Pend(v, x)' /\ Pend(v, x) \in Nat
  <2>1. <<v, x>> \in Users \X Workers /\ <<v, x>>[1] = v /\ <<v, x>>[2] = x
    OBVIOUS
  <2>2. Pend(v, x)' = IF v = u /\ x \in new THEN Pend(v, x) + 1 ELSE Pend(v, x)
    BY <1>1, <2>1 DEF Pend
  <2>3. Pend(v, x) \in Nat
    BY <2>1 DEF Types, Pend
  <2>4. v # u \/ (w = "proactive" /\ x # "proactive") => (On(v, x)' <=> On(v, x))
    BY <1>1 DEF On
  <2>5. v # u \/ (w = "proactive" /\ x # "proactive") => ~(v = u /\ x \in new)
    BY <1>2
  <2> QED
    BY <2>2, <2>3, <2>4, <2>5
<1> QED
  BY <1>3, <1>4, <1>5, <1>6, <1>7 DEF Started

-----------------------------------------------------------------------------
\* Who does nothing keeps what it awaits, as long as no cycle ends.
LEMMA KnownStays ==
  ASSUME Types, Types', NEW q \in Procs, Known(q), job'[q] = job[q],
         job[q].op = "idle" \/ (status'[job[q].user] = "none" <=> status[job[q].user] = "none"),
         \A v \in Users, x \in Workers : Pend(v, x) <= Pend(v, x)'
  PROVE  Known(q)'
<1>1. PICK v \in Users, x \in Workers : job[q].user = v /\ job[q].at = x
  BY DEF Types, JobRow
<1>2. Pend(v, x) <= Pend(v, x)'
  OBVIOUS
<1>3. Pend(v, x) \in Nat /\ Pend(v, x)' \in Nat /\ job[q].ahead \in Nat
  BY DEF Pend, Types, JobRow
<1>4. Pend(job[q].user, job[q].at)' = Pend(v, x)' /\ Pend(job[q].user, job[q].at) = Pend(v, x)
  BY <1>1
<1> QED
  BY <1>1, <1>2, <1>3, <1>4 DEF Known, Starts

\* One process works on one registered account: what is known of all others stays.
LEMMA OneProc ==
  ASSUME Base, Types', NEW p \in Procs, NEW u \in Users, status[u] # "none",
         runtimes' = runtimes, phase' = phase, maintenance' = maintenance,
         status'[u] # "none", \A v \in Users \ {u} : status'[v] = status[v],
         \A v \in Users, x \in Workers :
           /\ v # u => (On(v, x)' <=> On(v, x)) /\ Pend(v, x)' = Pend(v, x)
           /\ Pend(v, x) <= Pend(v, x)',
         \A q \in Procs \ {p} : job'[q] = job[q],
         \A b \in Backups \ {p} : pos'[b] = pos[b],
         Known(p)', job'[p].op # "hash", p \in Backups => Walker(p)',
         p \in Requests /\ IsIdle(p) => ~maintenance
  PROVE  Base'
<1>1. ASSUME NEW q \in Procs PROVE Known(q)'
  <2>1. CASE q = p
    BY <2>1
  <2>2. CASE q # p
    <3>1. Known(q) /\ job'[q] = job[q] /\ job[q].user \in Users
      BY <2>2 DEF Base, Types, JobRow
    <3> QED
      BY <3>1, KnownStays DEF Base
  <2> QED
    BY <2>1, <2>2
<1>2. ASSUME NEW b \in Backups PROVE Walker(b)'
  <2>1. CASE b # p
    <3>1. job'[b] = job[b]
      BY <2>1 DEF Procs
    <3> QED
      BY <2>1, <3>1 DEF Base, Walker, IsIdle
  <2> QED
    BY <2>1
<1>3. Directory'
  <2>1. \A v \in Users : status'[v] = "none" <=> status[v] = "none"
    OBVIOUS
  <2>2. \A v \in Users : status[v] = "none" => v # u
    OBVIOUS
  <2> QED
    BY <2>1, <2>2 DEF Base, Directory, Registered
<1>4. OneBackup'
  BY DEF Base, OneBackup, Stopping
<1>5. Drain'
  <2> SUFFICES ASSUME NEW b \in Backups, After(b)', NEW q \in Requests PROVE IsIdle(q)'
    BY DEF Drain
  <2>1. After(b) /\ maintenance /\ IsIdle(q)
    BY DEF After, Stopping, Base, Drain, OneBackup
  <2> QED
    BY <2>1 DEF Procs, IsIdle
<1> QED
  BY <1>1, <1>2, <1>3, <1>4, <1>5 DEF Base

\* A step that changes no account, no job and no worker: only how far a backup is.
LEMMA BackupMoves ==
  ASSUME Base, UNCHANGED <<accounts, work, job>>, NEW b \in Backups, IsIdle(b),
         NEW ph \in Phases, Walk(b, ph), maintenance' \in BOOLEAN,
         \/ ph \in {"idle", "resume"} /\ \A c \in Backups \ {b} : Stopping(c) => maintenance'
         \/ maintenance' /\ \A c \in Backups \ {b} : ~Stopping(c),
         ph \in {"stopAgain", "settleAgain", "snapshot"} => \A q \in Requests : IsIdle(q)
  PROVE  Base'
<1>1. /\ UNCHANGED <<status, runtimes, on, pending, job>>
      /\ phase' = [phase EXCEPT ![b] = ph] /\ pos' = [pos EXCEPT ![b] = 1]
  BY DEF accounts, work, Walk
<1>2. Types'
  BY <1>1 DEF Base, Types
<1>3. /\ phase'[b] = ph /\ pos'[b] = 1
      /\ \A c \in Backups \ {b} : phase'[c] = phase[c] /\ pos'[c] = pos[c]
  BY <1>1 DEF Base, Types
<1>4. ASSUME NEW q \in Procs PROVE Known(q)'
  BY <1>1 DEF Base, Known, Starts, Pend
<1>5. ASSUME NEW c \in Backups PROVE Walker(c)'
  <2>1. Walker(c) /\ Len(runtimes) \in Nat
    BY DEF Base, Types
  <2> QED
    BY <1>1, <1>3, <2>1 DEF Walker, IsIdle
<1>6. Directory'
  BY <1>1 DEF Base, Directory, Registered, On, Pend
<1>7. OneBackup'
  BY <1>3 DEF Base, OneBackup, Stopping
<1>8. Drain'
  BY <1>1, <1>3 DEF Base, Drain, After, IsIdle
<1> QED
  BY <1>2, <1>4, <1>5, <1>6, <1>7, <1>8 DEF Base

\* A cycle begins: nobody awaits fewer.
LEMMA WakeBase == ASSUME Base, NEW u \in Users, NEW w \in Workers, Wake(u, w) PROVE Base'
<1>1. UNCHANGED <<status, runtimes, on, job, phase, pos, maintenance>>
  BY DEF Wake, accounts, backup
<1>2. /\ pending' = [pending EXCEPT ![<<u, w>>] = 1] /\ <<u, w>> \in Users \X Workers
      /\ pending[<<u, w>>] = 0 /\ On(u, w)
  BY DEF Wake, On
<1>3. Types'
  BY <1>1, <1>2 DEF Base, Types
<1>4. ASSUME NEW v \in Users, NEW x \in Workers
      PROVE  /\ Pend(v, x) <= Pend(v, x)'
             /\ <<v, x>> # <<u, w>> => Pend(v, x)' = Pend(v, x)
  <2>1. <<v, x>> \in Users \X Workers /\ pending[<<v, x>>] \in Nat
    BY DEF Base, Types
  <2>2. pending'[<<v, x>>] = IF <<v, x>> = <<u, w>> THEN 1 ELSE pending[<<v, x>>]
    BY <1>2, <2>1 DEF Base, Types
  <2>3. <<v, x>> = <<u, w>> => pending[<<v, x>>] = 0
    BY <1>2, Zenon
  <2> QED
    BY <2>1, <2>2, <2>3 DEF Pend
<1>5. ASSUME NEW q \in Procs PROVE Known(q)'
  BY <1>1, <1>3, <1>4, KnownStays DEF Base
<1>6. \A b \in Backups : Walker(b)'
  BY <1>1 DEF Base, Walker, IsIdle
<1>7. Directory'
  <2>1. ASSUME NEW v \in Users, NEW x \in Workers, status[v] = "none"
        PROVE  ~On(v, x)' /\ Pend(v, x)' = 0
    <3>1. ~On(v, x) /\ Pend(v, x) = 0
      BY <2>1 DEF Base, Directory
    <3>2. <<v, x>> # <<u, w>>
      BY <1>2, <3>1
    <3> QED
      BY <1>1, <1>4, <3>1, <3>2 DEF On
  <2> QED
    BY <1>1, <2>1 DEF Base, Directory, Registered
<1>8. OneBackup' /\ Drain'
  BY <1>1 DEF Base, OneBackup, Stopping, Drain, After, IsIdle
<1> QED
  BY <1>3, <1>5, <1>6, <1>7, <1>8 DEF Base

\* What the end of a cycle does to the chains and to those who await it.
LEMMA CycleDoes ==
  ASSUME Types, NEW u \in Users, NEW w \in Workers, CycleEnds(u, w)
  PROVE  /\ UNCHANGED <<status, runtimes, on, phase, pos, maintenance>> /\ Types'
         /\ Pend(u, w) > 0 /\ Pend(u, w) \in Nat /\ Pend(u, w)' = Pend(u, w) - 1
         /\ \A v \in Users, x \in Workers : <<v, x>> # <<u, w>> => Pend(v, x)' = Pend(v, x)
         /\ \A v \in Users, x \in Workers : On(v, x)' <=> On(v, x)
         /\ \A p \in Procs :
              /\ job'[p].op = job[p].op /\ job'[p].user = job[p].user /\ job'[p].at = job[p].at
              /\ job[p].ahead \in Nat /\ job'[p].ahead \in Nat
              /\ job'[p].ahead = IF job[p].user = u /\ job[p].at = w /\ job[p].ahead > 0
                                   THEN job[p].ahead - 1 ELSE job[p].ahead
<1>1. UNCHANGED <<status, runtimes, on, phase, pos, maintenance>>
  BY DEF CycleEnds, accounts, backup
<1>2. /\ pending' = [pending EXCEPT ![<<u, w>>] = pending[<<u, w>>] - 1]
      /\ <<u, w>> \in Users \X Workers /\ pending[<<u, w>>] > 0 /\ pending[<<u, w>>] \in Nat
  BY DEF CycleEnds, Types
<1>3. pending' \in [Users \X Workers -> Nat]
  BY <1>2 DEF Types
<1>4. /\ Pend(u, w) > 0 /\ Pend(u, w) \in Nat /\ Pend(u, w)' = Pend(u, w) - 1
      /\ \A v \in Users, x \in Workers : <<v, x>> # <<u, w>> => Pend(v, x)' = Pend(v, x)
      /\ \A v \in Users, x \in Workers : On(v, x)' <=> On(v, x)
  BY <1>1, <1>2 DEF Types, Pend, On
<1>5. ASSUME NEW p \in Procs
      PROVE  /\ job'[p] \in JobRow
             /\ job'[p].op = job[p].op /\ job'[p].user = job[p].user /\ job'[p].at = job[p].at
             /\ job[p].ahead \in Nat /\ job'[p].ahead \in Nat
             /\ job'[p].ahead = IF job[p].user = u /\ job[p].at = w /\ job[p].ahead > 0
                                  THEN job[p].ahead - 1 ELSE job[p].ahead
  <2>1. job[p] \in JobRow /\ job[p].ahead \in Nat
    BY DEF Types, JobRow
  <2>2. job'[p] = IF job[p].user = u /\ job[p].at = w /\ job[p].ahead > 0
                    THEN [job[p] EXCEPT !.ahead = job[p].ahead - 1] ELSE job[p]
    BY DEF CycleEnds
  <2> QED
    BY <2>1, <2>2 DEF JobRow
<1>6. job' \in [Procs -> JobRow]
  <2>1. job' = [p \in Procs |-> job'[p]]
    BY DEF CycleEnds
  <2> QED
    BY <1>5, <2>1
<1>7. Types'
  BY <1>1, <1>3, <1>6 DEF Types
<1> QED
  BY <1>1, <1>4, <1>5, <1>7

\* The end of a cycle takes one from the chain and from all who await it.
LEMMA CycleBase == ASSUME Base, NEW u \in Users, NEW w \in Workers, CycleEnds(u, w) PROVE Base'
<1>1. /\ UNCHANGED <<status, runtimes, on, phase, pos, maintenance>> /\ Types'
      /\ Pend(u, w) > 0 /\ Pend(u, w) \in Nat /\ Pend(u, w)' = Pend(u, w) - 1
      /\ \A v \in Users, x \in Workers : <<v, x>> # <<u, w>> => Pend(v, x)' = Pend(v, x)
      /\ \A v \in Users, x \in Workers : On(v, x)' <=> On(v, x)
      /\ \A p \in Procs :
           /\ job'[p].op = job[p].op /\ job'[p].user = job[p].user /\ job'[p].at = job[p].at
           /\ job[p].ahead \in Nat /\ job'[p].ahead \in Nat
           /\ job'[p].ahead = IF job[p].user = u /\ job[p].at = w /\ job[p].ahead > 0
                                THEN job[p].ahead - 1 ELSE job[p].ahead
  BY CycleDoes DEF Base
<1>2. ASSUME NEW q \in Procs PROVE Known(q)'
  <2>1. PICK v \in Users, x \in Workers : job[q].user = v /\ job[q].at = x
    BY DEF Base, Types, JobRow
  <2>2. Known(q) /\ job[q].ahead <= Pend(v, x) /\ Pend(v, x) \in Nat
    BY <2>1 DEF Base, Known, Types, Pend
  <2>3. job'[q].ahead <= Pend(v, x)'
    BY <1>1, <2>1, <2>2
  <2>4. Pend(job[q].user, job[q].at)' = Pend(v, x)'
    BY <1>1, <2>1
  <2> QED
    BY <1>1, <2>1, <2>2, <2>3, <2>4 DEF Known, Starts
<1>3. \A b \in Backups : Walker(b)'
  BY <1>1 DEF Base, Walker, IsIdle, Procs
<1>4. Directory'
  <2>1. ASSUME NEW v \in Users, NEW x \in Workers, status[v] = "none"
        PROVE  ~On(v, x)' /\ Pend(v, x)' = 0
    <3>1. ~On(v, x) /\ Pend(v, x) = 0
      BY <2>1 DEF Base, Directory
    <3>2. <<v, x>> # <<u, w>>
      BY <1>1, <3>1
    <3> QED
      BY <1>1, <3>1, <3>2
  <2> QED
    BY <1>1, <2>1 DEF Base, Directory, Registered
<1>5. OneBackup' /\ Drain'
  BY <1>1 DEF Base, OneBackup, Stopping, Drain, After, IsIdle, Procs
<1> QED
  BY <1>1, <1>2, <1>3, <1>4, <1>5 DEF Base

-----------------------------------------------------------------------------
\* A registration takes the name of an account nobody else registers.
LEMMA RegisterBase ==
  ASSUME Base, NEW p \in Requests, NEW u \in Users, Register(p, u)
  PROVE  /\ Base' /\ UNCHANGED <<status, runtimes, on, pending, phase, pos, maintenance>>
         /\ \A q \in Procs \ {p} : job'[q] = job[q]
         /\ job'[p].op = "hash" /\ IsIdle(p) /\ ~maintenance /\ p \in Procs
<1> DEFINE r == [op |-> "hash", user |-> u, at |-> "letters", ahead |-> 0]
<1>1. /\ UNCHANGED <<status, runtimes, on, pending, phase, pos, maintenance>>
      /\ IsIdle(p) /\ ~maintenance /\ p \in Procs /\ status[u] = "none"
      /\ job' = [job EXCEPT ![p] = r]
      /\ \A q \in Procs : job[q].op = "hash" => job[q].user # u
  BY DEF Register, accounts, work, backup, Awaits, Procs
<1>2. r \in JobRow /\ r.op = "hash" /\ r.user = u /\ r.at = "letters" /\ r.ahead = 0
  BY DEF JobRow, Operations, Workers
<1> HIDE DEF r
<1>3. job'[p] = r /\ \A q \in Procs \ {p} : job'[q] = job[q]
  BY <1>1 DEF Base, Types
<1>4. Types'
  BY <1>1, <1>2 DEF Base, Types
<1>5. ASSUME NEW q \in Procs PROVE Known(q)'
  <2>1. CASE q = p
    <3>1. Pend(u, "letters")' \in Nat
      BY <1>4 DEF Types, Pend, Workers
    <3>2. Pend(job[p].user, job[p].at)' = Pend(u, "letters")'
      BY <1>2, <1>3
    <3> QED
      BY <1>1, <1>2, <1>3, <2>1, <3>1, <3>2 DEF Known, Starts
  <2>2. CASE q # p
    BY <1>1, <1>3, <2>2 DEF Base, Known, Starts, Pend
  <2> QED
    BY <2>1, <2>2
<1>6. ASSUME NEW b \in Backups PROVE Walker(b)'
  <2>1. b # p /\ b \in Procs
    BY MaintenanceAssumption DEF Procs
  <2> QED
    BY <1>1, <1>3, <2>1 DEF Base, Walker, IsIdle
<1>7. Directory'
  BY <1>1, <1>2, <1>3 DEF Base, Directory, Registered, On, Pend
<1>8. OneBackup' /\ Drain'
  BY <1>1 DEF Base, OneBackup, Stopping, Drain, After
<1> QED
  BY <1>1, <1>2, <1>3, <1>4, <1>5, <1>6, <1>7, <1>8 DEF Base

\* The runtime of a new account is the last of the map.
LEMMA CreateBase ==
  ASSUME Base, NEW p \in Requests, Create(p)
  PROVE  /\ Base' /\ UNCHANGED <<phase, pos, maintenance>>
         /\ \E u \in Users :
              /\ status' = [status EXCEPT ![u] = "active"] /\ runtimes' = Append(runtimes, u)
              /\ \A v \in Users \ {u}, x \in Workers : (On(v, x)' <=> On(v, x)) /\ Pend(v, x)' = Pend(v, x)
              /\ job'[p].user = u
         /\ \A q \in Procs \ {p} : job'[q] = job[q]
         /\ job[p].op = "hash" /\ p \in Procs
<1>1. PICK u \in Users : job[p].user = u
  BY DEF Base, Types, JobRow, Procs
<1>2. /\ UNCHANGED <<phase, pos, maintenance>> /\ job[p].op = "hash" /\ p \in Procs
      /\ status' = [status EXCEPT ![u] = "active"] /\ runtimes' = Append(runtimes, u)
      /\ Start(p, "create", u, "letters")
  BY <1>1 DEF Create, backup, Procs
<1>3. /\ on' \subseteq Users \X Workers /\ pending' \in [Users \X Workers -> Nat]
      /\ job' \in [Procs -> JobRow]
      /\ \A v \in Users, x \in Workers :
           /\ v # u => (On(v, x)' <=> On(v, x)) /\ Pend(v, x)' = Pend(v, x)
           /\ Pend(v, x) <= Pend(v, x)' /\ Pend(v, x) \in Nat
      /\ \A q \in Procs \ {p} : job'[q] = job[q]
      /\ job'[p].op = "create" /\ job'[p].user = u /\ job'[p].at = "letters"
      /\ job'[p].ahead = Pend(u, "letters")'
  <2>1. Started(p, "create", u, "letters")
    BY <1>2, StartDoes DEF Base
  <2> QED
    BY <2>1 DEF Started
<1>4. status[u] = "none" /\ status'[u] = "active" /\ \A v \in Users \ {u} : status'[v] = status[v]
  BY <1>1, <1>2 DEF Base, Known, Types
<1>5. Types'
  <2>1. runtimes' \in Seq(Users)
    BY <1>2 DEF Base, Types
  <2>2. status' \in [Users -> {"none", "active", "banned"}]
    BY <1>2 DEF Base, Types
  <2> QED
    BY <1>2, <1>3, <2>1, <2>2 DEF Base, Types
<1>6. /\ Len(runtimes') = Len(runtimes) + 1 /\ Len(runtimes) \in Nat
      /\ runtimes'[Len(runtimes) + 1] = u
      /\ \A i \in 1 .. Len(runtimes) : runtimes'[i] = runtimes[i]
      /\ DOMAIN runtimes = 1 .. Len(runtimes) /\ DOMAIN runtimes' = 1 .. Len(runtimes) + 1
  BY <1>2 DEF Base, Types
<1>7. ASSUME NEW q \in Procs PROVE Known(q)'
  <2>1. CASE q = p
    <3>1. Pend(job[p].user, job[p].at)' = Pend(u, "letters")'
      BY <1>3
    <3>2. Pend(u, "letters")' \in Nat
      BY <1>5 DEF Types, Pend, Workers
    <3> QED
      BY <1>3, <1>4, <2>1, <3>1, <3>2 DEF Known, Starts
  <2>2. CASE q # p
    <3>1. job[q].op = "idle" \/ job[q].user # u
      BY <1>1, <1>2, <1>4, <2>2 DEF Base, Known, Directory, Types, JobRow, Operations
    <3>2. job[q].user \in Users
      BY DEF Base, Types, JobRow
    <3>3. job[q].op = "idle" \/ (status'[job[q].user] = "none" <=> status[job[q].user] = "none")
      BY <1>4, <3>1, <3>2
    <3>4. Types /\ Known(q)
      BY DEF Base
    <3>5. \A v \in Users, x \in Workers : Pend(v, x) <= Pend(v, x)'
      BY <1>3
    <3> QED
      BY <1>3, <1>5, <2>2, <3>3, <3>4, <3>5, KnownStays
  <2> QED
    BY <2>1, <2>2
<1>8. ASSUME NEW b \in Backups PROVE Walker(b)'
  <2>1. b # p /\ b \in Procs /\ Walker(b)
    BY MaintenanceAssumption DEF Procs, Base
  <2>2. job'[b] = job[b]
    BY <1>3, <2>1
  <2> QED
    BY <1>2, <1>6, <2>1, <2>2 DEF Walker, IsIdle
<1>9. Directory'
  <2>1. ~Registered(u)
    BY <1>4 DEF Base, Directory
  <2>2. \A i, j \in DOMAIN runtimes' : runtimes'[i] = runtimes'[j] => i = j
    <3>1. \A i \in 1 .. Len(runtimes) : runtimes[i] # u
      BY <1>6, <2>1 DEF Registered
    <3>2. \A i, j \in 1 .. Len(runtimes) : runtimes[i] = runtimes[j] => i = j
      BY <1>6 DEF Base, Directory
    <3> QED
      BY <1>6, <3>1, <3>2
  <2>3. Registered(u)' /\ \A v \in Users \ {u} : Registered(v)' <=> Registered(v)
    <3>1. Registered(u)'
      BY <1>6 DEF Registered
    <3>2. ASSUME NEW v \in Users \ {u} PROVE Registered(v)' <=> Registered(v)
      BY <1>6 DEF Registered
    <3> QED
      BY <3>1, <3>2
  <2>4. \A v \in Users : status'[v] # "none" <=> Registered(v)'
    BY <1>4, <2>3 DEF Base, Directory
  <2>5. \A v \in Users, w \in Workers : status'[v] = "none" => ~On(v, w)' /\ Pend(v, w)' = 0
    BY <1>3, <1>4 DEF Base, Directory
  <2>6. \A q, r \in Procs :
          job'[q].op = "hash" /\ job'[r].op = "hash" /\ job'[q].user = job'[r].user => q = r
    BY <1>3 DEF Base, Directory
  <2> QED
    BY <2>2, <2>4, <2>5, <2>6 DEF Directory
<1>10. OneBackup' /\ Drain'
  <2>1. Drain'
    <3> SUFFICES ASSUME NEW b \in Backups, After(b)' PROVE FALSE
      BY DEF Drain
    <3>1. After(b) /\ IsIdle(p)
      BY <1>2 DEF After, Base, Drain
    <3> QED
      BY <1>2, <3>1 DEF IsIdle
  <2> QED
    BY <1>2, <2>1 DEF Base, OneBackup, Stopping
<1> QED
  BY <1>2, <1>3, <1>5, <1>7, <1>8, <1>9, <1>10 DEF Base

\* Stopping a worker keeps the basic facts.
LEMMA DisposeBase ==
  ASSUME Base, NEW p \in Procs, NEW u \in Users, NEW w \in Workers, Disposed(p, u, w),
         UNCHANGED <<runtimes, phase, maintenance>>, status[u] # "none", status'[u] # "none",
         status' \in [Users -> {"none", "active", "banned"}],
         \A v \in Users \ {u} : status'[v] = status[v],
         pos' \in [Backups -> Nat], \A b \in Backups \ {p} : pos'[b] = pos[b],
         p \in Backups => Walker(p)', p \in Requests /\ IsIdle(p) => ~maintenance
  PROVE  Base'
<1>1. Types'
  BY DEF Base, Types, Disposed
<1>2. Known(p)'
  <2>1. Pend(job[p].user, job[p].at)' = Pend(u, w) /\ Pend(u, w) \in Nat
    BY DEF Disposed
  <2> QED
    BY <2>1 DEF Disposed, Known, Starts
<1>3. /\ \A v \in Users, x \in Workers :
           /\ v # u => (On(v, x)' <=> On(v, x)) /\ Pend(v, x)' = Pend(v, x)
           /\ Pend(v, x) <= Pend(v, x)'
      /\ \A q \in Procs \ {p} : job'[q] = job[q]
      /\ job'[p].op # "hash"
  BY DEF Disposed
<1> QED
  BY <1>1, <1>2, <1>3, OneProc

\* Starting one does.
LEMMA StartBase ==
  ASSUME Base, NEW p \in Procs, NEW u \in Users, NEW w \in {"letters", "proactive"},
         NEW op \in {"create", "resume"}, Started(p, op, u, w),
         UNCHANGED <<runtimes, phase, maintenance>>, status[u] # "none", status'[u] # "none",
         status' \in [Users -> {"none", "active", "banned"}],
         \A v \in Users \ {u} : status'[v] = status[v],
         pos' \in [Backups -> Nat], \A b \in Backups \ {p} : pos'[b] = pos[b],
         p \in Backups => Walker(p)', p \in Requests /\ IsIdle(p) => ~maintenance
  PROVE  Base'
<1>1. Types'
  BY DEF Base, Types, Started
<1>2. Known(p)'
  <2>1. Pend(job[p].user, job[p].at)' = Pend(u, w)' /\ Pend(u, w)' \in Nat
    BY DEF Started, Pend, Workers
  <2> QED
    BY <2>1 DEF Started, Known, Starts
<1>3. /\ \A v \in Users, x \in Workers :
           /\ v # u => (On(v, x)' <=> On(v, x)) /\ Pend(v, x)' = Pend(v, x)
           /\ Pend(v, x) <= Pend(v, x)'
      /\ \A q \in Procs \ {p} : job'[q] = job[q]
      /\ job'[p].op # "hash"
  BY DEF Started
<1> QED
  BY <1>1, <1>2, <1>3, OneProc

\* disconnect() or resume() of p is over.
Ended(p) ==
  /\ UNCHANGED <<status, runtimes, on, pending, phase, pos, maintenance>>
  /\ job' = [job EXCEPT ![p] = Idle]

\* So does the end of a disconnect() or resume().
LEMMA EndBase ==
  ASSUME Base, NEW p \in Procs, Ended(p), ~IsIdle(p), status[job[p].user] # "none" PROVE Base'
<1>1. Idle \in JobRow /\ Idle.op = "idle" /\ Idle.ahead = 0
  BY MaintenanceAssumption DEF Idle, JobRow, Operations, Workers
<1>2. job'[p] = Idle /\ \A q \in Procs \ {p} : job'[q] = job[q]
  BY DEF Ended, Base, Types
<1>3. Types'
  BY <1>1 DEF Ended, Base, Types
<1>4. Known(p)'
  <2>1. PICK v \in Users, x \in Workers : Idle.user = v /\ Idle.at = x
    BY <1>1 DEF JobRow
  <2>2. Pend(job[p].user, job[p].at)' = Pend(v, x)' /\ Pend(v, x)' \in Nat
    BY <1>2, <1>3, <2>1 DEF Types, Pend
  <2> QED
    BY <1>1, <1>2, <2>2 DEF Known, Starts
<1>5. p \in Backups => Walker(p)'
  BY <1>1, <1>2 DEF Base, Walker, IsIdle, Ended
<1>6. PICK u \in Users : job[p].user = u
  BY DEF Base, Types, JobRow
<1>7. \A v \in Users, x \in Workers :
         (On(v, x)' <=> On(v, x)) /\ Pend(v, x)' = Pend(v, x) /\ Pend(v, x) <= Pend(v, x)'
  BY DEF Ended, On, Pend, Base, Types
<1> QED
  BY <1>1, <1>2, <1>3, <1>4, <1>5, <1>6, <1>7, OneProc DEF Ended

-----------------------------------------------------------------------------
\* A step of one process on one account leaves what is known of the others.
LEMMA BannedElse ==
  ASSUME NEW p \in Procs, NEW v \in Users, Banned(v), status'[v] = status[v],
         \A x \in Workers : On(v, x)' => On(v, x),
         \A q \in Procs \ {p} : job'[q] = job[q],
         job[p].op \in {"idle", "hash"} \/ job[p].user # v,
         job'[p].op \in {"idle", "hash", "disconnect"} \/ job'[p].user # v
  PROVE  Banned(v)'
<1> SUFFICES ASSUME status'[v] = "banned" PROVE Banned(v)'
  BY DEF Banned
<1>1. "letters" \in Workers /\ "proactive" \in Workers /\ "badges" \in Workers
  BY DEF Workers
<1>2. ~On(v, "letters")'
  BY <1>1 DEF Banned
<1>3. ASSUME On(v, "proactive")' PROVE \E q \in Procs : Leaves(q, v)' /\ job'[q].at = "letters"
  <2>1. PICK q \in Procs : Leaves(q, v) /\ job[q].at = "letters"
    BY <1>1, <1>3 DEF Banned
  <2> QED
    BY <2>1 DEF Leaves
<1>4. ASSUME On(v, "badges")' PROVE \E q \in Procs : Leaves(q, v)' /\ job'[q].at # "badges"
  <2>1. PICK q \in Procs : Leaves(q, v) /\ job[q].at # "badges"
    BY <1>1, <1>4 DEF Banned
  <2> QED
    BY <2>1 DEF Leaves
<1>5. ASSUME NEW c \in Procs, Starts(c)', job'[c].user = v, job'[c].at = "letters"
      PROVE  \E q \in Procs : Leaves(q, v)' /\ job'[q].at = "letters" /\ job'[c].ahead <= job'[q].ahead
  <2>1. c # p /\ job'[c] = job[c] /\ Starts(c)
    BY <1>5 DEF Starts
  <2>2. PICK q \in Procs : Leaves(q, v) /\ job[q].at = "letters" /\ job[c].ahead <= job[q].ahead
    BY <1>5, <2>1 DEF Banned
  <2> QED
    BY <2>1, <2>2 DEF Leaves
<1> QED
  BY <1>2, <1>3, <1>4, <1>5 DEF Banned

\* Nobody is past the second stop, so nothing is promised of it.
LEMMA NobodyStops == ASSUME \A b \in Backups : ~After(b)' PROVE \A b \in Backups : StopsAll(b)'
  BY DEF After, StopsAll

\* While a backup is past the second stop no request takes a step.
LEMMA RequestsFirst ==
  ASSUME Base, NEW p \in Requests, ~maintenance \/ ~IsIdle(p), phase' = phase
  PROVE  \A b \in Backups : StopsAll(b)'
<1>1. ASSUME NEW b \in Backups, After(b) PROVE FALSE
  BY <1>1 DEF Base, Drain, OneBackup, After, Stopping
<1>2. \A b \in Backups : ~After(b)'
  BY <1>1 DEF After
<1> QED
  BY <1>2, NobodyStops

\* A registration begins.
LEMMA RegisterKeeps ==
  ASSUME StopInv, NEW p \in Requests, NEW u \in Users, Register(p, u) PROVE StopInv'
<1>1. /\ Base' /\ UNCHANGED <<status, runtimes, on, pending, phase, pos, maintenance>>
      /\ \A q \in Procs \ {p} : job'[q] = job[q]
      /\ job'[p].op = "hash" /\ IsIdle(p) /\ ~maintenance /\ p \in Procs
  BY RegisterBase DEF StopInv
<1>2. \A v \in Users : Banned(v)'
  BY <1>1, BannedElse DEF StopInv, IsIdle, On
<1> QED
  BY <1>1, <1>2, RequestsFirst DEF StopInv

\* A registration creates the runtime; no backup is past the drain meanwhile.
LEMMA CreateKeeps == ASSUME StopInv, NEW p \in Requests, Create(p) PROVE StopInv'
<1>1. /\ Base' /\ UNCHANGED <<phase, pos, maintenance>>
      /\ \A q \in Procs \ {p} : job'[q] = job[q]
      /\ job[p].op = "hash" /\ p \in Procs
  BY CreateBase DEF StopInv
<1>2. PICK u \in Users :
        /\ status' = [status EXCEPT ![u] = "active"]
        /\ \A v \in Users \ {u}, x \in Workers : (On(v, x)' <=> On(v, x)) /\ Pend(v, x)' = Pend(v, x)
        /\ job'[p].user = u
  BY CreateBase DEF StopInv
<1>3. status'[u] = "active" /\ \A v \in Users \ {u} : status'[v] = status[v]
  BY <1>2 DEF StopInv, Base, Types
<1>4. Banned(u)'
  BY <1>3 DEF Banned
<1>5. \A v \in Users \ {u} : Banned(v)'
  BY <1>1, <1>2, <1>3, BannedElse DEF StopInv
<1> QED
  BY <1>1, <1>4, <1>5, RequestsFirst DEF StopInv, IsIdle

\* Who is banned now is stopped behind everybody who is still starting the account.
LEMMA BanKeeps == ASSUME StopInv, NEW p \in Requests, NEW u \in Users, Ban(p, u) PROVE StopInv'
<1>1. /\ IsIdle(p) /\ ~maintenance /\ p \in Procs /\ p \notin Backups /\ status[u] # "none"
      /\ status' = [status EXCEPT ![u] = "banned"]
      /\ UNCHANGED <<runtimes, phase, pos, maintenance>> /\ Dispose(p, u, "letters")
  BY MaintenanceAssumption DEF Ban, backup, Procs
<1>2. Disposed(p, u, "letters")
  BY <1>1, DisposeDoes DEF StopInv, Base, Workers
<1>3. /\ status'[u] = "banned" /\ \A v \in Users \ {u} : status'[v] = status[v]
      /\ status' \in [Users -> {"none", "active", "banned"}] /\ pos' \in [Backups -> Nat]
  BY <1>1 DEF StopInv, Base, Types
<1>4. Base'
  BY <1>1, <1>2, <1>3, DisposeBase DEF StopInv, Workers
<1>5. Banned(u)'
  <2>1. Leaves(p, u)' /\ job'[p].at = "letters" /\ job'[p].ahead = Pend(u, "letters")
    BY <1>2 DEF Disposed, Leaves
  <2>2. ~On(u, "letters")'
    BY <1>2 DEF Disposed, Workers
  <2>3. ASSUME NEW c \in Procs, Starts(c)', job'[c].user = u, job'[c].at = "letters"
        PROVE  job'[c].ahead <= job'[p].ahead
    <3>1. c # p /\ job'[c] = job[c]
      BY <1>2, <2>3 DEF Disposed, Starts
    <3>2. job[c].ahead <= Pend(job[c].user, job[c].at)
      BY DEF StopInv, Base, Known
    <3> QED
      BY <2>1, <2>3, <3>1, <3>2
  <2> QED
    BY <1>1, <2>1, <2>2, <2>3 DEF Banned
<1>6. \A v \in Users \ {u} : Banned(v)'
  BY <1>1, <1>2, <1>3, BannedElse DEF StopInv, Disposed, IsIdle
<1> QED
  BY <1>1, <1>4, <1>5, <1>6, RequestsFirst DEF StopInv

\* Who is unbanned promises nothing.
LEMMA UnbanKeeps ==
  ASSUME StopInv, NEW p \in Requests, NEW u \in Users, Unban(p, u)
  PROVE  StopInv'
<1>1. /\ IsIdle(p) /\ ~maintenance /\ p \in Procs /\ p \notin Backups /\ status[u] # "none"
      /\ status' = [status EXCEPT ![u] = "active"]
      /\ UNCHANGED <<runtimes, phase, pos, maintenance>> /\ Start(p, "resume", u, "letters")
  BY MaintenanceAssumption DEF Unban, backup, Procs
<1>2. Started(p, "resume", u, "letters")
  BY <1>1, StartDoes DEF StopInv, Base
<1>3. /\ status'[u] = "active" /\ \A v \in Users \ {u} : status'[v] = status[v]
      /\ status' \in [Users -> {"none", "active", "banned"}] /\ pos' \in [Backups -> Nat]
  BY <1>1 DEF StopInv, Base, Types
<1>4. Base'
  BY <1>1, <1>2, <1>3, StartBase DEF StopInv
<1>5. Banned(u)'
  BY <1>3 DEF Banned
<1>6. \A v \in Users \ {u} : Banned(v)'
  BY <1>1, <1>2, <1>3, BannedElse DEF StopInv, Started, IsIdle
<1> QED
  BY <1>1, <1>4, <1>5, <1>6, RequestsFirst DEF StopInv

-----------------------------------------------------------------------------
\* What b counts on while others take a step: the accounts it has visited, and the
\* workers it has stopped of the account it is at.
CountsOn(b, v, x) ==
  \/ phase[b] # "stopAgain"
  \/ \E i \in 1 .. Visited(b) : runtimes[i] = v
  \/ ~IsIdle(b) /\ job[b].user = v /\ (x = "letters" \/ job[b].at # "letters")

\* What others do elsewhere leaves a backup's promise, if those who wake accounts stay
\* ahead of it.
LEMMA OthersStep ==
  ASSUME Base, NEW b \in Backups, StopsAll(b), runtimes' = runtimes,
         job'[b] = job[b], phase'[b] = phase[b], pos'[b] = pos[b],
         \A v \in Users, x \in Workers :
           CountsOn(b, v, x) /\ ~On(v, x) => ~On(v, x)' /\ Pend(v, x)' = Pend(v, x),
         \A c \in Backups : phase'[c] = "resume" =>
           IF phase[b] = "stopAgain" THEN Before(b, c)' ELSE IsIdle(c)' /\ pos'[c] > Len(runtimes)
  PROVE  StopsAll(b)'
<1>1. Visited(b)' = Visited(b) /\ (IsIdle(b)' <=> IsIdle(b)) /\ Visited(b) \in Int
  BY DEF Visited, IsIdle, Base, Types
<1>2. ASSUME NEW v \in Users, Off(v), \A x \in Workers : CountsOn(b, v, x) PROVE Off(v)'
  BY <1>2 DEF Off
<1>3. DOMAIN runtimes = 1 .. Len(runtimes) /\ \A i \in DOMAIN runtimes : runtimes[i] \in Users
  BY DEF Base, Types
<1>4. ASSUME phase[b] = "stopAgain" PROVE \A i \in 1 .. Visited(b) : Off(runtimes[i])'
  <2> SUFFICES ASSUME NEW i \in 1 .. Visited(b) PROVE Off(runtimes[i])'
    OBVIOUS
  <2>1. i \in DOMAIN runtimes
    BY <1>3 DEF Visited, Base, Walker, Types
  <2>2. PICK v \in Users : runtimes[i] = v
    BY <1>3, <2>1
  <2>3. Off(v)
    BY <1>4, <2>2 DEF StopsAll
  <2>4. Off(v)'
    BY <1>2, <2>2, <2>3 DEF CountsOn
  <2> QED
    BY <2>2, <2>4
<1>5. ASSUME phase[b] = "stopAgain", ~IsIdle(b) PROVE Stopped(b)'
  <2>1. PICK v \in Users, x \in Workers : job[b].user = v /\ job[b].at = x
    BY DEF Base, Types, JobRow, Procs
  <2>2. "letters" \in Workers /\ "proactive" \in Workers
    BY DEF Workers
  <2>3. CountsOn(b, v, "letters") /\ CountsOn(b, v, x) /\ (x # "letters" => CountsOn(b, v, "proactive"))
    BY <1>5, <2>1 DEF CountsOn
  <2>4. /\ ~On(v, x) /\ Pend(v, x) = job[b].ahead
        /\ x # "letters" => ~On(v, "letters") /\ Pend(v, "letters") = 0
        /\ x = "badges" => ~On(v, "proactive") /\ Pend(v, "proactive") = 0
    BY <1>5, <2>1 DEF StopsAll, Stopped
  <2>5. /\ ~On(v, x)' /\ Pend(v, x)' = job[b].ahead
        /\ x # "letters" => ~On(v, "letters")' /\ Pend(v, "letters")' = 0
        /\ x = "badges" => ~On(v, "proactive")' /\ Pend(v, "proactive")' = 0
    BY <2>2, <2>3, <2>4
  <2> QED
    BY <2>1, <2>5 DEF Stopped
<1>6. ASSUME phase[b] \in {"settleAgain", "snapshot"}
      PROVE  \A i \in DOMAIN runtimes : Off(runtimes[i])'
  <2> SUFFICES ASSUME NEW i \in DOMAIN runtimes PROVE Off(runtimes[i])'
    OBVIOUS
  <2>1. PICK v \in Users : runtimes[i] = v
    BY <1>3
  <2>2. Off(v)
    BY <1>6, <2>1 DEF StopsAll
  <2>3. Off(v)'
    BY <1>2, <1>6, <2>2 DEF CountsOn
  <2> QED
    BY <2>1, <2>3
<1> QED
  BY <1>1, <1>4, <1>5, <1>6 DEF StopsAll

\* The invariant does not look at the hourly schedulers.
LEMMA NothingMoves ==
  ASSUME StopInv, UNCHANGED <<status, runtimes, on, pending, job, phase, pos, maintenance>>
  PROVE  StopInv'
<1>1. Base'
  BY DEF StopInv, Base, Types, Known, Starts, Pend, Walker, IsIdle, Directory, Registered, On,
         OneBackup, Stopping, Drain, After
<1>2. ASSUME NEW u \in Users PROVE Banned(u)'
  BY DEF StopInv, Banned, On, Leaves, Starts
<1>3. ASSUME NEW b \in Backups PROVE StopsAll(b)'
  BY DEF StopInv, StopsAll, Visited, IsIdle, Off, On, Pend, Stopped, Before, Meets
<1> QED
  BY <1>1, <1>2, <1>3 DEF StopInv

\* Only workers that are started are woken.
LEMMA WakeKeeps == ASSUME StopInv, NEW u \in Users, NEW w \in Workers, Wake(u, w) PROVE StopInv'
<1>1. UNCHANGED <<status, runtimes, on, job, phase, pos, maintenance>>
  BY DEF Wake, accounts, backup
<1>2. \A v \in Users, x \in Workers :
        (On(v, x)' <=> On(v, x)) /\ (~On(v, x) => Pend(v, x)' = Pend(v, x))
  BY DEF StopInv, Base, Types, Wake, On, Pend
<1>3. Base'
  BY WakeBase DEF StopInv
<1>4. ASSUME NEW v \in Users PROVE Banned(v)'
  BY <1>1 DEF StopInv, Banned, On, Leaves, Starts
<1>5. ASSUME NEW b \in Backups PROVE StopsAll(b)'
  <2>1. CASE After(b)
    <3>1. \A c \in Backups : phase'[c] = "resume" =>
            IF phase[b] = "stopAgain" THEN Before(b, c)' ELSE IsIdle(c)' /\ pos'[c] > Len(runtimes)
      BY <1>1, <2>1 DEF StopInv, StopsAll, After, Before, Meets, IsIdle
    <3> QED
      BY <1>1, <1>2, <3>1, OthersStep DEF StopInv
  <2>2. CASE ~After(b)
    BY <1>1, <2>2 DEF After, StopsAll
  <2> QED
    BY <2>1, <2>2
<1> QED
  BY <1>3, <1>4, <1>5 DEF StopInv

\* When a cycle ends, all who await it come closer together, in their order.
LEMMA CycleKeeps ==
  ASSUME StopInv, NEW u \in Users, NEW w \in Workers, CycleEnds(u, w) PROVE StopInv'
<1>1. /\ UNCHANGED <<status, runtimes, on, phase, pos, maintenance>> /\ Types'
      /\ Pend(u, w) > 0 /\ Pend(u, w) \in Nat /\ Pend(u, w)' = Pend(u, w) - 1
      /\ \A v \in Users, x \in Workers : <<v, x>> # <<u, w>> => Pend(v, x)' = Pend(v, x)
      /\ \A v \in Users, x \in Workers : On(v, x)' <=> On(v, x)
      /\ \A p \in Procs :
           /\ job'[p].op = job[p].op /\ job'[p].user = job[p].user /\ job'[p].at = job[p].at
           /\ job[p].ahead \in Nat /\ job'[p].ahead \in Nat
           /\ job'[p].ahead = IF job[p].user = u /\ job[p].at = w /\ job[p].ahead > 0
                                THEN job[p].ahead - 1 ELSE job[p].ahead
  BY CycleDoes DEF StopInv, Base
<1>2. Base'
  BY CycleBase DEF StopInv
<1>3. ASSUME NEW p \in Procs, NEW q \in Procs, job[p].user = job[q].user, job[p].at = job[q].at,
             job[p].ahead <= job[q].ahead
      PROVE  job'[p].ahead <= job'[q].ahead
  BY <1>1, <1>3
<1>4. ASSUME NEW v \in Users, status[v] = "banned" PROVE Banned(v)'
  <2>1. \A q \in Procs : Leaves(q, v)' <=> Leaves(q, v)
    BY <1>1 DEF Leaves
  <2>2. "letters" \in Workers /\ "proactive" \in Workers /\ "badges" \in Workers
    BY DEF Workers
  <2>3. ASSUME NEW c \in Procs, Starts(c)', job'[c].user = v, job'[c].at = "letters"
        PROVE  \E q \in Procs : Leaves(q, v)' /\ job'[q].at = "letters" /\ job'[c].ahead <= job'[q].ahead
    <3>1. PICK q \in Procs : Leaves(q, v) /\ job[q].at = "letters" /\ job[c].ahead <= job[q].ahead
      BY <1>1, <1>4, <2>3 DEF StopInv, Banned, Starts
    <3>2. job'[c].ahead <= job'[q].ahead
      BY <1>1, <1>3, <2>3, <3>1 DEF Leaves
    <3> QED
      BY <1>1, <2>1, <3>1, <3>2
  <2>4. Banned(v)
    BY DEF StopInv
  <2>5. ~On(v, "letters")'
    BY <1>1, <1>4, <2>2, <2>4 DEF Banned
  <2>6. On(v, "proactive")' => \E q \in Procs : Leaves(q, v)' /\ job'[q].at = "letters"
    BY <1>1, <1>4, <2>1, <2>2, <2>4 DEF Banned
  <2>7. On(v, "badges")' => \E q \in Procs : Leaves(q, v)' /\ job'[q].at # "badges"
    BY <1>1, <1>4, <2>1, <2>2, <2>4 DEF Banned
  <2> QED
    BY <2>3, <2>5, <2>6, <2>7 DEF Banned
<1>5. \A v \in Users : Banned(v)'
  BY <1>1, <1>4 DEF Banned
<1>6. ASSUME NEW v \in Users, Off(v) PROVE Off(v)'
  <2>1. v # u
    BY <1>1, <1>6 DEF Off
  <2> QED
    BY <1>1, <1>6, <2>1 DEF Off
<1>7. ASSUME NEW b \in Backups PROVE StopsAll(b)'
  <2>0. b \in Procs /\ DOMAIN runtimes = 1 .. Len(runtimes) /\ \A i \in DOMAIN runtimes : runtimes[i] \in Users
    BY DEF Procs, StopInv, Base, Types
  <2>1. (IsIdle(b)' <=> IsIdle(b)) /\ Visited(b)' = Visited(b) /\ Visited(b) \in Int
    BY <1>1, <2>0 DEF IsIdle, Visited, StopInv, Base, Types
  <2>2. ASSUME NEW i \in DOMAIN runtimes, Off(runtimes[i]) PROVE Off(runtimes[i])'
    <3>1. PICK v \in Users : runtimes[i] = v
      BY <2>0
    <3> QED
      BY <1>1, <1>6, <2>2, <3>1
  <2>3. ASSUME phase[b] = "stopAgain", ~IsIdle(b) PROVE Stopped(b)'
    <3>1. PICK v \in Users, x \in Workers : job[b].user = v /\ job[b].at = x
      BY <2>0 DEF StopInv, Base, Types, JobRow
    <3>2. /\ ~On(v, x) /\ Pend(v, x) = job[b].ahead
          /\ x # "letters" => ~On(v, "letters") /\ Pend(v, "letters") = 0
          /\ x = "badges" => ~On(v, "proactive") /\ Pend(v, "proactive") = 0
      BY <2>3, <3>1 DEF StopInv, StopsAll, Stopped
    <3>3. ASSUME NEW y \in Workers, Pend(v, y) = 0 PROVE Pend(v, y)' = 0
      <4>1. <<v, y>> # <<u, w>>
        BY <1>1, <3>3
      <4> QED
        BY <1>1, <3>3, <4>1
    <3>4. Pend(v, x)' = job'[b].ahead
      <4>1. CASE <<v, x>> = <<u, w>>
        BY <1>1, <2>0, <3>1, <3>2, <4>1
      <4>2. CASE <<v, x>> # <<u, w>>
        BY <1>1, <2>0, <3>1, <3>2, <4>2
      <4> QED
        BY <4>1, <4>2
    <3>5. ~On(v, x)' /\ (x # "letters" => ~On(v, "letters")') /\ (x = "badges" => ~On(v, "proactive")')
      BY <1>1, <3>2 DEF Workers
    <3>6. (x # "letters" => Pend(v, "letters")' = 0) /\ (x = "badges" => Pend(v, "proactive")' = 0)
      BY <3>2, <3>3 DEF Workers
    <3>7. job'[b].user = v /\ job'[b].at = x
      BY <1>1, <2>0, <3>1
    <3> QED
      BY <3>4, <3>5, <3>6, <3>7 DEF Stopped
  <2>4. ASSUME NEW c \in Backups, phase[b] = "stopAgain", phase[c] = "resume"
        PROVE  Before(b, c)'
    <3>1. c \in Procs /\ Before(b, c) /\ (IsIdle(c)' <=> IsIdle(c))
      BY <1>1, <2>4 DEF Procs, StopInv, StopsAll, IsIdle
    <3>2. ASSUME pos[c] = pos[b], ~IsIdle(b), ~IsIdle(c), Meets(b, c) PROVE Meets(b, c)'
      <4>1. job[c].user = job[b].user
        BY <3>2 DEF StopInv, Base, Walker
      <4> QED
        BY <1>1, <1>3, <2>0, <3>1, <3>2, <4>1 DEF Meets
    <3> QED
      BY <1>1, <2>1, <3>1, <3>2 DEF Before
  <2>5. ASSUME phase[b] = "stopAgain" PROVE \A i \in 1 .. Visited(b) : Off(runtimes[i])'
    <3>1. \A i \in 1 .. Visited(b) : i \in DOMAIN runtimes
      BY <2>0 DEF Visited, StopInv, Base, Walker, Types
    <3> QED
      BY <2>2, <2>5, <3>1 DEF StopInv, StopsAll
  <2>6. ASSUME phase[b] \in {"settleAgain", "snapshot"}
        PROVE  /\ \A i \in DOMAIN runtimes : Off(runtimes[i])'
               /\ \A c \in Backups : phase[c] = "resume" => IsIdle(c)' /\ pos[c] > Len(runtimes)
    BY <1>1, <2>2, <2>6 DEF StopInv, StopsAll, IsIdle, Procs
  <2> QED
    BY <1>1, <2>1, <2>3, <2>4, <2>5, <2>6 DEF StopsAll
<1> QED
  BY <1>2, <1>5, <1>7 DEF StopInv

-----------------------------------------------------------------------------
\* disconnect() goes on, and so nobody who starts has what it awaits.
LEMMA DisconnectGoesOn ==
  ASSUME StopInv, NEW p \in Procs, NEW u \in Users, job[p].op = "disconnect",
         job[p].user = u, job[p].ahead = 0, Calm,
         NEW from \in {"letters", "proactive"}, NEW w \in {"proactive", "badges"},
         from = "letters" <=> w = "proactive", job[p].at = from,
         Disposed(p, u, w), UNCHANGED <<status, runtimes, phase, pos, maintenance>>
  PROVE  StopInv'
<1>1. ~IsIdle(p) /\ status[u] # "none" /\ w \in Workers /\ from \in Workers
  BY DEF IsIdle, StopInv, Base, Known, Workers
<1>2. \A c \in Procs : job[c].ahead \in Nat /\ (Starts(c) => job[c].ahead > 0)
  <2>1. \A c \in Procs : Starts(c) => job[c].ahead # 0
    BY DEF Calm, GoesFirst, Ready, Starts
  <2> QED
    BY <2>1 DEF StopInv, Base, Types, JobRow
<1>3. /\ \A v \in Users, x \in Workers : On(v, x)' <=> On(v, x) /\ <<v, x>> # <<u, w>>
      /\ \A v \in Users, x \in Workers : Pend(v, x)' = Pend(v, x) /\ Pend(v, x) \in Nat
      /\ \A q \in Procs \ {p} : job'[q] = job[q]
      /\ job'[p].op = "disconnect" /\ job'[p].user = u /\ job'[p].at = w
      /\ job'[p].ahead = Pend(u, w)
  BY DEF Disposed
<1>4. Base'
  <2>1. p \in Backups => Walker(p)'
    BY <1>1, <1>3 DEF StopInv, Base, Walker, IsIdle
  <2>2. status \in [Users -> {"none", "active", "banned"}] /\ pos \in [Backups -> Nat]
    BY DEF StopInv, Base, Types
  <2> QED
    BY <1>1, <2>1, <2>2, DisposeBase DEF StopInv
<1>5. ASSUME NEW v \in Users PROVE Banned(v)'
  <2>1. CASE v # u
    <3>1. \A x \in Workers : On(v, x)' => On(v, x)
      BY <1>3
    <3> QED
      BY <1>3, <2>1, <3>1, BannedElse DEF StopInv
  <2>2. CASE v = u /\ status[v] = "banned"
    <3>1. "letters" \in Workers /\ "proactive" \in Workers /\ "badges" \in Workers
      BY DEF Workers
    <3>2. /\ ~On(u, "letters")
          /\ On(u, "proactive") => \E q \in Procs : Leaves(q, u) /\ job[q].at = "letters"
          /\ On(u, "badges") => \E q \in Procs : Leaves(q, u) /\ job[q].at # "badges"
          /\ \A c \in Procs : Starts(c) /\ job[c].user = u /\ job[c].at = "letters"
               => \E q \in Procs : Leaves(q, u) /\ job[q].at = "letters" /\ job[c].ahead <= job[q].ahead
      BY <2>2 DEF StopInv, Banned
    <3>3. ~On(u, "letters")'
      BY <1>3, <3>1, <3>2
    <3>4. ASSUME On(u, "proactive")'
          PROVE  \E q \in Procs : Leaves(q, u)' /\ job'[q].at = "letters"
      <4>1. w = "badges" /\ On(u, "proactive")
        BY <1>3, <3>1, <3>4
      <4>2. PICK q \in Procs : Leaves(q, u) /\ job[q].at = "letters"
        BY <3>2, <4>1
      <4>3. q # p
        BY <4>1, <4>2
      <4> QED
        BY <1>3, <4>2, <4>3 DEF Leaves
    <3>5. ASSUME On(u, "badges")' PROVE \E q \in Procs : Leaves(q, u)' /\ job'[q].at # "badges"
      <4>1. w # "badges"
        BY <1>3, <3>1, <3>5
      <4> QED
        BY <1>3, <4>1 DEF Leaves
    <3>6. ASSUME NEW c \in Procs, Starts(c)', job'[c].user = u, job'[c].at = "letters"
          PROVE  \E q \in Procs : Leaves(q, u)' /\ job'[q].at = "letters" /\ job'[c].ahead <= job'[q].ahead
      <4>1. c # p
        BY <1>3, <3>6 DEF Starts
      <4>2. Starts(c) /\ job'[c] = job[c]
        BY <1>3, <3>6, <4>1 DEF Starts
      <4>3. PICK q \in Procs : Leaves(q, u) /\ job[q].at = "letters" /\ job[c].ahead <= job[q].ahead
        BY <3>2, <3>6, <4>2
      <4>4. q # p
        BY <1>2, <4>2, <4>3
      <4> QED
        BY <1>3, <4>2, <4>3, <4>4 DEF Leaves
    <3> QED
      BY <2>2, <3>3, <3>4, <3>5, <3>6 DEF Banned
  <2>3. CASE v = u /\ status[v] # "banned"
    BY <2>3 DEF Banned
  <2> QED
    BY <2>1, <2>2, <2>3
<1>6. CASE p \in Requests
  BY <1>1, <1>4, <1>5, <1>6, RequestsFirst DEF StopInv
<1>7. CASE p \in Backups
  <2>1. phase[p] \in {"stop", "stopAgain"}
    BY <1>7 DEF StopInv, Base, Walker
  <2>2. ASSUME NEW b \in Backups, b # p PROVE StopsAll(b)'
    <3>1. ~After(b)
      BY <1>7, <2>1, <2>2 DEF StopInv, Base, OneBackup, Stopping, After
    <3> QED
      BY <3>1 DEF After, StopsAll
  <2>3. CASE phase[p] = "stop"
    BY <1>4, <1>5, <2>2, <2>3 DEF StopsAll, StopInv
  <2>4. CASE phase[p] = "stopAgain"
    <3>1. /\ \A i \in 1 .. Visited(p) : Off(runtimes[i])
          /\ Stopped(p)
          /\ \A c \in Backups : phase[c] = "resume" => Before(p, c)
      BY <1>1, <1>7, <2>4 DEF StopInv, StopsAll
    <3>2. ~IsIdle(p)' /\ Visited(p)' = Visited(p)
      BY <1>1, <1>3 DEF IsIdle, Visited
    <3>3. ASSUME NEW i \in 1 .. Visited(p) PROVE Off(runtimes[i])'
      <4>1. i \in DOMAIN runtimes /\ runtimes[i] \in Users
        BY <1>7 DEF Visited, StopInv, Base, Walker, Types
      <4>2. PICK v \in Users : runtimes[i] = v
        BY <4>1
      <4>3. Off(v)'
        BY <1>3, <3>1, <4>2 DEF Off
      <4> QED
        BY <4>2, <4>3
    <3>4. Stopped(p)'
      <4>1. /\ ~On(u, from) /\ Pend(u, from) = 0
            /\ from = "proactive" => ~On(u, "letters") /\ Pend(u, "letters") = 0
        BY <3>1 DEF Stopped
      <4>2. ~On(u, w)' /\ Pend(u, w)' = job'[p].ahead
        BY <1>1, <1>3
      <4>3. ~On(u, "letters")' /\ Pend(u, "letters")' = 0
        BY <1>3, <4>1 DEF Workers
      <4>4. w = "badges" => ~On(u, "proactive")' /\ Pend(u, "proactive")' = 0
        BY <1>3, <4>1 DEF Workers
      <4> QED
        BY <1>3, <4>2, <4>3, <4>4 DEF Stopped
    <3>5. ASSUME NEW c \in Backups, phase[c] = "resume" PROVE Before(p, c)'
      <4>1. c # p /\ c \in Procs
        BY <2>4, <3>5 DEF Procs
      <4>2. job'[c] = job[c] /\ Before(p, c) /\ Walker(c) /\ Walker(p) /\ Known(c)
        BY <1>3, <1>7, <3>1, <3>5, <4>1 DEF StopInv, Base
      <4>3. ASSUME ~IsIdle(c), pos[c] = pos[p] PROVE Meets(p, c)'
        <5>1. Starts(c) /\ job[c].user = u
          BY <1>1, <3>5, <4>2, <4>3 DEF Walker, IsIdle, Starts
        <5>2. Meets(p, c) /\ job[c].ahead > 0 /\ job[c].ahead \in Nat
          BY <1>2, <4>1, <4>2, <4>3, <5>1 DEF Before, Base, Types, StopInv
        <5>3. job[c].at = "proactive" /\ from = "letters"
          BY <1>1, <5>2 DEF Meets
        <5>4. job[c].ahead <= Pend(u, "proactive")
          BY <4>2, <5>1, <5>3 DEF Known
        <5> QED
          BY <1>3, <4>2, <5>3, <5>4 DEF Meets
      <4> QED
        BY <1>7, <3>2, <4>2, <4>3 DEF Before, IsIdle
    <3>6. StopsAll(p)'
      BY <2>4, <3>2, <3>3, <3>4, <3>5 DEF StopsAll
    <3> QED
      BY <1>4, <1>5, <2>2, <3>6 DEF StopInv
  <2> QED
    BY <2>1, <2>3, <2>4
<1> QED
  BY <1>6, <1>7 DEF Procs

\* disconnect() is over after the badges: the account is off.
LEMMA DisconnectEnds ==
  ASSUME StopInv, NEW p \in Procs, job[p].op = "disconnect", job[p].ahead = 0,
         job[p].at = "badges", Ended(p)
  PROVE  StopInv'
<1>1. PICK u \in Users : job[p].user = u
  BY DEF StopInv, Base, Types, JobRow
<1>2. ~IsIdle(p) /\ status[u] # "none"
  BY <1>1 DEF IsIdle, StopInv, Base, Known
<1>3. Base'
  BY <1>1, <1>2, EndBase DEF StopInv
<1>4. /\ UNCHANGED <<status, runtimes, on, pending, phase, pos, maintenance>>
      /\ job'[p].op = "idle" /\ \A q \in Procs \ {p} : job'[q] = job[q]
  BY DEF Ended, Idle, StopInv, Base, Types
<1>5. ASSUME NEW v \in Users PROVE Banned(v)'
  <2>1. Banned(v) /\ \A x \in Workers : On(v, x)' <=> On(v, x)
    BY <1>4 DEF StopInv, On
  <2>2. CASE v # u
    BY <1>1, <1>4, <2>1, <2>2, BannedElse
  <2>3. CASE v = u
    <3>1. ASSUME NEW q \in Procs, Leaves(q, v), job[q].at # "badges"
          PROVE  Leaves(q, v)' /\ job'[q] = job[q]
      BY <1>4, <3>1 DEF Leaves
    <3>2. ASSUME NEW c \in Procs, Starts(c)' PROVE Starts(c) /\ job'[c] = job[c]
      BY <1>4, <3>2 DEF Starts
    <3> QED
      BY <1>4, <2>1, <3>1, <3>2 DEF Banned, Workers
  <2> QED
    BY <2>2, <2>3
<1>6. CASE p \in Requests
  BY <1>2, <1>3, <1>4, <1>5, <1>6, RequestsFirst DEF StopInv
<1>7. CASE p \in Backups
  <2>1. phase[p] \in {"stop", "stopAgain"}
    BY <1>7 DEF StopInv, Base, Walker
  <2>2. ASSUME NEW b \in Backups, b # p PROVE StopsAll(b)'
    <3>1. ~After(b)
      BY <1>7, <2>1, <2>2 DEF StopInv, Base, OneBackup, Stopping, After
    <3> QED
      BY <1>4, <3>1 DEF After, StopsAll
  <2>3. CASE phase[p] = "stop"
    BY <1>3, <1>4, <1>5, <2>2, <2>3 DEF StopsAll, StopInv
  <2>4. CASE phase[p] = "stopAgain"
    <3>1. /\ \A i \in 1 .. Visited(p) : Off(runtimes[i])
          /\ Stopped(p)
          /\ \A c \in Backups : phase[c] = "resume" => Before(p, c)
      BY <1>2, <1>7, <2>4 DEF StopInv, StopsAll
    <3>2. IsIdle(p)' /\ Visited(p)' = pos[p] - 1 /\ Visited(p) = pos[p] - 2
      BY <1>2, <1>4 DEF IsIdle, Visited
    <3>3. Walker(p) /\ pos[p] \in 2 .. Len(runtimes) + 1 /\ runtimes[pos[p] - 1] = u
      BY <1>1, <1>2, <1>7 DEF Walker, StopInv, Base, Types
    <3>4. Off(u)
      BY <1>1, <3>1 DEF Stopped, Off, Workers
    <3>5. ASSUME NEW i \in 1 .. pos[p] - 1 PROVE Off(runtimes[i])'
      <4>1. i \in DOMAIN runtimes /\ runtimes[i] \in Users
        BY <3>3 DEF StopInv, Base, Types
      <4>2. PICK v \in Users : runtimes[i] = v
        BY <4>1
      <4>3. Off(v)
        <5>1. i = pos[p] - 1 \/ i \in 1 .. Visited(p)
          BY <3>2, <3>3 DEF StopInv, Base, Types
        <5> QED
          BY <3>1, <3>3, <3>4, <4>2, <5>1
      <4>4. Off(v)'
        BY <1>4, <4>3 DEF Off, On, Pend
      <4> QED
        BY <1>4, <4>2, <4>4
    <3>6. ASSUME NEW c \in Backups, phase[c] = "resume" PROVE Before(p, c)'
      <4>1. c # p /\ c \in Procs
        BY <2>4, <3>6 DEF Procs
      <4>2. job'[c] = job[c] /\ Before(p, c) /\ Walker(c) /\ Known(c)
        BY <1>4, <3>1, <3>6, <4>1 DEF StopInv, Base
      <4>3. ~(~IsIdle(c) /\ Meets(p, c))
        BY <4>2, <3>6 DEF Walker, Known, Starts, Meets, IsIdle
      <4> QED
        BY <1>4, <4>2, <4>3 DEF Before, IsIdle
    <3>7. StopsAll(p)'
      BY <1>4, <2>4, <3>2, <3>5, <3>6 DEF StopsAll
    <3> QED
      BY <1>3, <1>5, <2>2, <3>7 DEF StopInv
  <2> QED
    BY <2>1, <2>3, <2>4
<1> QED
  BY <1>6, <1>7 DEF Procs

\* The three steps of disconnect().
LEMMA DisconnectKeeps == ASSUME StopInv, NEW p \in Procs, Disconnecting(p) PROVE StopInv'
<1>1. /\ Calm /\ job[p].op = "disconnect" /\ job[p].ahead = 0
      /\ UNCHANGED <<status, runtimes, phase, pos, maintenance>>
  BY DEF Disconnecting, accounts, backup
<1>2. PICK u \in Users : job[p].user = u
  BY DEF StopInv, Base, Types, JobRow
<1>3. CASE job[p].at = "letters" /\ Dispose(p, u, "proactive")
  <2>1. Disposed(p, u, "proactive")
    BY <1>3, DisposeDoes DEF StopInv, Base, Workers
  <2> QED
    BY <1>1, <1>2, <1>3, <2>1, DisconnectGoesOn
<1>4. CASE job[p].at = "proactive" /\ Dispose(p, u, "badges")
  <2>1. Disposed(p, u, "badges")
    BY <1>4, DisposeDoes DEF StopInv, Base, Workers
  <2> QED
    BY <1>1, <1>2, <1>4, <2>1, DisconnectGoesOn
<1>5. CASE job[p].at = "badges" /\ job' = [job EXCEPT ![p] = Idle] /\ UNCHANGED work
  BY <1>1, <1>5, DisconnectEnds DEF Ended, work
<1> QED
  BY <1>2, <1>3, <1>4, <1>5 DEF Disconnecting

-----------------------------------------------------------------------------
\* The backup that stops everybody once more, and one that still wakes them.
LEMMA TwoBackups ==
  ASSUME StopInv, NEW b \in Backups, After(b), NEW c \in Backups, phase[c] = "resume"
  PROVE  /\ b # c /\ Walker(b) /\ Walker(c) /\ b \in Procs /\ c \in Procs
         /\ phase[b] = "stopAgain" => Before(b, c)
         /\ phase[b] # "stopAgain" => IsIdle(c) /\ pos[c] > Len(runtimes)
         /\ \A q \in Requests : IsIdle(q)
         /\ \A i, j \in DOMAIN runtimes : runtimes[i] = runtimes[j] => i = j
         /\ DOMAIN runtimes = 1 .. Len(runtimes) /\ Len(runtimes) \in Nat
<1>1. Walker(b) /\ Walker(c) /\ Types /\ StopsAll(b)
  BY DEF StopInv, Base
<1>2. \A q \in Requests : IsIdle(q)
  BY DEF StopInv, Base, Drain
<1>3. \A i, j \in DOMAIN runtimes : runtimes[i] = runtimes[j] => i = j
  BY DEF StopInv, Base, Directory
<1> QED
  BY <1>1, <1>2, <1>3 DEF After, StopsAll, Types, Procs

\* resume() starts the second worker: of a banned account somebody behind it will stop
\* it, and a backup that stops all is behind it or was at the letters.
LEMMA ResumeGoesOn ==
  ASSUME StopInv, NEW p \in Procs, NEW u \in Users, NEW op \in {"create", "resume"},
         job[p].op = op, job[p].user = u, job[p].ahead = 0, job[p].at = "letters",
         Started(p, op, u, "proactive"), UNCHANGED <<status, runtimes, phase, pos, maintenance>>
  PROVE  StopInv'
<1>1. ~IsIdle(p) /\ Starts(p) /\ status[u] # "none" /\ "letters" \in Workers
      /\ "proactive" \in Workers /\ "badges" \in Workers
  BY DEF IsIdle, Starts, StopInv, Base, Known, Workers
<1>2. /\ \A v \in Users, x \in Workers :
           /\ v # u \/ x # "proactive" => (On(v, x)' <=> On(v, x)) /\ Pend(v, x)' = Pend(v, x)
           /\ Pend(v, x) <= Pend(v, x)' /\ Pend(v, x) \in Nat
      /\ \A q \in Procs \ {p} : job'[q] = job[q]
      /\ job'[p].op = op /\ job'[p].user = u /\ job'[p].at = "proactive"
  BY DEF Started
<1>3. Base'
  <2>1. p \in Backups => Walker(p)'
    BY <1>1, <1>2 DEF StopInv, Base, Walker, IsIdle
  <2>2. status \in [Users -> {"none", "active", "banned"}] /\ pos \in [Backups -> Nat]
    BY DEF StopInv, Base, Types
  <2> QED
    BY <1>1, <2>1, <2>2, StartBase DEF StopInv
<1>4. ASSUME NEW v \in Users, status[v] = "banned" PROVE Banned(v)'
  <2>1. /\ ~On(v, "letters")
        /\ On(v, "proactive") => \E q \in Procs : Leaves(q, v) /\ job[q].at = "letters"
        /\ On(v, "badges") => \E q \in Procs : Leaves(q, v) /\ job[q].at # "badges"
        /\ \A c \in Procs : Starts(c) /\ job[c].user = v /\ job[c].at = "letters"
             => \E q \in Procs : Leaves(q, v) /\ job[q].at = "letters" /\ job[c].ahead <= job[q].ahead
    BY <1>4 DEF StopInv, Banned
  <2>2. ASSUME NEW q \in Procs, Leaves(q, v) PROVE Leaves(q, v)' /\ job'[q] = job[q]
    BY <1>1, <1>2, <2>2 DEF Leaves, Starts
  <2>3. ~On(v, "letters")'
    BY <1>1, <1>2, <2>1
  <2>4. ASSUME On(v, "proactive")'
        PROVE  \E q \in Procs : Leaves(q, v)' /\ job'[q].at = "letters"
    <3>1. PICK q \in Procs : Leaves(q, v) /\ job[q].at = "letters"
      BY <1>1, <1>2, <2>1, <2>4
    <3> QED
      BY <2>2, <3>1
  <2>5. ASSUME On(v, "badges")' PROVE \E q \in Procs : Leaves(q, v)' /\ job'[q].at # "badges"
    <3>1. PICK q \in Procs : Leaves(q, v) /\ job[q].at # "badges"
      BY <1>1, <1>2, <2>1, <2>5
    <3> QED
      BY <2>2, <3>1
  <2>6. ASSUME NEW c \in Procs, Starts(c)', job'[c].user = v, job'[c].at = "letters"
        PROVE  \E q \in Procs : Leaves(q, v)' /\ job'[q].at = "letters" /\ job'[c].ahead <= job'[q].ahead
    <3>1. c # p
      BY <1>2, <2>6
    <3>2. job'[c] = job[c] /\ Starts(c)
      BY <1>2, <2>6, <3>1 DEF Starts
    <3>3. PICK q \in Procs : Leaves(q, v) /\ job[q].at = "letters" /\ job[c].ahead <= job[q].ahead
      BY <2>1, <2>6, <3>2
    <3> QED
      BY <2>2, <3>2, <3>3
  <2> QED
    BY <2>3, <2>4, <2>5, <2>6 DEF Banned
<1>5. \A v \in Users : Banned(v)'
  BY <1>4 DEF Banned
<1>6. CASE p \in Requests
  BY <1>1, <1>3, <1>5, <1>6, RequestsFirst DEF StopInv
<1>7. CASE p \in Backups
  <2>1. phase[p] = "resume" /\ pos[p] >= 2 /\ runtimes[pos[p] - 1] = u
        /\ pos[p] \in 1 .. Len(runtimes) + 1
    BY <1>1, <1>7 DEF StopInv, Base, Walker, Starts, IsIdle
  <2>2. ASSUME NEW b \in Backups, After(b) PROVE StopsAll(b)'
    <3>1. /\ b # p /\ Walker(b) /\ Walker(p) /\ b \in Procs
          /\ phase[b] = "stopAgain" /\ Before(b, p)
          /\ \A i, j \in DOMAIN runtimes : runtimes[i] = runtimes[j] => i = j
          /\ DOMAIN runtimes = 1 .. Len(runtimes) /\ Len(runtimes) \in Nat
      BY <1>1, <1>7, <2>1, <2>2, TwoBackups
    <3>2. pos[b] \in 1 .. Len(runtimes) + 1 /\ (~IsIdle(b) => pos[b] >= 2 /\ job[b].user = runtimes[pos[b] - 1])
      BY <3>1 DEF Walker
    <3>3. pos[p] > pos[b] \/ (pos[p] = pos[b] /\ ~IsIdle(b) /\ job[b].at = "letters")
      BY <1>1, <3>1 DEF Before, Meets
    <3>4. \A i \in 1 .. Visited(b) : runtimes[i] # u
      BY <2>1, <3>1, <3>2, <3>3 DEF Visited
    <3>5. ~IsIdle(b) => job[b].user # u \/ job[b].at = "letters"
      BY <2>1, <3>1, <3>2, <3>3
    <3>6. ASSUME NEW v \in Users, NEW x \in Workers, CountsOn(b, v, x)
          PROVE  (On(v, x)' <=> On(v, x)) /\ Pend(v, x)' = Pend(v, x)
      BY <1>2, <3>1, <3>4, <3>5, <3>6 DEF CountsOn
    <3>7. ASSUME NEW c \in Backups, phase[c] = "resume" PROVE Before(b, c)'
      <4>1. job'[b] = job[b]
        BY <1>2, <3>1
      <4>2. CASE c = p
        <5>1. ~IsIdle(c)'
          BY <1>2, <4>2 DEF IsIdle
        <5> QED
          BY <1>2, <3>3, <4>1, <4>2, <5>1 DEF Before, Meets, IsIdle
      <4>3. CASE c # p
        <5>1. job'[c] = job[c] /\ Before(b, c)
          BY <1>2, <2>2, <3>1, <3>7, <4>3, TwoBackups
        <5> QED
          BY <4>1, <5>1 DEF Before, Meets, IsIdle
      <4> QED
        BY <4>2, <4>3
    <3> QED
      BY <1>2, <3>1, <3>6, <3>7, OthersStep DEF StopInv
  <2>3. \A b \in Backups : ~After(b) => StopsAll(b)'
    BY DEF After, StopsAll
  <2> QED
    BY <1>3, <1>5, <2>2, <2>3 DEF StopInv
<1> QED
  BY <1>6, <1>7 DEF Procs

\* resume() is over: whoever was behind it still is.
LEMMA ResumeEnds ==
  ASSUME StopInv, NEW p \in Procs, Starts(p), job[p].ahead = 0, job[p].at = "proactive", Ended(p)
  PROVE  StopInv'
<1>1. PICK u \in Users : job[p].user = u
  BY DEF StopInv, Base, Types, JobRow
<1>2. ~IsIdle(p) /\ status[u] # "none"
  BY <1>1 DEF IsIdle, Starts, StopInv, Base, Known
<1>3. Base'
  BY <1>1, <1>2, EndBase DEF StopInv
<1>4. /\ UNCHANGED <<status, runtimes, on, pending, phase, pos, maintenance>>
      /\ job'[p].op = "idle" /\ \A q \in Procs \ {p} : job'[q] = job[q]
  BY DEF Ended, Idle, StopInv, Base, Types
<1>5. ASSUME NEW v \in Users PROVE Banned(v)'
  <2>1. Banned(v) /\ \A x \in Workers : On(v, x)' <=> On(v, x)
    BY <1>4 DEF StopInv, On
  <2>2. ASSUME NEW q \in Procs, Leaves(q, v) PROVE Leaves(q, v)' /\ job'[q] = job[q]
    BY <1>4, <2>2 DEF Leaves, Starts
  <2>3. ASSUME NEW c \in Procs, Starts(c)' PROVE Starts(c) /\ job'[c] = job[c]
    BY <1>4, <2>3 DEF Starts
  <2> QED
    BY <1>4, <2>1, <2>2, <2>3 DEF Banned, Workers
<1>6. CASE p \in Requests
  BY <1>2, <1>3, <1>4, <1>5, <1>6, RequestsFirst DEF StopInv
<1>7. CASE p \in Backups
  <2>1. phase[p] = "resume"
    BY <1>7 DEF StopInv, Base, Walker, Starts
  <2>2. ASSUME NEW b \in Backups, After(b) PROVE StopsAll(b)'
    <3>1. b # p /\ b \in Procs /\ phase[b] = "stopAgain" /\ Before(b, p)
      BY <1>2, <1>7, <2>1, <2>2, TwoBackups
    <3>2. job'[b] = job[b]
      BY <1>4, <3>1
    <3>3. ASSUME NEW c \in Backups, phase[c] = "resume" PROVE Before(b, c)'
      <4>1. CASE c = p
        <5>1. pos[p] >= pos[b]
          BY <1>2, <1>7, <3>1 DEF Before, StopInv, Base, Types
        <5> QED
          BY <1>4, <4>1, <5>1 DEF Before, IsIdle
      <4>2. CASE c # p
        <5>1. job'[c] = job[c] /\ Before(b, c)
          BY <1>4, <2>2, <3>1, <3>3, <4>2, TwoBackups
        <5> QED
          BY <1>4, <3>2, <5>1 DEF Before, Meets, IsIdle
      <4> QED
        BY <4>1, <4>2
    <3>4. \A v \in Users, x \in Workers : (On(v, x)' <=> On(v, x)) /\ Pend(v, x)' = Pend(v, x)
      BY <1>4 DEF On, Pend
    <3> QED
      BY <1>4, <3>1, <3>2, <3>3, <3>4, OthersStep DEF StopInv
  <2>3. \A b \in Backups : ~After(b) => StopsAll(b)'
    BY <1>4 DEF After, StopsAll
  <2> QED
    BY <1>3, <1>5, <2>2, <2>3 DEF StopInv
<1> QED
  BY <1>6, <1>7 DEF Procs

\* The two steps of resume().
LEMMA ResumeKeeps == ASSUME StopInv, NEW p \in Procs, Resuming(p) PROVE StopInv'
<1>1. /\ Starts(p) /\ job[p].ahead = 0 /\ job[p].op \in {"create", "resume"}
      /\ UNCHANGED <<status, runtimes, phase, pos, maintenance>>
  BY DEF Resuming, accounts, backup, Starts
<1>2. PICK u \in Users : job[p].user = u
  BY DEF StopInv, Base, Types, JobRow
<1>3. CASE job[p].at = "letters" /\ Start(p, job[p].op, u, "proactive")
  <2>1. Started(p, job[p].op, u, "proactive")
    BY <1>1, <1>3, StartDoes DEF StopInv, Base
  <2> QED
    BY <1>1, <1>2, <1>3, <2>1, ResumeGoesOn
<1>4. CASE job[p].at = "proactive" /\ job' = [job EXCEPT ![p] = Idle] /\ UNCHANGED work
  BY <1>1, <1>4, ResumeEnds DEF Ended, work
<1> QED
  BY <1>2, <1>3, <1>4 DEF Resuming

-----------------------------------------------------------------------------
\* A backup comes to the next account of its walk.
LEMMA VisitAt ==
  ASSUME StopInv, NEW p \in Backups, Visit(p)
  PROVE  /\ IsIdle(p) /\ p \in Procs /\ p \notin Requests /\ pos[p] \in 1 .. Len(runtimes)
         /\ Len(runtimes) \in Nat
         /\ \E u \in Users : runtimes[pos[p]] = u /\ status[u] # "none"
         /\ UNCHANGED <<status, runtimes, phase, maintenance>>
         /\ pos' = [pos EXCEPT ![p] = pos[p] + 1] /\ pos'[p] = pos[p] + 1
         /\ \A b \in Backups \ {p} : pos'[b] = pos[b]
         /\ pos' \in [Backups -> Nat]
         /\ status \in [Users -> {"none", "active", "banned"}]
<1>1. IsIdle(p) /\ pos[p] <= Len(runtimes) /\ UNCHANGED <<status, runtimes, phase, maintenance>>
      /\ pos' = [pos EXCEPT ![p] = pos[p] + 1]
  BY DEF Visit, Walks, accounts
<1>2. Types /\ Walker(p) /\ Directory
  BY DEF StopInv, Base
<1>3. pos[p] \in 1 .. Len(runtimes) /\ Len(runtimes) \in Nat /\ pos[p] \in DOMAIN runtimes
      /\ runtimes[pos[p]] \in Users
  BY <1>1, <1>2 DEF Types, Walker
<1>4. PICK u \in Users : runtimes[pos[p]] = u
  BY <1>3
<1>5. Registered(u)
  BY <1>3, <1>4 DEF Registered
<1>6. status[u] # "none"
  BY <1>2, <1>5 DEF Directory
<1>7. p \in Procs /\ p \notin Requests
  BY MaintenanceAssumption DEF Procs
<1>8. /\ pos'[p] = pos[p] + 1 /\ \A b \in Backups \ {p} : pos'[b] = pos[b]
      /\ pos' \in [Backups -> Nat] /\ status \in [Users -> {"none", "active", "banned"}]
  BY <1>1, <1>2, <1>3 DEF Types
<1> QED
  BY <1>1, <1>3, <1>4, <1>6, <1>7, <1>8

\* A backup begins to stop an account: who wakes accounts has gone on to another one,
\* or is at this one and ahead.
LEMMA VisitStops ==
  ASSUME StopInv, NEW p \in Backups, Visit(p), NEW u \in Users, runtimes[pos[p]] = u,
         Calm, phase[p] \in {"stop", "stopAgain"}, Dispose(p, u, "letters")
  PROVE  StopInv'
<1>1. /\ IsIdle(p) /\ p \in Procs /\ p \notin Requests /\ pos[p] \in 1 .. Len(runtimes)
      /\ status[u] # "none" /\ Len(runtimes) \in Nat
      /\ UNCHANGED <<status, runtimes, phase, maintenance>>
      /\ pos'[p] = pos[p] + 1 /\ \A b \in Backups \ {p} : pos'[b] = pos[b]
      /\ pos' \in [Backups -> Nat] /\ status \in [Users -> {"none", "active", "banned"}]
  BY VisitAt
<1>2. Disposed(p, u, "letters")
  BY <1>1, DisposeDoes DEF StopInv, Base, Workers
<1>3. /\ \A v \in Users, x \in Workers : On(v, x)' <=> On(v, x) /\ <<v, x>> # <<u, "letters">>
      /\ \A v \in Users, x \in Workers : Pend(v, x)' = Pend(v, x) /\ Pend(v, x) \in Nat
      /\ \A q \in Procs \ {p} : job'[q] = job[q]
      /\ job'[p].op = "disconnect" /\ job'[p].user = u /\ job'[p].at = "letters"
      /\ job'[p].ahead = Pend(u, "letters") /\ ~IsIdle(p)'
  BY <1>2 DEF Disposed, IsIdle
<1>4. Base'
  <2>1. Walker(p)'
    BY <1>1, <1>3 DEF StopInv, Base, Walker, IsIdle
  <2> QED
    BY <1>1, <1>2, <2>1, DisposeBase DEF StopInv, Workers
<1>5. Banned(u)'
  <2>1. Leaves(p, u)' /\ job'[p].at = "letters" /\ job'[p].ahead = Pend(u, "letters")
    BY <1>3 DEF Leaves
  <2>2. ~On(u, "letters")'
    BY <1>3 DEF Workers
  <2>3. ASSUME NEW c \in Procs, Starts(c)', job'[c].user = u, job'[c].at = "letters"
        PROVE  job'[c].ahead <= job'[p].ahead
    <3>1. c # p /\ job'[c] = job[c]
      BY <1>3, <2>3 DEF Starts
    <3>2. job[c].ahead <= Pend(job[c].user, job[c].at)
      BY DEF StopInv, Base, Known
    <3> QED
      BY <2>1, <2>3, <3>1, <3>2
  <2> QED
    BY <1>1, <2>1, <2>2, <2>3 DEF Banned
<1>6. \A v \in Users \ {u} : Banned(v)'
  BY <1>1, <1>3, BannedElse DEF StopInv, IsIdle
<1>7. ASSUME NEW b \in Backups, b # p PROVE StopsAll(b)'
  <2>1. ~After(b)
    BY <1>7 DEF StopInv, Base, OneBackup, Stopping, After
  <2> QED
    BY <1>1, <2>1 DEF After, StopsAll
<1>8. CASE phase[p] = "stop"
  BY <1>1, <1>4, <1>5, <1>6, <1>7, <1>8 DEF StopsAll, StopInv
<1>9. CASE phase[p] = "stopAgain"
  <2>1. After(p) /\ \A i \in 1 .. Visited(p) : Off(runtimes[i])
    BY <1>9 DEF StopInv, StopsAll, After
  <2>2. Visited(p)' = Visited(p) /\ Visited(p) = pos[p] - 1
    BY <1>1, <1>3 DEF Visited
  <2>3. ASSUME NEW i \in 1 .. Visited(p) PROVE Off(runtimes[i])'
    <3>1. i \in DOMAIN runtimes /\ runtimes[i] \in Users
      BY <1>1, <2>2 DEF StopInv, Base, Types
    <3>2. PICK v \in Users : runtimes[i] = v
      BY <3>1
    <3>3. Off(v)'
      BY <1>3, <2>1, <3>2 DEF Off
    <3> QED
      BY <1>1, <3>2, <3>3
  <2>4. Stopped(p)'
    <3>1. ~On(u, "letters")' /\ Pend(u, "letters")' = job'[p].ahead
      BY <1>3 DEF Workers
    <3> QED
      BY <1>3, <3>1 DEF Stopped
  <2>5. ASSUME NEW c \in Backups, phase[c] = "resume" PROVE Before(p, c)'
    <3>1. /\ c # p /\ Walker(c) /\ c \in Procs /\ Before(p, c) /\ \A q \in Requests : IsIdle(q)
          /\ Known(c) /\ pos[c] \in Nat
      BY <1>9, <2>1, <2>5, TwoBackups DEF StopInv, Base, Types
    <3>2. job'[c] = job[c] /\ pos'[c] = pos[c]
      BY <1>1, <1>3, <3>1
    <3>3. CASE IsIdle(c)
      <4>1. \A v \in Users : ~Creating(v)
        BY <3>1 DEF Creating, IsIdle
      <4>2. ~GoesFirst(c)
        BY <3>1 DEF Calm
      <4>3. ~Walks(c)
        <5>1. ASSUME Walks(c) PROVE FALSE
          <6>1. pos[c] \in DOMAIN runtimes /\ runtimes[pos[c]] \in Users
            BY <3>1, <5>1 DEF Walker, Walks, StopInv, Base, Types
          <6>2. Ready(c)
            BY <2>5, <4>1, <5>1, <6>1 DEF Ready
          <6> QED
            BY <2>5, <4>2, <6>2 DEF GoesFirst
        <5> QED
          BY <5>1
      <4> QED
        BY <1>1, <3>1, <3>2, <3>3, <4>3 DEF Before, Walks, IsIdle
    <3>4. CASE ~IsIdle(c)
      <4>1. pos[c] > pos[p] /\ job[c].user = runtimes[pos[c] - 1] /\ Starts(c)
        BY <1>1, <2>5, <3>1, <3>4 DEF Before, Walker, Starts, IsIdle
      <4>2. job[c].at \in {"letters", "proactive"}
        BY <3>1, <4>1 DEF Known, StopInv, Base, Types, JobRow, Workers
      <4>3. pos[c] = pos[p] + 1 => job[c].user = u
        BY <1>1, <4>1
      <4>4. pos[c] = pos[p] + 1 /\ job[c].at = "letters" => job[c].ahead <= Pend(u, "letters")
        BY <3>1, <4>3 DEF Known
      <4>5. pos[c] = pos[p] + 1 => Meets(p, c)'
        BY <1>3, <3>2, <4>2, <4>4 DEF Meets
      <4> QED
        BY <1>1, <1>3, <3>1, <3>2, <4>1, <4>5 DEF Before, IsIdle
    <3> QED
      BY <3>3, <3>4
  <2>6. StopsAll(p)'
    BY <1>1, <1>9, <2>2, <2>3, <2>4, <2>5 DEF StopsAll
  <2> QED
    BY <1>4, <1>5, <1>6, <1>7, <2>6 DEF StopInv
<1> QED
  BY <1>8, <1>9

\* A backup begins to wake an account, or leaves out a banned one: the one that stops
\* accounts has not come to it.
LEMMA VisitStarts ==
  ASSUME StopInv, NEW p \in Backups, Visit(p), NEW u \in Users, runtimes[pos[p]] = u,
         phase[p] = "resume",
         \/ status[u] = "active" /\ Started(p, "resume", u, "letters")
         \/ UNCHANGED <<on, pending, job>>
  PROVE  StopInv'
<1>1. /\ IsIdle(p) /\ p \in Procs /\ p \notin Requests /\ pos[p] \in 1 .. Len(runtimes)
      /\ status[u] # "none" /\ Len(runtimes) \in Nat
      /\ UNCHANGED <<status, runtimes, phase, maintenance>>
      /\ pos'[p] = pos[p] + 1 /\ \A b \in Backups \ {p} : pos'[b] = pos[b]
      /\ pos' \in [Backups -> Nat] /\ status \in [Users -> {"none", "active", "banned"}]
  BY VisitAt
<1>2. /\ \A v \in Users, x \in Workers :
           /\ v # u \/ status[u] # "active" => (On(v, x)' <=> On(v, x)) /\ Pend(v, x)' = Pend(v, x)
           /\ Pend(v, x) <= Pend(v, x)' /\ Pend(v, x) \in Nat
      /\ \A q \in Procs \ {p} : job'[q] = job[q]
      /\ job'[p] = job[p] \/ (job'[p].op = "resume" /\ job'[p].user = u)
  <2>1. CASE Started(p, "resume", u, "letters") /\ status[u] = "active"
    BY <2>1 DEF Started
  <2>2. CASE UNCHANGED <<on, pending, job>>
    BY <2>2 DEF On, Pend, StopInv, Base, Types
  <2> QED
    BY <2>1, <2>2
<1>3. Walker(p)'
  BY <1>1, <1>2 DEF StopInv, Base, Walker, IsIdle
<1>4. Base'
  <2>1. CASE Started(p, "resume", u, "letters")
    BY <1>1, <1>3, <2>1, StartBase DEF StopInv
  <2>2. CASE UNCHANGED <<on, pending, job>>
    <3>1. Types'
      BY <1>1, <2>2 DEF StopInv, Base, Types
    <3>2. Known(p)' /\ job'[p].op # "hash"
      BY <1>1, <2>2 DEF StopInv, Base, Known, Starts, Pend, IsIdle
    <3> QED
      BY <1>1, <1>2, <1>3, <2>2, <3>1, <3>2, OneProc DEF StopInv
  <2> QED
    BY <2>1, <2>2
<1>5. ASSUME NEW v \in Users PROVE Banned(v)'
  <2>1. CASE v = u /\ status[u] = "active"
    BY <1>1, <2>1 DEF Banned
  <2>2. CASE v # u
    BY <1>1, <1>2, <2>2, BannedElse DEF StopInv, IsIdle
  <2>3. CASE v = u /\ status[u] # "active"
    <3>1. UNCHANGED <<on, pending, job>>
      BY <2>3
    <3> QED
      BY <1>1, <3>1 DEF StopInv, Banned, On, Leaves, Starts
  <2> QED
    BY <2>1, <2>2, <2>3
<1>6. ASSUME NEW b \in Backups, After(b) PROVE StopsAll(b)'
  <2>1. /\ b # p /\ Walker(b) /\ Walker(p) /\ b \in Procs
        /\ phase[b] = "stopAgain" /\ Before(b, p)
        /\ \A i, j \in DOMAIN runtimes : runtimes[i] = runtimes[j] => i = j
        /\ DOMAIN runtimes = 1 .. Len(runtimes) /\ Len(runtimes) \in Nat
    BY <1>1, <1>6, TwoBackups
  <2>2. pos[b] \in 1 .. Len(runtimes) + 1 /\ (~IsIdle(b) => pos[b] >= 2 /\ job[b].user = runtimes[pos[b] - 1])
    BY <2>1 DEF Walker
  <2>3. pos[p] >= pos[b]
    BY <1>1, <2>1 DEF Before
  <2>4. \A i \in 1 .. Visited(b) : runtimes[i] # u
    BY <1>1, <2>1, <2>2, <2>3 DEF Visited
  <2>5. ~IsIdle(b) => job[b].user # u
    BY <1>1, <2>1, <2>2, <2>3
  <2>6. ASSUME NEW v \in Users, NEW x \in Workers, CountsOn(b, v, x)
        PROVE  (On(v, x)' <=> On(v, x)) /\ Pend(v, x)' = Pend(v, x)
    BY <1>2, <2>1, <2>4, <2>5, <2>6 DEF CountsOn
  <2>7. job'[b] = job[b] /\ pos'[b] = pos[b]
    BY <1>1, <1>2, <2>1
  <2>8. ASSUME NEW c \in Backups, phase[c] = "resume" PROVE Before(b, c)'
    <3>1. CASE c = p
      BY <1>1, <2>2, <2>3, <2>7, <3>1 DEF Before
    <3>2. CASE c # p
      <4>1. job'[c] = job[c] /\ pos'[c] = pos[c] /\ Before(b, c)
        BY <1>1, <1>2, <1>6, <2>1, <2>8, <3>2, TwoBackups
      <4> QED
        BY <2>7, <4>1 DEF Before, Meets, IsIdle
    <3> QED
      BY <3>1, <3>2
  <2> QED
    BY <1>1, <2>1, <2>6, <2>7, <2>8, OthersStep DEF StopInv
<1>7. \A b \in Backups : ~After(b) => StopsAll(b)'
  BY <1>1 DEF After, StopsAll
<1> QED
  BY <1>4, <1>5, <1>6, <1>7 DEF StopInv

\* The three ways of a visit.
LEMMA VisitKeeps == ASSUME StopInv, NEW p \in Backups, Visit(p) PROVE StopInv'
<1>1. PICK u \in Users : runtimes[pos[p]] = u
  BY VisitAt
<1>2. CASE Calm /\ phase[p] \in {"stop", "stopAgain"} /\ Dispose(p, u, "letters")
  BY <1>1, <1>2, VisitStops
<1>3. CASE phase[p] = "resume" /\ status[u] = "active" /\ Start(p, "resume", u, "letters")
  <2>1. Started(p, "resume", u, "letters")
    BY <1>3, VisitAt, StartDoes DEF StopInv, Base
  <2> QED
    BY <1>1, <1>3, <2>1, VisitStarts
<1>4. CASE phase[p] = "resume" /\ UNCHANGED <<work, job>>
  BY <1>1, <1>4, VisitStarts DEF work
<1> QED
  BY <1>1, <1>2, <1>3, <1>4 DEF Visit

-----------------------------------------------------------------------------
\* A backup goes from one phase to the next: the accounts are not concerned.
LEMMA PhaseKeeps ==
  ASSUME StopInv, Base', UNCHANGED <<status, runtimes, on, pending, job>>,
         \A b \in Backups : StopsAll(b)'
  PROVE  StopInv'
<1>1. ASSUME NEW u \in Users PROVE Banned(u)'
  BY DEF StopInv, Banned, On, Leaves, Starts
<1> QED
  BY <1>1 DEF StopInv

\* A new phase begins at the first account.
LEMMA WalkDoes ==
  ASSUME Types, NEW b \in Backups, NEW ph, Walk(b, ph)
  PROVE  /\ phase'[b] = ph /\ pos'[b] = 1
         /\ \A c \in Backups \ {b} : phase'[c] = phase[c] /\ pos'[c] = pos[c]
BY DEF Types, Walk

\* A backup closes the surfaces, which no other has closed.
LEMMA QuiesceKeeps == ASSUME StopInv, NEW b \in Backups, Quiesce(b) PROVE StopInv'
<1>1. /\ UNCHANGED <<accounts, work, job>> /\ UNCHANGED <<status, runtimes, on, pending, job>>
      /\ phase[b] = "idle" /\ ~maintenance /\ maintenance' = TRUE /\ Walk(b, "stop")
  BY DEF Quiesce, accounts, work
<1>2. \A c \in Backups : ~Stopping(c)
  BY <1>1 DEF StopInv, Base, OneBackup
<1>3. IsIdle(b)
  BY <1>1 DEF StopInv, Base, Walker, IsIdle
<1>4. Base'
  BY <1>1, <1>2, <1>3, BackupMoves DEF StopInv, Phases
<1>5. \A c \in Backups : ~After(c)'
  BY <1>1, <1>2, WalkDoes DEF After, Stopping, StopInv, Base
<1> QED
  BY <1>1, <1>4, <1>5, NobodyStops, PhaseKeeps

\* The first stop ends, its wait does, or a backup gives up or is over: the others
\* have not closed the surfaces.
LEMMA BeforeOrAfter ==
  ASSUME StopInv, NEW b \in Backups, Stopping(b), IsIdle(b),
         UNCHANGED <<accounts, work, job>>, NEW ph \in {"settle", "drain", "resume"},
         Walk(b, ph), maintenance' = (ph # "resume")
  PROVE  StopInv'
<1>1. UNCHANGED <<status, runtimes, on, pending, job>>
  BY DEF accounts, work
<1>2. \A c \in Backups \ {b} : ~Stopping(c)
  BY DEF StopInv, Base, OneBackup
<1>3. Base'
  <2>1. /\ ph \in Phases /\ maintenance' \in BOOLEAN
        /\ ph \notin {"stopAgain", "settleAgain", "snapshot"}
    BY DEF Phases
  <2> QED
    BY <1>2, <2>1, BackupMoves DEF StopInv
<1>4. \A c \in Backups : ~After(c)'
  BY <1>2, WalkDoes DEF After, Stopping, StopInv, Base
<1> QED
  BY <1>1, <1>3, <1>4, NobodyStops, PhaseKeeps

\* The second stop begins: nothing is visited yet, and who wakes accounts is further.
LEMMA DrainedKeeps == ASSUME StopInv, NEW b \in Backups, Drained(b) PROVE StopInv'
<1>1. /\ UNCHANGED <<accounts, work, job>> /\ UNCHANGED <<status, runtimes, on, pending, job>>
      /\ phase[b] = "drain" /\ maintenance' = maintenance /\ Walk(b, "stopAgain")
      /\ \A q \in Requests : IsIdle(q)
  BY DEF Drained, accounts, work
<1>2. Stopping(b) /\ IsIdle(b) /\ Types
  BY <1>1 DEF Stopping, StopInv, Base, Walker, IsIdle
<1>3. maintenance /\ \A c \in Backups \ {b} : ~Stopping(c)
  BY <1>2 DEF StopInv, Base, OneBackup
<1>4. Base'
  BY <1>1, <1>2, <1>3, BackupMoves DEF StopInv, Phases
<1>5. /\ phase'[b] = "stopAgain" /\ pos'[b] = 1
      /\ \A c \in Backups \ {b} : phase'[c] = phase[c] /\ pos'[c] = pos[c]
  BY <1>1, <1>2, WalkDoes
<1>6. ASSUME NEW c \in Backups, c # b PROVE StopsAll(c)'
  BY <1>3, <1>5, <1>6 DEF StopsAll, Stopping
<1>7. StopsAll(b)'
  <2>1. Visited(b)' = 0 /\ IsIdle(b)'
    BY <1>1, <1>2, <1>5 DEF Visited, IsIdle
  <2>2. ASSUME NEW c \in Backups, phase'[c] = "resume" PROVE Before(b, c)'
    <3>1. c # b /\ Walker(c) /\ pos[c] \in Nat /\ pos[c] >= 1
      BY <1>5, <2>2 DEF StopInv, Base, Walker, Types
    <3> QED
      BY <1>1, <1>5, <3>1 DEF Before, Walker, IsIdle
  <2> QED
    BY <1>5, <2>1, <2>2 DEF StopsAll
<1> QED
  BY <1>1, <1>4, <1>6, <1>7, PhaseKeeps

\* The second stop is over, or the wait behind it: all accounts have been visited.
LEMMA AllAreOff ==
  ASSUME StopInv, NEW b \in Backups, IsIdle(b),
         phase[b] \in {"settleAgain", "snapshot"} \/ (phase[b] = "stopAgain" /\ pos[b] > Len(runtimes))
  PROVE  /\ \A i \in DOMAIN runtimes : Off(runtimes[i])
         /\ \A c \in Backups : phase[c] = "resume" => IsIdle(c) /\ pos[c] > Len(runtimes)
<1>1. CASE phase[b] \in {"settleAgain", "snapshot"}
  BY <1>1 DEF StopInv, StopsAll
<1>2. CASE phase[b] = "stopAgain" /\ pos[b] > Len(runtimes)
  <2>1. pos[b] \in Nat /\ Len(runtimes) \in Nat /\ DOMAIN runtimes = 1 .. Len(runtimes)
    BY DEF StopInv, Base, Types
  <2>2. \A i \in DOMAIN runtimes : i \in 1 .. Visited(b)
    BY <1>2, <2>1 DEF Visited
  <2>3. \A i \in DOMAIN runtimes : Off(runtimes[i])
    BY <1>2, <2>2 DEF StopInv, StopsAll
  <2>4. ASSUME NEW c \in Backups, phase[c] = "resume" PROVE IsIdle(c) /\ pos[c] > Len(runtimes)
    <3>1. Before(b, c) /\ pos[c] \in 1 .. Len(runtimes) + 1
      BY <1>2, <2>4 DEF StopInv, Base, StopsAll, Walker
    <3> QED
      BY <1>2, <2>1, <3>1 DEF Before
  <2> QED
    BY <2>3, <2>4
<1> QED
  BY <1>1, <1>2

\* The second stop ends, and then the wait behind it.
LEMMA LastWaits ==
  ASSUME StopInv, NEW b \in Backups, After(b), IsIdle(b),
         phase[b] = "settleAgain" \/ (phase[b] = "stopAgain" /\ pos[b] > Len(runtimes)),
         UNCHANGED <<accounts, work, job, maintenance>>,
         NEW ph \in {"settleAgain", "snapshot"}, Walk(b, ph)
  PROVE  StopInv'
<1>1. UNCHANGED <<status, runtimes, on, pending, job>> /\ UNCHANGED <<accounts, work, job>>
  BY DEF accounts, work
<1>2. /\ Stopping(b) /\ maintenance /\ \A c \in Backups \ {b} : ~Stopping(c)
      /\ \A q \in Requests : IsIdle(q)
  BY DEF StopInv, Base, OneBackup, Drain, After, Stopping
<1>3. Base'
  <2>1. ph \in Phases
    BY DEF Phases
  <2> QED
    BY <1>1, <1>2, <2>1, BackupMoves DEF StopInv
<1>4. /\ phase'[b] = ph /\ \A c \in Backups \ {b} : phase'[c] = phase[c] /\ pos'[c] = pos[c]
  BY WalkDoes DEF StopInv, Base
<1>5. /\ \A i \in DOMAIN runtimes : Off(runtimes[i])
      /\ \A c \in Backups : phase[c] = "resume" => IsIdle(c) /\ pos[c] > Len(runtimes)
  BY AllAreOff
<1>6. ASSUME NEW c \in Backups, c # b PROVE StopsAll(c)'
  BY <1>2, <1>4, <1>6 DEF StopsAll, Stopping
<1>7. StopsAll(b)'
  <2>1. \A i \in DOMAIN runtimes : Off(runtimes[i])'
    BY <1>1, <1>5 DEF Off, On, Pend
  <2>2. ASSUME NEW c \in Backups, phase'[c] = "resume"
        PROVE  IsIdle(c)' /\ pos'[c] > Len(runtimes)
    <3>1. c # b /\ phase[c] = "resume"
      BY <1>4, <2>2
    <3> QED
      BY <1>1, <1>4, <1>5, <3>1 DEF IsIdle
  <2> QED
    BY <1>1, <1>4, <2>1, <2>2 DEF StopsAll
<1> QED
  BY <1>1, <1>3, <1>6, <1>7, PhaseKeeps

\* resumeAll() is over.
LEMMA ResumeAllEnds ==
  ASSUME StopInv, NEW p \in Backups, IsIdle(p), phase[p] = "resume",
         UNCHANGED <<accounts, work, job, maintenance>>, Walk(p, "idle")
  PROVE  StopInv'
<1>1. UNCHANGED <<status, runtimes, on, pending, job>> /\ UNCHANGED <<accounts, work, job>>
  BY DEF accounts, work
<1>2. /\ phase'[p] = "idle" /\ \A c \in Backups \ {p} : phase'[c] = phase[c] /\ pos'[c] = pos[c]
  BY WalkDoes DEF StopInv, Base
<1>3. Base'
  <2>1. \A c \in Backups \ {p} : Stopping(c) => maintenance'
    BY DEF StopInv, Base, OneBackup
  <2>2. maintenance' \in BOOLEAN /\ "idle" \in Phases
    BY DEF StopInv, Base, Types, Phases
  <2> QED
    BY <1>1, <2>1, <2>2, BackupMoves DEF StopInv
<1>4. ASSUME NEW b \in Backups PROVE StopsAll(b)'
  <2>1. CASE b = p
    BY <1>2, <2>1 DEF StopsAll
  <2>2. CASE b # p
    <3>1. phase'[b] = phase[b] /\ pos'[b] = pos[b] /\ StopsAll(b)
      BY <1>2, <2>2 DEF StopInv
    <3>2. ASSUME NEW c \in Backups, phase'[c] = "resume"
          PROVE  phase[c] = "resume" /\ pos'[c] = pos[c]
      BY <1>2, <3>2
    <3>3. \A c \in Backups : phase'[c] = "resume" /\ phase[b] = "stopAgain" => Before(b, c)'
      BY <1>1, <3>1, <3>2 DEF StopsAll, Before, Meets, IsIdle
    <3>4. \A c \in Backups : phase'[c] = "resume" /\ phase[b] \in {"settleAgain", "snapshot"}
            => IsIdle(c)' /\ pos'[c] > Len(runtimes)
      BY <1>1, <3>1, <3>2 DEF StopsAll, IsIdle
    <3>5. \A v \in Users, x \in Workers : (On(v, x)' <=> On(v, x)) /\ Pend(v, x)' = Pend(v, x)
      BY <1>1 DEF On, Pend
    <3>6. CASE After(b)
      BY <1>1, <3>1, <3>3, <3>4, <3>5, <3>6, OthersStep DEF StopInv, After
    <3>7. CASE ~After(b)
      BY <3>1, <3>7 DEF After, StopsAll
    <3> QED
      BY <3>6, <3>7
  <2> QED
    BY <2>1, <2>2
<1> QED
  BY <1>1, <1>3, <1>4, PhaseKeeps

\* The steps of a backup.
LEMMA MaintainKeeps == ASSUME StopInv, NEW b \in Backups, Maintain(b) PROVE StopInv'
<1>1. CASE Visit(b)
  BY <1>1, VisitKeeps
<1>2. CASE WalkEnds(b)
  <2>1. IsIdle(b) /\ pos[b] > Len(runtimes) /\ UNCHANGED <<accounts, work, job, maintenance>>
    BY <1>2 DEF WalkEnds
  <2>2. CASE phase[b] = "stop" /\ Walk(b, "settle")
    <3>1. Stopping(b) /\ maintenance' = TRUE
      BY <2>1, <2>2 DEF Stopping, StopInv, Base, OneBackup, Types
    <3> QED
      BY <2>1, <2>2, <3>1, BeforeOrAfter
  <2>3. CASE phase[b] = "stopAgain" /\ Walk(b, "settleAgain")
    BY <2>1, <2>3, LastWaits DEF After
  <2>4. CASE phase[b] = "resume" /\ Walk(b, "idle")
    BY <2>1, <2>4, ResumeAllEnds
  <2> QED
    BY <1>2, <2>2, <2>3, <2>4 DEF WalkEnds
<1>3. CASE Settled(b)
  <2>1. UNCHANGED <<accounts, work, job, maintenance>>
    BY <1>3 DEF Settled
  <2>2. CASE phase[b] = "settle" /\ Walk(b, "drain")
    <3>1. Stopping(b) /\ maintenance' = TRUE /\ IsIdle(b)
      BY <2>1, <2>2 DEF Stopping, StopInv, Base, OneBackup, Types, Walker, IsIdle
    <3> QED
      BY <2>1, <2>2, <3>1, BeforeOrAfter
  <2>3. CASE phase[b] = "settleAgain" /\ Walk(b, "snapshot")
    <3>1. IsIdle(b)
      BY <2>3 DEF StopInv, Base, Walker, IsIdle
    <3> QED
      BY <2>1, <2>3, <3>1, LastWaits DEF After
  <2> QED
    BY <1>3, <2>2, <2>3 DEF Settled
<1>4. CASE Drained(b)
  BY <1>4, DrainedKeeps
<1>5. CASE GiveUp(b) \/ Snapshot(b)
  <2>1. phase[b] \in {"settle", "drain", "settleAgain", "snapshot"} /\ Reopen(b)
    BY <1>5 DEF GiveUp, Snapshot
  <2>2. Stopping(b) /\ IsIdle(b)
    BY <2>1 DEF Stopping, StopInv, Base, Walker, IsIdle
  <2> QED
    BY <2>1, <2>2, BeforeOrAfter DEF Reopen
<1> QED
  BY <1>1, <1>2, <1>3, <1>4, <1>5 DEF Maintain

-----------------------------------------------------------------------------
\* At boot nobody stops or starts anything.
LEMMA InitStops == ASSUME Init PROVE StopInv
<1>1. /\ runtimes = AtBoot /\ maintenance = FALSE
      /\ status = [u \in Users |-> IF u \in Restored THEN "active" ELSE "none"]
      /\ on = Restored \X Workers /\ pending = [x \in Users \X Workers |-> 0]
      /\ job = [p \in Procs |-> Idle]
      /\ phase = [b \in Backups |-> "idle"] /\ pos = [b \in Backups |-> 1]
  BY DEF Init
<1>2. AtBoot \in Seq(Users) /\ Len(AtBoot) > 0 /\ Restored \subseteq Users /\ 1 \in DOMAIN AtBoot
      /\ \A i, j \in DOMAIN AtBoot : AtBoot[i] = AtBoot[j] => i = j
  BY MaintenanceAssumption DEF Restored
<1>3. Idle \in JobRow /\ Idle.op = "idle" /\ Idle.ahead = 0
  BY <1>2 DEF Idle, JobRow, Operations, Workers
<1>4. \A p \in Procs : job[p] \in JobRow /\ job[p].op = "idle" /\ job[p].ahead = 0
  BY <1>1, <1>3
<1>5. Types
  BY <1>1, <1>2, <1>3 DEF Types, Phases
<1>6. ASSUME NEW p \in Procs PROVE Known(p)
  <2>1. PICK v \in Users, x \in Workers : job[p].user = v /\ job[p].at = x
    BY <1>5 DEF Types, JobRow
  <2>2. Pend(v, x) = 0
    BY <1>1 DEF Pend
  <2> QED
    BY <1>4, <2>1, <2>2 DEF Known, Starts
<1>7. ASSUME NEW b \in Backups PROVE Walker(b) /\ ~Stopping(b) /\ ~After(b)
  BY <1>1, <1>2, <1>4 DEF Walker, IsIdle, Procs, Stopping, After
<1>8. Directory
  <2>1. \A u \in Users : Registered(u) <=> u \in Restored
    BY <1>1 DEF Registered, Restored
  <2>2. \A u \in Users : status[u] # "none" <=> u \in Restored
    BY <1>1
  <2>3. \A u \in Users, w \in Workers : status[u] = "none" => ~On(u, w) /\ Pend(u, w) = 0
    BY <1>1, <2>2 DEF On, Pend
  <2> QED
    BY <1>1, <1>2, <1>4, <2>1, <2>2, <2>3 DEF Directory
<1>9. OneBackup /\ Drain
  BY <1>7 DEF OneBackup, Drain
<1>10. \A u \in Users : Banned(u)
  BY <1>1 DEF Banned
<1>11. \A b \in Backups : StopsAll(b)
  BY <1>7 DEF After, StopsAll
<1> QED
  BY <1>5, <1>6, <1>7, <1>8, <1>9, <1>10, <1>11 DEF StopInv, Base

\* The ticks of the hours concern only their scheduler.
LEMMA HourKeeps ==
  ASSUME StopInv, NEW u \in Users, HourlyFires(u) \/ TickEnds(u) PROVE StopInv'
<1>1. UNCHANGED <<status, runtimes, on, pending, job, phase, pos, maintenance>>
  BY DEF HourlyFires, TickEnds, accounts, backup
<1> QED
  BY <1>1, NothingMoves

\* Every step keeps the invariant.
LEMMA StopsNext == ASSUME StopInv, [Next]_vars PROVE StopInv'
<1>1. CASE UNCHANGED vars
  BY <1>1, NothingMoves DEF vars, accounts, work, backup
<1>2. CASE \E u \in Users, w \in Workers : Wake(u, w) \/ CycleEnds(u, w)
  BY <1>2, WakeKeeps, CycleKeeps
<1>3. CASE \E u \in Users : HourlyFires(u) \/ TickEnds(u)
  BY <1>3, HourKeeps
<1>4. CASE \E p \in Requests, u \in Users : Register(p, u) \/ Ban(p, u) \/ Unban(p, u)
  BY <1>4, RegisterKeeps, BanKeeps, UnbanKeeps
<1>5. CASE \E p \in Procs : Proceed(p)
  <2>1. PICK p \in Procs : Create(p) \/ Disconnecting(p) \/ Resuming(p)
    BY <1>5 DEF Proceed
  <2>2. Create(p) => p \in Requests
    <3>1. ASSUME p \in Backups PROVE job[p].op # "hash"
      BY <3>1 DEF StopInv, Base, Walker
    <3> QED
      BY <3>1 DEF Create, Procs
  <2> QED
    BY <2>1, <2>2, CreateKeeps, DisconnectKeeps, ResumeKeeps
<1>6. CASE \E b \in Backups : Quiesce(b) \/ Maintain(b)
  BY <1>6, QuiesceKeeps, MaintainKeeps
<1> QED
  BY <1>1, <1>2, <1>3, <1>4, <1>5, <1>6 DEF Next

\* The inductive invariant holds in every reachable state.
THEOREM StopInvariant == Spec => []StopInv
<1> QED
  BY InitStops, StopsNext, PTL DEF Spec

\* While a backup copies the files no worker is started, no cycle runs and no request
\* that changes accounts is under way, for any number of backups that follow one
\* another into their resumeAll().
THEOREM BackupsAreQuiet == Spec => []QuietDuringBackup
<1>1. ASSUME StopInv PROVE QuietDuringBackup
  <2> SUFFICES ASSUME NEW b \in Backups, phase[b] = "snapshot"
               PROVE  /\ on = {} /\ \A x \in Users \X Workers : pending[x] = 0
                      /\ \A q \in Requests : IsIdle(q)
    BY DEF QuietDuringBackup
  <2>1. /\ \A i \in DOMAIN runtimes : Off(runtimes[i]) /\ Directory /\ on \subseteq Users \X Workers
    BY <1>1 DEF StopInv, Base, Types, StopsAll
  <2>2. ASSUME NEW u \in Users, NEW w \in Workers PROVE ~On(u, w) /\ Pend(u, w) = 0
    <3>1. CASE status[u] = "none"
      BY <1>1, <3>1 DEF StopInv, Base, Directory
    <3>2. CASE status[u] # "none"
      <4>1. Registered(u)
        BY <1>1, <3>2 DEF StopInv, Base, Directory
      <4>2. Off(u)
        BY <1>1, <4>1 DEF Registered, StopInv, StopsAll
      <4> QED
        BY <4>2 DEF Off
    <3> QED
      BY <3>1, <3>2
  <2>3. \A q \in Requests : IsIdle(q)
    BY <1>1 DEF StopInv, Base, Drain, After
  <2>4. on = {} /\ \A x \in Users \X Workers : pending[x] = 0
    <3>1. ASSUME NEW x \in Users \X Workers PROVE x \notin on /\ pending[x] = 0
      <4>1. PICK u \in Users, w \in Workers : x = <<u, w>>
        OBVIOUS
      <4> QED
        BY <2>2, <4>1 DEF On, Pend
    <3>2. on \subseteq Users \X Workers
      BY <1>1 DEF StopInv, Base, Types
    <3> QED
      BY <3>1, <3>2
  <2> QED
    BY <2>3, <2>4
<1> QED
  BY <1>1, StopInvariant, PTL

\* However bans, unbans and backups overlap, an account that is left banned has no
\* worker started.
THEOREM BannedStaysQuiet == Spec => []BannedIsQuiet
<1>1. ASSUME StopInv PROVE BannedIsQuiet
  BY <1>1 DEF StopInv, BannedIsQuiet, Banned, On, Leaves, IsIdle, Workers
<1> QED
  BY <1>1, StopInvariant, PTL

\* The type of the state, with the bounds of the model on timers and ticks.
THEOREM MaintenanceTypes == Spec => []TypeOK
<1>1. ASSUME StopInv, HourInv PROVE TypeOK
  <2>1. Types /\ \A b \in Backups : pos[b] \in 1 .. Len(runtimes) + 1
    BY <1>1 DEF StopInv, Base, Walker
  <2>2. pos \in [Backups -> 1 .. Len(runtimes) + 1]
    BY <2>1 DEF Types
  <2>3. ASSUME NEW u \in Users
        PROVE  hourly[u] \in [stopped : BOOLEAN, timer : BOOLEAN, orphans : 0 .. MaxLoops,
                              ticking : 0 .. MaxLoops]
    <3>1. Armed(hourly[u])
      BY <1>1 DEF HourInv
    <3> QED
      BY <3>1, MaintenanceAssumption DEF Armed, Hourly
  <2>4. hourly \in [Users -> [stopped : BOOLEAN, timer : BOOLEAN, orphans : 0 .. MaxLoops,
                             ticking : 0 .. MaxLoops]]
    BY <1>1, <2>3 DEF HourInv
  <2> QED
    BY <2>1, <2>2, <2>4 DEF Types, TypeOK, Phases, JobRow, Operations
<1>2. Init => HourInv
  BY InitHour
<1>3. HourInv /\ [Next]_vars => HourInv'
  BY NextHour
<1> QED
  BY <1>1, <1>2, <1>3, StopInvariant, PTL DEF Spec

-----------------------------------------------------------------------------
(***************************************************************************)
(* The queue.  The order in which tasks came lives in the history variable *)
(* before; QueueInv says how the map and the chain of promises represent   *)
(* that order.                                                             *)
(***************************************************************************)

Came(t) == stage[t] # "idle"

\* before orders the tasks of an actor that have come.
ComingOrder ==
  /\ \A t \in Tasks : \A s \in before[t] : Of[s] = Of[t] /\ Came(s) /\ s # t
  /\ \A s, t \in Tasks :
       Came(s) /\ Came(t) /\ Of[s] = Of[t] /\ s # t => s \in before[t] \/ t \in before[s]

\* The tail of an actor is its latest task, and it is not done.
TailIsLatest ==
  \A a \in Actors : tails[a] # None =>
    /\ Of[tails[a]] = a /\ stage[tails[a]] \in {"waiting", "running"}
    /\ \A s \in Tasks : Of[s] = a /\ Came(s) /\ s # tails[a] => s \in before[tails[a]]

NoTailNoWork ==
  \A t \in Tasks : tails[Of[t]] = None => stage[t] \in {"idle", "done"}

\* A task waits for its immediate predecessor, or everybody before it was done.
ChainFollowsOrder ==
  \A t \in Tasks : Came(t) =>
    /\ behind[t] = None => \A s \in before[t] : stage[s] = "done"
    /\ behind[t] # None => \A s \in before[t] : s = behind[t] \/ s \in before[behind[t]]

SettledIsDone == \A t \in settled : stage[t] = "done"

QueueInv ==
  /\ QueueTypeOK /\ ComingOrder /\ TailIsLatest /\ NoTailNoWork /\ ChainFollowsOrder
  /\ SettledIsDone /\ ServedInOrder

-----------------------------------------------------------------------------
\* The invariant holds when nobody has come.
LEMMA QueueStarts == QueueInit => QueueInv
  BY QueueAssumption DEF QueueInit, QueueInv, QueueTypeOK, ComingOrder, TailIsLatest, NoTailNoWork,
     ChainFollowsOrder, SettledIsDone, ServedInOrder, Came

\* A new task comes after all the others of its actor.
LEMMA EnterQueues == ASSUME QueueInv, NEW t \in Tasks, Enter(t) PROVE QueueInv'
<1> USE QueueAssumption DEF QueueInv, Came
<1>a. /\ \A s \in Tasks : t \notin before[s] /\ before[s] \subseteq Tasks
      /\ stage[t] = "idle" /\ t \notin settled /\ settled' = settled
  BY DEF Enter, QueueTypeOK, ComingOrder, SettledIsDone
<1>b. /\ \A s \in Tasks \ {t} :
           stage'[s] = stage[s] /\ before'[s] = before[s] /\ behind'[s] = behind[s]
      /\ stage'[t] = "waiting" /\ behind'[t] = tails[Of[t]]
  BY DEF Enter, SetStage, QueueTypeOK
<1>c. before'[t] = {s \in Tasks : Of[s] = Of[t] /\ stage[s] # "idle"}
  BY DEF Enter, QueueTypeOK
<1>d. tails' = [tails EXCEPT ![Of[t]] = t] /\ tails'[Of[t]] = t
  BY DEF Enter, QueueTypeOK
<1>1. /\ \A s \in Tasks : t \notin before[s] /\ before[s] \subseteq Tasks
      /\ stage[t] = "idle" /\ t \notin settled /\ settled' = settled
      /\ \A s \in Tasks \ {t} :
           stage'[s] = stage[s] /\ before'[s] = before[s] /\ behind'[s] = behind[s]
      /\ stage'[t] = "waiting" /\ behind'[t] = tails[Of[t]]
      /\ \A s \in Tasks : s \in before'[t] <=> Of[s] = Of[t] /\ stage[s] # "idle"
      /\ before'[t] \subseteq Tasks
      /\ tails' = [tails EXCEPT ![Of[t]] = t] /\ tails'[Of[t]] = t
  BY <1>a, <1>b, <1>c, <1>d
<1>2. QueueTypeOK'
  BY DEF Enter, SetStage, QueueTypeOK
<1>3. ComingOrder'
  <2>1. \A x \in Tasks : \A s \in before'[x] : Of[s] = Of[x] /\ Came(s)' /\ s # x
    BY <1>1 DEF ComingOrder, QueueTypeOK
  <2>2. \A s, x \in Tasks :
          Came(s)' /\ Came(x)' /\ Of[s] = Of[x] /\ s # x => s \in before'[x] \/ x \in before'[s]
    BY <1>1 DEF ComingOrder, QueueTypeOK
  <2> QED BY <2>1, <2>2 DEF ComingOrder
<1>4. TailIsLatest'
  <2> SUFFICES ASSUME NEW a \in Actors, tails'[a] # None
               PROVE /\ Of[tails'[a]] = a /\ stage'[tails'[a]] \in {"waiting", "running"}
                     /\ \A s \in Tasks : Of[s] = a /\ Came(s)' /\ s # tails'[a]
                                           => s \in before'[tails'[a]]
    BY DEF TailIsLatest
  <2>1. CASE a = Of[t]
    BY <2>1, <1>1 DEF QueueTypeOK
  <2>2. CASE a # Of[t]
    <3>1. tails'[a] = tails[a] /\ tails[a] \in Tasks \ {t}
      BY <2>2, <1>1 DEF QueueTypeOK, TailIsLatest
    <3> QED BY <2>2, <3>1, <1>1 DEF QueueTypeOK, TailIsLatest
  <2> QED BY <2>1, <2>2
<1>5. NoTailNoWork'
  BY <1>1 DEF NoTailNoWork, QueueTypeOK
<1>6. ChainFollowsOrder'
  <2> SUFFICES ASSUME NEW x \in Tasks, Came(x)'
               PROVE /\ behind'[x] = None => \A s \in before'[x] : stage'[s] = "done"
                     /\ behind'[x] # None =>
                          \A s \in before'[x] : s = behind'[x] \/ s \in before'[behind'[x]]
    BY DEF ChainFollowsOrder
  <2>1. CASE x = t
    <3>1. CASE tails[Of[t]] = None
      BY <2>1, <3>1, <1>1 DEF NoTailNoWork, QueueTypeOK
    <3>2. CASE tails[Of[t]] # None
      <4>1. tails[Of[t]] \in Tasks \ {t}
        BY <3>2, <1>1 DEF QueueTypeOK, TailIsLatest
      <4> QED BY <2>1, <3>2, <4>1, <1>1 DEF TailIsLatest, QueueTypeOK
    <3> QED BY <3>1, <3>2
  <2>2. CASE x # t
    <3>1. Came(x) /\ behind'[x] = behind[x] /\ before'[x] = before[x]
      BY <2>2, <1>1
    <3>2. \A s \in before[x] : s # t /\ stage'[s] = stage[s]
      BY <1>1 DEF QueueTypeOK
    <3>3. CASE behind[x] = t
      BY <3>1, <3>2, <3>3, <1>1 DEF ChainFollowsOrder, QueueTypeOK, ComingOrder
    <3>4. CASE behind[x] # t
      BY <3>1, <3>2, <3>4, <1>1 DEF ChainFollowsOrder, QueueTypeOK
    <3> QED BY <3>3, <3>4
  <2> QED BY <2>1, <2>2
<1>7. SettledIsDone' /\ ServedInOrder'
  BY <1>1 DEF SettledIsDone, ServedInOrder, QueueTypeOK
<1> QED BY <1>2, <1>3, <1>4, <1>5, <1>6, <1>7

\* A task begins when its predecessor's promise is resolved: everybody before it is done.
LEMMA BeginQueues == ASSUME QueueInv, NEW t \in Tasks, Begin(t) PROVE QueueInv'
<1> USE QueueAssumption DEF QueueInv, Came
<1>1. /\ stage' = [stage EXCEPT ![t] = "running"] /\ stage[t] = "waiting"
      /\ UNCHANGED <<tails, behind, settled, before>>
  BY DEF Begin, SetStage
<1>2. \A s \in before[t] : stage[s] = "done"
  BY DEF Begin, PreviousIsOver, ChainFollowsOrder, SettledIsDone, ServedInOrder, QueueTypeOK
<1>3. QueueTypeOK' /\ ComingOrder' /\ SettledIsDone'
  BY <1>1 DEF QueueTypeOK, ComingOrder, SettledIsDone
<1>4. TailIsLatest' /\ NoTailNoWork'
  BY <1>1 DEF QueueTypeOK, TailIsLatest, NoTailNoWork
<1>5. ChainFollowsOrder' /\ ServedInOrder'
  BY <1>1, <1>2 DEF QueueTypeOK, ChainFollowsOrder, ServedInOrder
<1> QED BY <1>3, <1>4, <1>5

\* If the task that ends is its actor's tail it is the latest, so nobody is left.
LEMMA EndQueues == ASSUME QueueInv, NEW t \in Tasks, End(t) PROVE QueueInv'
<1> USE QueueAssumption DEF QueueInv, Came
<1>1. /\ stage' = [stage EXCEPT ![t] = "done"] /\ stage[t] = "running"
      /\ UNCHANGED <<behind, settled, before>>
      /\ tails' = IF tails[Of[t]] = t THEN [tails EXCEPT ![Of[t]] = None] ELSE tails
  BY DEF End, SetStage
<1>2. QueueTypeOK' /\ ComingOrder' /\ SettledIsDone'
  BY <1>1 DEF QueueTypeOK, ComingOrder, SettledIsDone
<1>3. ChainFollowsOrder' /\ ServedInOrder'
  BY <1>1 DEF QueueTypeOK, ChainFollowsOrder, ServedInOrder
<1>4. CASE tails[Of[t]] = t
  <2>1. tails' = [tails EXCEPT ![Of[t]] = None]
    BY <1>1, <1>4
  <2>2. \A s \in Tasks : Of[s] = Of[t] /\ s # t => stage[s] \in {"idle", "done"}
    BY <1>1, <1>4 DEF TailIsLatest, ServedInOrder, QueueTypeOK
  <2>3. TailIsLatest'
    BY <1>1, <2>1 DEF TailIsLatest, QueueTypeOK
  <2>4. NoTailNoWork'
    BY <1>1, <2>1, <2>2 DEF NoTailNoWork, QueueTypeOK
  <2> QED BY <1>2, <1>3, <2>3, <2>4
<1>5. CASE tails[Of[t]] # t
  <2>1. TailIsLatest'
    BY <1>1, <1>5 DEF TailIsLatest, QueueTypeOK
  <2>2. NoTailNoWork'
    BY <1>1, <1>5 DEF NoTailNoWork, QueueTypeOK
  <2> QED BY <1>2, <1>3, <2>1, <2>2
<1> QED BY <1>4, <1>5

\* A promise is resolved only after its task.
LEMMA SettleQueues == ASSUME QueueInv, NEW t \in Tasks, Settle(t) PROVE QueueInv'
  BY DEF QueueInv, Came, Settle, QueueTypeOK, ComingOrder, TailIsLatest, NoTailNoWork,
     ChainFollowsOrder, SettledIsDone, ServedInOrder

\* The invariant holds in every reachable state.
THEOREM QueueInvariant == QueueSpec => []QueueInv
<1>1. ASSUME QueueInv, [QueueNext]_queueVars PROVE QueueInv'
  <2>1. CASE UNCHANGED queueVars
    BY <1>1, <2>1 DEF queueVars, QueueInv, Came, QueueTypeOK, ComingOrder, TailIsLatest, NoTailNoWork,
       ChainFollowsOrder, SettledIsDone, ServedInOrder
  <2>2. CASE QueueNext
    BY <1>1, <2>2, EnterQueues, BeginQueues, EndQueues, SettleQueues DEF QueueNext
  <2> QED BY <1>1, <2>1, <2>2
<1> QED BY QueueStarts, <1>1, PTL DEF QueueSpec

\* The variables keep their types.
THEOREM QueueTypeCorrect == QueueSpec => []QueueTypeOK
<1>1. QueueInv => QueueTypeOK BY DEF QueueInv
<1> QED BY QueueInvariant, <1>1, PTL

\* Tasks of an actor are run one after the other in the order they came.
THEOREM QueueServesInOrder == QueueSpec => []ServedInOrder
<1>1. QueueInv => ServedInOrder BY DEF QueueInv
<1> QED BY QueueInvariant, <1>1, PTL

\* Two tasks of one actor are never inside their sections together: of any two, one
\* came before the other.
THEOREM QueueExclusive == QueueSpec => []OneAtATime
<1>1. QueueInv => OneAtATime
  BY DEF QueueInv, ComingOrder, Came, ServedInOrder, OneAtATime
<1> QED BY QueueInvariant, <1>1, PTL

\* The map has an entry for an actor exactly while some task of it waits or runs.
THEOREM QueueCountsBusy == QueueSpec => []CountedWhileBusy
<1>1. QueueInv => CountedWhileBusy
  BY QueueAssumption DEF QueueInv, QueueTypeOK, TailIsLatest, NoTailNoWork, CountedWhileBusy
<1> QED BY QueueInvariant, <1>1, PTL
=============================================================================
