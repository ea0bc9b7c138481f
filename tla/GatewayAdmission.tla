-------------------------- MODULE GatewayAdmission --------------------------
(***************************************************************************)
(* Admission of model calls in hosted/model-gateway.ts.  A call takes one  *)
(* of a limited number of slots before it may go to its provider: so many  *)
(* in the whole server, so many per account, and one for pictures.  Calls  *)
(* that find none wait in one queue.  drain() walks it whenever a call     *)
(* enters, a slot is freed or the gateway is resumed.                      *)
(*                                                                         *)
(* drain() and abortUser() run without an await: a turn of their loops is  *)
(* one step here, and nothing else happens until the loop ends.  A granted *)
(* call goes on in a later microtask: until then it holds a slot, and      *)
(* nobody finds it in the queue or among the controllers to be aborted.    *)
(***************************************************************************)
EXTENDS Integers, FiniteSets, SequencesExt

CONSTANTS
  Users,      \* accounts
  Calls,      \* callers of the gateway; a caller comes back after its call ended
  Owner,      \* the account a caller works for
  Images,     \* callers that ask for a picture
  Settings,   \* the limits an administrator may set
  Nobody

VARIABLES
  \* memory of the gateway
  queue, paused,
  draining,   \* drain() is running
  evicting,   \* the account abortUser() is running for, or Nobody
  active, activeImages, activeUsers,
  \* the stage of each call, and the calls whose controller was aborted
  stage, aborted,
  \* control database: the limits in force and the accounts that are banned
  limits, banned

loops    == <<draining, evicting>>
counters == <<active, activeImages, activeUsers>>
store    == <<limits, banned>>
vars     == <<queue, paused, loops, counters, stage, aborted, store>>

ASSUME AdmissionAssumption ==
  /\ IsFiniteSet(Calls)
  /\ Owner \in [Calls -> Users]
  /\ Images \subseteq Calls
  /\ Nobody \notin Users
  /\ Settings \subseteq [global : Nat \ {0}, perUser : Nat \ {0},
                         waiting : Nat \ {0}, enabled : BOOLEAN]

-----------------------------------------------------------------------------
Kind(c)   == IF c \in Images THEN "image" ELSE "text"
Turn      == ~draining /\ evicting = Nobody
SetStage(c, s) == stage' = [stage EXCEPT ![c] = s]

Eligible(c) ==
  /\ activeUsers[Owner[c]] < limits.perUser
  /\ c \in Images => activeImages < 1

\* acquire(): a call that is let in enters at the end of the queue, which is then
\* drained; one that is refused changes nothing.
Acquire(c) ==
  /\ Turn /\ stage[c] = "idle"
  /\ ~paused /\ limits.enabled /\ Len(queue) < limits.waiting
  /\ queue' = Append(queue, c) /\ SetStage(c, "queued")
  /\ draining' = TRUE
  /\ UNCHANGED <<paused, evicting, counters, aborted, store>>

\* One turn of the loop in drain(): the first call in the queue that fits gets a slot.
Grant(i) ==
  LET c == queue[i] IN
  /\ draining /\ active < limits.global
  /\ Eligible(c) /\ \A j \in 1 .. i - 1 : ~Eligible(queue[j])
  /\ queue' = RemoveAt(queue, i) /\ SetStage(c, "granted")
  /\ active' = active + 1
  /\ activeImages' = activeImages + (IF c \in Images THEN 1 ELSE 0)
  /\ activeUsers' = [activeUsers EXCEPT ![Owner[c]] = @ + 1]
  /\ UNCHANGED <<paused, loops, aborted, store>>

DrainEnds ==
  /\ draining /\ draining' = FALSE
  /\ active >= limits.global \/ \A i \in DOMAIN queue : ~Eligible(queue[i])
  /\ UNCHANGED <<queue, paused, evicting, counters, stage, aborted, store>>

\* Mutant of Start: the account is not looked up again after the wait.
StartsBanned(c) ==
  /\ Turn /\ stage[c] = "granted" /\ limits.enabled
  /\ SetStage(c, "sent")
  /\ UNCHANGED <<queue, paused, loops, counters, aborted, store>>

\* The granted call registers its controller and passes the store's last checks; its
\* request leaves and the call awaits the provider.
Start(c) ==
  /\ Turn /\ stage[c] = "granted"
  /\ Owner[c] \notin banned /\ limits.enabled
  /\ SetStage(c, "sent")
  /\ UNCHANGED <<queue, paused, loops, counters, aborted, store>>

\* Mutant of Release: a freed slot does not start drain().
ReleaseWakesNobody(c) ==
  /\ SetStage(c, "idle") /\ aborted' = aborted \ {c}
  /\ active' = active - 1
  /\ activeImages' = activeImages - (IF c \in Images THEN 1 ELSE 0)
  /\ activeUsers' = [activeUsers EXCEPT ![Owner[c]] = @ - 1]
  /\ UNCHANGED <<queue, paused, loops, store>>

\* The slot is released, and the queue drained unless the gateway is paused.
Release(c) ==
  /\ SetStage(c, "idle") /\ aborted' = aborted \ {c}
  /\ active' = active - 1
  /\ activeImages' = activeImages - (IF c \in Images THEN 1 ELSE 0)
  /\ activeUsers' = [activeUsers EXCEPT ![Owner[c]] = @ - 1]
  /\ draining' = ~paused
  /\ UNCHANGED <<queue, paused, evicting, store>>

\* Mutant of Refused: a call refused after the grant does not give its slot back.
RefusedKeepsSlot(c) ==
  /\ Turn /\ stage[c] = "granted" /\ SetStage(c, "idle")
  /\ UNCHANGED <<queue, paused, loops, counters, aborted, store>>

\* One of the checks fails after the grant: the route, the price, the account, the
\* budget or the switch for all calls.
Refused(c) == Turn /\ stage[c] = "granted" /\ Release(c)

\* The provider answered, or the request failed or was aborted.
Finish(c) == Turn /\ stage[c] = "sent" /\ Release(c)

Leave(i) == queue' = RemoveAt(queue, i) /\ SetStage(queue[i], "idle")

\* The caller gives up while it waits: its abort listener takes it out of the queue.
Cancel(i) ==
  /\ Turn /\ Leave(i)
  /\ UNCHANGED <<paused, loops, counters, aborted, store>>

Empty ==
  /\ paused' = TRUE /\ queue' = <<>>
  /\ stage' = [c \in Calls |-> IF stage[c] = "queued" THEN "idle" ELSE stage[c]]

\* Before a backup the gateway is paused; on shutdown it is paused for good, and what
\* is on its way is aborted.
Pause ==
  /\ Turn /\ Empty
  /\ UNCHANGED <<loops, counters, aborted, store>>

Shutdown ==
  /\ Turn /\ Empty
  /\ aborted' = aborted \cup {c \in Calls : stage[c] = "sent"}
  /\ UNCHANGED <<loops, counters, store>>

Resume ==
  /\ Turn /\ paused' = FALSE /\ draining' = TRUE
  /\ UNCHANGED <<queue, evicting, counters, stage, aborted, store>>

\* An administrator bans an account: its status, then abortUser(), which takes its
\* calls out of the queue one by one and aborts those on their way.
Ban(u) ==
  /\ Turn /\ banned' = banned \cup {u} /\ evicting' = u
  /\ UNCHANGED <<queue, paused, draining, counters, stage, aborted, limits>>

Evict(i) ==
  /\ evicting # Nobody /\ Owner[queue[i]] = evicting
  /\ Leave(i)
  /\ UNCHANGED <<paused, loops, counters, aborted, store>>

AbortSent ==
  /\ evicting # Nobody /\ \A i \in DOMAIN queue : Owner[queue[i]] # evicting
  /\ aborted' = aborted \cup {c \in Calls : Owner[c] = evicting /\ stage[c] = "sent"}
  /\ evicting' = Nobody
  /\ UNCHANGED <<queue, paused, draining, counters, stage, store>>

Unban(u) ==
  /\ Turn /\ banned' = banned \ {u}
  /\ UNCHANGED <<queue, paused, loops, counters, stage, aborted, limits>>

\* New limits are read by the next drain(); they do not start one.
SetLimits(l) ==
  /\ Turn /\ limits' = l
  /\ UNCHANGED <<queue, paused, loops, counters, stage, aborted, banned>>

-----------------------------------------------------------------------------
Init ==
  /\ queue = <<>> /\ paused = FALSE /\ draining = FALSE /\ evicting = Nobody
  /\ active = 0 /\ activeImages = 0 /\ activeUsers = [u \in Users |-> 0]
  /\ stage = [c \in Calls |-> "idle"] /\ aborted = {}
  /\ limits \in Settings /\ banned = {}

Drain     == DrainEnds \/ \E i \in DOMAIN queue : Grant(i)
AbortUser == AbortSent \/ \E i \in DOMAIN queue : Evict(i)

Next ==
  \/ Drain \/ AbortUser
  \/ \E c \in Calls : Acquire(c) \/ Start(c) \/ Refused(c) \/ Finish(c)
  \/ \E i \in DOMAIN queue : Cancel(i)
  \/ Pause \/ Shutdown \/ Resume
  \/ \E u \in Users : Ban(u) \/ Unban(u)
  \/ \E l \in Settings : SetLimits(l)

\* The event loop finishes what it runs and comes to every callback that is due, and
\* every request ends because its transport has a timeout.
Fairness ==
  /\ WF_vars(Drain) /\ WF_vars(AbortUser)
  /\ \A c \in Calls : SF_vars(Start(c) \/ Refused(c)) /\ SF_vars(Finish(c))

Spec == Init /\ [][Next]_vars /\ Fairness

-----------------------------------------------------------------------------
Holders == {c \in Calls : stage[c] \in {"granted", "sent"}}

TypeOK ==
  /\ queue \in Seq(Calls) /\ paused \in BOOLEAN /\ draining \in BOOLEAN
  /\ evicting \in Users \cup {Nobody}
  /\ active \in Nat /\ activeImages \in Nat /\ activeUsers \in [Users -> Nat]
  /\ stage \in [Calls -> {"idle", "queued", "granted", "sent"}]
  /\ aborted \subseteq Calls
  /\ limits \in Settings /\ banned \subseteq Users

\* The three counters that admission reads agree with the calls that hold a slot,
\* however calls end, are aborted or are refused after the grant: a slot is neither
\* lost nor freed twice.
SlotsMatch ==
  /\ active = Cardinality(Holders)
  /\ activeImages = Cardinality(Holders \cap Images)
  /\ \A u \in Users : activeUsers[u] = Cardinality({c \in Holders : Owner[c] = u})

\* A waiting call is in the queue exactly once, and nobody else is.
QueueHoldsTheWaiting ==
  /\ \A c \in Calls : stage[c] = "queued" <=> \E i \in DOMAIN queue : queue[i] = c
  /\ \A i, j \in DOMAIN queue : queue[i] = queue[j] => i = j

\* No lost wake-up: calls wait only while some call is active that will drain the
\* queue when it ends, although cancelling, banning and new limits do not drain it,
\* and no call waits behind a paused gateway.
NoLostWakeup == ~draining /\ queue # <<>> => active > 0 /\ ~paused

\* At most one picture is made at a time, whatever the limits become.
OnePicture == \A c, d \in Holders \cap Images : c = d

\* Once an account is banned no request of its calls is in flight un-aborted, also
\* not of a call that held a slot, but was not yet to be found, when the ban aborted
\* the others.
BannedIsAborted ==
  \A c \in Calls :
    stage[c] = "sent" /\ Owner[c] \in banned \ {evicting} => c \in aborted

\* Calls of the same account and kind get their slots in the order they came.
FirstComeFirstServed ==
  [][\A i, j \in DOMAIN queue :
       /\ i < j /\ stage'[queue[j]] = "granted"
       /\ Owner[queue[i]] = Owner[queue[j]] /\ Kind(queue[i]) = Kind(queue[j])
       => stage'[queue[i]] = "granted"]_vars

\* A waiting text call is eventually given a slot, or leaves the queue, however many
\* others keep coming.
TextIsServed ==
  \A c \in Calls \ Images : stage[c] = "queued" ~> stage[c] # "queued"
=============================================================================
