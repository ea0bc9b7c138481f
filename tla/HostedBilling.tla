---------------------------- MODULE HostedBilling ----------------------------
(***************************************************************************)
(* Paying for model calls in the hosted server.  Each physical request to  *)
(* a model provider is an "attempt": a row of the control database that    *)
(* freezes the most the request may cost, is marked sent just before the   *)
(* request leaves, and is settled, released or left for review afterwards  *)
(* (hosted/control-store.ts).  The gateway (hosted/model-gateway.ts) walks *)
(* a logical call through that life cycle, replays a saved answer instead  *)
(* of sending twice, and lets the provider client retry under a new        *)
(* attempt number.                                                         *)
(*                                                                         *)
(* The server is one JavaScript thread: between two awaits nobody else     *)
(* runs, but every database commit survives a crash that comes right after *)
(* it.  `cpu' names the call that is between two awaits, so that each      *)
(* commit is a step of its own for Crash and for nobody else.              *)
(***************************************************************************)
EXTENDS Integers, FiniteSetsExt

CONSTANTS
  Users,         \* accounts
  Calls,         \* logical model calls (user, operation, purpose, index)
  Owner,         \* the account a call belongs to
  OwnKey,        \* calls made with the user's own credential: they cost nothing
  Ceiling,       \* the reservation a platform call needs (maximumCostMicros)
  Tries,         \* how many physical requests the provider client may make
  Fees,          \* the prices a metered answer may come to
  TopUps,        \* the amounts an administrator may add or take
  Opening,       \* the balance an account starts with
  Settings,      \* what an administrator may set: callsEnabled and the daily limits
  MaxDay, MaxCrashes, MaxBalance, \* bounds on the run, not on the code
  NoReply, Purged, Nobody

VARIABLES
  \* control database
  status,        \* attempts.status, "none" before the row exists
  cost,          \* attempts.cost
  createdOn,     \* the day of attempts.created_at
  reconciled,    \* attempts an administrator settled (attempt.reconcile entries)
  wallet,        \* wallets.balance and wallets.reserved
  credited,      \* sum of the ledger rows that are not llm_charge
  banned,        \* accounts whose status is not active
  limits,        \* the row 'limits' of the settings
  \* research database
  saved,         \* the recorded response of an attempt
  \* memory of the process
  pc, try, cpu,
  \* the world
  wire,          \* how often the attempt's request left the server
  day, crashes,
  inForce        \* history: the settings that were in force at some time since midnight

rows    == <<status, cost, createdOn, wallet>>
admin   == <<reconciled, credited, banned, limits>>
process == <<pc, try, cpu>>
world   == <<wire, day, crashes, inForce>>
vars    == <<rows, admin, saved, process, world>>

Attempts == UNION {{c} \X (1 .. Tries[c]) : c \in Calls}
Days     == 0 .. MaxDay
Replies  == [ok : BOOLEAN, metered : {TRUE}, fee : Fees]
              \cup [ok : BOOLEAN, metered : {FALSE}, fee : {0}]
Statuses == {"none", "reserved", "sent", "unknown", "settled", "released"}
Frozen   == {"reserved", "sent", "unknown"}
Final    == {"settled", "released"}

ASSUME BillingAssumption ==
  /\ Owner \in [Calls -> Users]
  /\ OwnKey \subseteq Calls
  /\ Ceiling \in [Calls -> Nat]
  /\ Tries \in [Calls -> Nat \ {0}]
  /\ Fees \subseteq Nat
  /\ TopUps \subseteq Int
  /\ Settings \subseteq [callsEnabled : BOOLEAN,
                        perUserDailyMicros : Nat, globalDailyMicros : Nat]
  /\ {Opening, MaxDay, MaxCrashes, MaxBalance} \subseteq Nat
  /\ NoReply \notin Replies /\ Purged \notin Replies /\ NoReply # Purged
  /\ Nobody \notin Calls

Payer(a) == Owner[a[1]]
Cap(a)   == IF a[1] \in OwnKey THEN 0 ELSE Ceiling[a[1]]
Cur(c)   == <<c, try[c]>>
Idle     == cpu = Nobody

-----------------------------------------------------------------------------
(* Statements of the control store, as effects on the attempt's row and its wallet. *)

\* What today's attempts of a set have cost or may still cost.
Exposure(S) ==
  MapThenSumSet(LAMBDA a : CASE status[a] = "settled" -> cost[a]
                             [] status[a] \in Frozen  -> Cap(a)
                             [] OTHER                 -> 0,
                {a \in S : status[a] # "none" /\ createdOn[a] >= day})

OfUser(u) == {a \in Attempts : Payer(a) = u}

\* Mutant of WithinBudget: the limits are compared before the new reservation is added.
BudgetIgnoresItself(a) ==
  /\ wallet[Payer(a)].balance - wallet[Payer(a)].reserved >= Cap(a)
  /\ Exposure(OfUser(Payer(a))) <= limits.perUserDailyMicros
  /\ Exposure(Attempts) <= limits.globalDailyMicros

WithinBudget(a) ==
  /\ wallet[Payer(a)].balance - wallet[Payer(a)].reserved >= Cap(a)
  /\ Exposure(OfUser(Payer(a))) + Cap(a) <= limits.perUserDailyMicros
  /\ Exposure(Attempts) + Cap(a) <= limits.globalDailyMicros

InsertReserved(a) ==
  /\ status' = [status EXCEPT ![a] = "reserved"]
  /\ createdOn' = [createdOn EXCEPT ![a] = day]
  /\ wallet' = [wallet EXCEPT ![Payer(a)].reserved = @ + Cap(a)]
  /\ UNCHANGED cost

SetStatus(a, s) ==
  /\ status' = [status EXCEPT ![a] = s]
  /\ UNCHANGED <<cost, createdOn, wallet>>

Covers(a, k) == k <= wallet[Payer(a)].balance - (wallet[Payer(a)].reserved - Cap(a))

\* Mutant of SettleRow: only the price is taken from the frozen part, not the reservation.
SettleKeepsRest(a, k) ==
  /\ status' = [status EXCEPT ![a] = "settled"]
  /\ cost' = [cost EXCEPT ![a] = k]
  /\ wallet' = [wallet EXCEPT ![Payer(a)] =
                  [balance |-> @.balance - k, reserved |-> @.reserved - k]]
  /\ UNCHANGED createdOn

SettleRow(a, k) ==
  /\ status' = [status EXCEPT ![a] = "settled"]
  /\ cost' = [cost EXCEPT ![a] = k]
  /\ wallet' = [wallet EXCEPT ![Payer(a)] =
                  [balance |-> @.balance - k, reserved |-> @.reserved - Cap(a)]]
  /\ UNCHANGED createdOn

\* Mutant of ReleaseRow: a release forgets the wallet.
ReleaseKeepsFrozen(a) ==
  /\ status' = [status EXCEPT ![a] = "released"]
  /\ UNCHANGED <<wallet, cost, createdOn>>

ReleaseRow(a) ==
  /\ status' = [status EXCEPT ![a] = "released"]
  /\ wallet' = [wallet EXCEPT ![Payer(a)].reserved = @ - Cap(a)]
  /\ UNCHANGED <<cost, createdOn>>

\* The catch of a dispatch that holds a slot but did not send.
GiveBack(a) ==
  IF status[a] = "reserved" THEN ReleaseRow(a) ELSE UNCHANGED rows

-----------------------------------------------------------------------------
(* Charging for an answer. *)

Priced(a, r) == a[1] \in OwnKey \/ r.metered
Fee(a, r)    == IF a[1] \in OwnKey THEN 0 ELSE r.fee

\* The charge cannot be booked, or a failed answer has no known price.
AccountThrows(a, r) ==
  \/ ~Priced(a, r) /\ ~r.ok
  \/ Priced(a, r) /\ status[a] = "settled" /\ cost[a] # Fee(a, r)
  \/ /\ Priced(a, r) /\ status[a] # "settled"
     /\ Fee(a, r) <= Cap(a) /\ ~Covers(a, Fee(a, r))

Account(a, r, afterThrow) ==
  \/ /\ ~Priced(a, r)
     /\ SetStatus(a, IF status[a] \in Final THEN status[a] ELSE "unknown")
  \/ /\ Priced(a, r) /\ status[a] = "settled"
     /\ UNCHANGED rows
  \/ /\ Priced(a, r) /\ status[a] \in {"sent", "unknown"}
     /\ \/ Fee(a, r) > Cap(a) /\ SetStatus(a, "unknown")
        \/ Fee(a, r) <= Cap(a) /\ ~Covers(a, Fee(a, r)) /\ SetStatus(a, afterThrow)
        \/ Fee(a, r) <= Cap(a) /\ Covers(a, Fee(a, r)) /\ SettleRow(a, Fee(a, r))

\* The client of the provider retries a rejected answer unless its price is open.
Conclude(a, threw) ==
  LET c == a[1] IN
  \/ /\ ~threw /\ status'[a] # "unknown" /\ a[2] < Tries[c]
     /\ pc' = [pc EXCEPT ![c] = "backoff"]
     /\ try' = [try EXCEPT ![c] = a[2]]
  \/ /\ pc' = [pc EXCEPT ![c] = "idle"]
     /\ try' = [try EXCEPT ![c] = 1]

Goto(c, label) == pc' = [pc EXCEPT ![c] = label] /\ UNCHANGED try
Stop(c)        == pc' = [pc EXCEPT ![c] = "idle"] /\ try' = [try EXCEPT ![c] = 1]

-----------------------------------------------------------------------------
(* The gateway. *)

\* The head of dispatchOnce: replay a saved answer, refuse, or ask for a slot.
Lookup(a) ==
  /\ Idle /\ UNCHANGED <<admin, saved, cpu, world>>
  /\ \/ /\ saved[a] \in Replies /\ status[a] = "settled"
        /\ UNCHANGED rows /\ Conclude(a, FALSE)
     \/ /\ saved[a] \in Replies /\ status[a] # "settled"
        /\ Account(a, saved[a], status[a])
        /\ Conclude(a, AccountThrows(a, saved[a]))
     \/ /\ saved[a] \notin Replies /\ status[a] \in {"none", "reserved"}
        /\ pc' = [pc EXCEPT ![a[1]] = "queued"]
        /\ try' = [try EXCEPT ![a[1]] = a[2]]
        /\ UNCHANGED rows
     \/ /\ saved[a] \notin Replies /\ status[a] \notin {"none", "reserved"}
        /\ Stop(a[1]) /\ UNCHANGED rows

Dispatch(c)   == pc[c] = "idle" /\ Lookup(<<c, 1>>)
Redispatch(c) == pc[c] = "backoff" /\ Lookup(<<c, try[c] + 1>>)

\* The queue refuses the call: nothing was read or written.
NotAdmitted(c) ==
  /\ pc[c] \in {"queued", "backoff"} /\ Idle
  /\ Stop(c) /\ UNCHANGED <<rows, admin, saved, cpu, world>>

\* The call has a slot and reserves, or finds the reservation an earlier process left.
Reserve(c) ==
  LET a == Cur(c) IN
  /\ pc[c] = "queued" /\ Idle
  /\ Payer(a) \notin banned
  /\ \/ status[a] = "reserved" /\ UNCHANGED rows
     \/ /\ status[a] = "none" /\ limits.callsEnabled
        /\ c \notin OwnKey => WithinBudget(a)
        /\ InsertReserved(a)
  /\ Goto(c, "reserved") /\ cpu' = c
  /\ UNCHANGED <<admin, saved, world>>

\* The route, the credential or the reservation is refused after the slot was granted.
Refused(c) ==
  /\ pc[c] = "queued" /\ Idle
  /\ GiveBack(Cur(c))
  /\ Stop(c) /\ UNCHANGED <<admin, saved, cpu, world>>

\* The request could not be recorded, was aborted, or may no longer be sent.
AbortBeforeSend(c) ==
  /\ pc[c] = "reserved" /\ cpu = c
  /\ GiveBack(Cur(c))
  /\ Stop(c) /\ cpu' = Nobody
  /\ UNCHANGED <<admin, saved, world>>

MarkSent(c) ==
  /\ pc[c] = "reserved" /\ cpu = c
  /\ Owner[c] \notin banned /\ limits.callsEnabled
  /\ status[Cur(c)] = "reserved"
  /\ SetStatus(Cur(c), "sent")
  /\ Goto(c, "sending")
  /\ UNCHANGED <<admin, saved, cpu, world>>

\* The request leaves and the call awaits the provider.
Transmit(c) ==
  /\ pc[c] = "sending" /\ cpu = c
  /\ wire' = [wire EXCEPT ![Cur(c)] = @ + 1]
  /\ Goto(c, "waiting") /\ cpu' = Nobody
  /\ UNCHANGED <<rows, admin, saved, day, crashes, inForce>>

\* Mutant of TransportFailed: a failed request is charged at its ceiling.
FailureCharges(c) ==
  /\ pc[c] = "waiting" /\ Idle
  /\ IF status[Cur(c)] = "sent" THEN SettleRow(Cur(c), Cap(Cur(c))) ELSE UNCHANGED rows
  /\ Stop(c) /\ UNCHANGED <<admin, saved, cpu, world>>

\* Mutant of TransportFailed: a failed request is put up for review whatever its row says.
FailureReopens(c) ==
  /\ pc[c] = "waiting" /\ Idle
  /\ SetStatus(Cur(c), "unknown")
  /\ Stop(c) /\ UNCHANGED <<admin, saved, cpu, world>>

\* Mutant of TransportFailed: a failed request leaves its row as it is.
FailureForgets(c) ==
  /\ pc[c] = "waiting" /\ Idle /\ UNCHANGED rows
  /\ Stop(c) /\ UNCHANGED <<admin, saved, cpu, world>>

\* Network error, timeout, abort, an answer too large, or one that cannot be saved.
TransportFailed(c) ==
  LET a == Cur(c) IN
  /\ pc[c] = "waiting" /\ Idle
  /\ SetStatus(a, IF status[a] = "sent" THEN "unknown" ELSE status[a])
  /\ Stop(c) /\ UNCHANGED <<admin, saved, cpu, world>>

\* The answer is committed to the research database before it is charged.
Receive(c) ==
  /\ pc[c] = "waiting" /\ Idle
  /\ \E r \in Replies : saved' = [saved EXCEPT ![Cur(c)] = r]
  /\ Goto(c, "recorded") /\ cpu' = c
  /\ UNCHANGED <<rows, admin, world>>

\* Mutant of Settle: a charge that throws does not end the call.
SettleHangs(c) ==
  LET a == Cur(c) IN
  /\ pc[c] = "recorded" /\ cpu = c
  /\ Account(a, saved[a], IF status[a] = "sent" THEN "unknown" ELSE status[a])
  /\ IF AccountThrows(a, saved[a]) THEN UNCHANGED <<pc, try>> ELSE Conclude(a, FALSE)
  /\ cpu' = Nobody
  /\ UNCHANGED <<admin, saved, world>>

Settle(c) ==
  LET a == Cur(c) IN
  /\ pc[c] = "recorded" /\ cpu = c
  /\ Account(a, saved[a], IF status[a] = "sent" THEN "unknown" ELSE status[a])
  /\ Conclude(a, AccountThrows(a, saved[a]))
  /\ cpu' = Nobody
  /\ UNCHANGED <<admin, saved, world>>

-----------------------------------------------------------------------------
(* Administrators, maintenance and the clock: requests of their own. *)

\* An administrator settles an open attempt; the price is not limited by the
\* reservation.  Repeating a settlement at the same price changes no row.
Reconcile(a, k) ==
  /\ Idle /\ status[a] \in Frozen
  /\ a[1] \in OwnKey => k = 0
  /\ Covers(a, k)
  /\ SettleRow(a, k)
  /\ reconciled' = reconciled \cup {a}
  /\ UNCHANGED <<credited, banned, limits, saved, process, world>>

AdjustBalance(u, d) ==
  /\ Idle
  /\ wallet[u].balance + d \in 0 .. MaxBalance
  /\ wallet[u].balance + d >= wallet[u].reserved
  /\ wallet' = [wallet EXCEPT ![u].balance = @ + d]
  /\ credited' = [credited EXCEPT ![u] = @ + d]
  /\ UNCHANGED <<status, cost, createdOn, reconciled, banned, limits,
                 saved, process, world>>

BanUser(u) ==
  /\ Idle
  /\ banned' = IF u \in banned THEN banned \ {u} ELSE banned \cup {u}
  /\ UNCHANGED <<rows, reconciled, credited, limits, saved, process, world>>

\* An administrator changes the settings at any time, also while requests are out.
SetLimits(l) ==
  /\ Idle /\ limits' = l /\ inForce' = inForce \cup {l}
  /\ UNCHANGED <<rows, reconciled, credited, banned, saved, process, wire, day, crashes>>

\* Research records are deleted by an administrator or by the retention timer.
DeleteResearch(a) ==
  /\ Idle /\ saved[a] \in Replies
  /\ saved' = [saved EXCEPT ![a] = Purged]
  /\ UNCHANGED <<rows, admin, process, world>>

Midnight ==
  /\ Idle /\ day < MaxDay /\ day' = day + 1
  /\ inForce' = {limits}
  /\ UNCHANGED <<rows, admin, saved, process, wire, crashes>>

\* Mutant of Crash: at the start every request that was sent is made ready to be sent.
CrashReopens ==
  /\ crashes < MaxCrashes /\ crashes' = crashes + 1
  /\ pc' = [c \in Calls |-> "idle"] /\ try' = [c \in Calls |-> 1]
  /\ cpu' = Nobody
  /\ status' = [a \in Attempts |-> IF status[a] = "sent" THEN "reserved" ELSE status[a]]
  /\ UNCHANGED <<cost, createdOn, wallet, admin, saved, wire, day, inForce>>

\* The process dies and starts again: both databases survive, memory does not.
Crash ==
  /\ crashes < MaxCrashes /\ crashes' = crashes + 1
  /\ pc' = [c \in Calls |-> "idle"] /\ try' = [c \in Calls |-> 1]
  /\ cpu' = Nobody
  /\ UNCHANGED <<rows, admin, saved, wire, day, inForce>>

-----------------------------------------------------------------------------
Init ==
  /\ status = [a \in Attempts |-> "none"]
  /\ cost = [a \in Attempts |-> 0]
  /\ createdOn = [a \in Attempts |-> 0]
  /\ reconciled = {}
  /\ wallet = [u \in Users |-> [balance |-> Opening, reserved |-> 0]]
  /\ credited = [u \in Users |-> Opening]
  /\ banned = {} /\ limits \in Settings /\ inForce = {limits}
  /\ saved = [a \in Attempts |-> NoReply]
  /\ pc = [c \in Calls |-> "idle"] /\ try = [c \in Calls |-> 1]
  /\ cpu = Nobody
  /\ wire = [a \in Attempts |-> 0] /\ day = 0 /\ crashes = 0

\* The steps a running call takes on its own.
Progress(c) ==
  \/ Redispatch(c) \/ NotAdmitted(c) \/ Reserve(c) \/ Refused(c)
  \/ AbortBeforeSend(c) \/ MarkSent(c) \/ Transmit(c)
  \/ TransportFailed(c) \/ Receive(c) \/ Settle(c)

Next ==
  \/ \E c \in Calls : Dispatch(c) \/ Progress(c)
  \/ \E a \in Attempts, k \in Fees \cup {0} : Reconcile(a, k)
  \/ \E u \in Users, d \in TopUps : AdjustBalance(u, d)
  \/ \E u \in Users : BanUser(u)
  \/ \E l \in Settings : SetLimits(l)
  \/ \E a \in Attempts : DeleteResearch(a)
  \/ Midnight
  \/ Crash

\* The event loop runs every callback that becomes due, and every provider
\* request ends because its transport has a timeout.
Fairness == \A c \in Calls : SF_vars(Progress(c))

Spec == Init /\ [][Next]_vars /\ Fairness

-----------------------------------------------------------------------------
(* Properties. *)

TypeOK ==
  /\ status \in [Attempts -> Statuses]
  /\ cost \in [Attempts -> Nat]
  /\ createdOn \in [Attempts -> Nat]
  /\ reconciled \subseteq Attempts
  /\ wallet \in [Users -> [balance : Int, reserved : Int]]
  /\ credited \in [Users -> Int]
  /\ banned \subseteq Users
  /\ limits \in inForce /\ inForce \subseteq Settings
  /\ saved \in [Attempts -> Replies \cup {NoReply, Purged}]
  /\ pc \in [Calls -> {"idle", "queued", "reserved", "sending", "waiting",
                       "recorded", "backoff"}]
  /\ try \in [Calls -> Nat \ {0}] /\ \A c \in Calls : try[c] <= Tries[c]
  /\ cpu \in Calls \cup {Nobody}
  /\ wire \in [Attempts -> Nat] /\ day \in Nat /\ crashes \in Nat

HeldBy(u)    == {a \in OfUser(u) : status[a] \in Frozen}
SettledOf(u) == {a \in OfUser(u) : status[a] = "settled"}

\* The frozen part of a wallet is the sum of the reservations still open, and the
\* balance is what was credited less what the settled attempts cost: the wallet row
\* and the attempt rows, updated by separate statements, never drift apart.
WalletMatchesAttempts ==
  \A u \in Users :
    /\ wallet[u].reserved = MapThenSumSet(Cap, HeldBy(u))
    /\ wallet[u].balance = credited[u] - MapThenSumSet(LAMBDA a : cost[a], SettledOf(u))

\* Whatever is frozen can be paid, whatever administrators take, charge or refund
\* while requests are out.
Solvency == \A u \in Users : wallet[u].balance >= wallet[u].reserved

\* An attempt's request leaves the server at most once, through crashes, retries of
\* the same operation, deleted answers and reconciliation.
SentOnce == \A a \in Attempts : wire[a] <= 1

\* Money is given back only for a request that never left the server.
ReleasedNeverLeft == \A a \in Attempts : status[a] = "released" => wire[a] = 0

\* The provider client retries under attempt n + 1 only when attempt n has a settled
\* price: an uncertain request is never followed by a second one, even when the
\* operation is repeated after a crash.
RetryOnlyAfterSettled ==
  \A a \in Attempts :
    wire[a] > 0 /\ a[2] > 1 => status[<<a[1], a[2] - 1>>] = "settled"

\* What the gateway charges for, it had saved first, so a repeated operation can be
\* answered without paying twice.
ChargedAnswerWasSaved ==
  \A a \in Attempts :
    status[a] = "settled" /\ a \notin reconciled => saved[a] # NoReply

\* Within a day, what the gateway has charged and frozen for an account, and for all
\* together, never exceeds the loosest limit that was in force on that day, however the
\* limits are raised and lowered while requests are out.  A lowered limit takes nothing
\* back, so the limit of the moment may be exceeded.  What an administrator books by hand
\* is not limited.
DailyBudgetHeld ==
  LET byGateway(S) == Exposure(S \ reconciled) IN
  /\ \A u \in Users : \E l \in inForce : byGateway(OfUser(u)) <= l.perUserDailyMicros
  /\ \E l \in inForce : byGateway(Attempts) <= l.globalDailyMicros

\* A settled or released attempt never changes again, and neither does its price.
FinalIsFinal ==
  [][\A a \in Attempts : status[a] \in Final =>
       status'[a] = status[a] /\ cost'[a] = cost[a]]_vars

\* Every call that runs comes to an end.
CallsEnd == \A c \in Calls : pc[c] # "idle" ~> pc[c] = "idle"

\* Unless the process dies, a sent attempt is settled or put up for review.
SentIsResolved ==
  \A a \in Attempts :
    status[a] = "sent" /\ crashes = 0 ~> status[a] # "sent" \/ crashes > 0

\* Where a running call stands determines what its attempt's row says.
PhaseOf(c) ==
  /\ pc[c] \in {"reserved", "sending", "recorded"} <=> cpu = c
  /\ pc[c] \in {"queued", "reserved"} /\ try[c] > 1 =>
       status[<<c, try[c] - 1>>] = "settled"
  /\ pc[c] = "reserved" => status[Cur(c)] = "reserved"
  /\ pc[c] = "sending"  => status[Cur(c)] = "sent" /\ wire[Cur(c)] = 0
  /\ pc[c] \in {"sending", "waiting"} => saved[Cur(c)] = NoReply
  /\ pc[c] \in {"waiting", "recorded"} => status[Cur(c)] \in {"sent", "settled"}
  /\ pc[c] = "recorded" => saved[Cur(c)] \in Replies
  /\ pc[c] = "backoff"  => status[Cur(c)] = "settled" /\ try[c] < Tries[c]

\* What the row of an attempt says about the world.
RowOf(a) ==
  /\ wire[a] <= 1
  /\ status[a] \in {"none", "reserved", "released"} => wire[a] = 0 /\ saved[a] = NoReply
  /\ status[a] = "settled" /\ a \notin reconciled => saved[a] # NoReply
  /\ status[a] # "none" /\ a[2] > 1 => status[<<a[1], a[2] - 1>>] = "settled"

\* The inductive invariant behind the safety properties.
IInv ==
  /\ TypeOK /\ Solvency
  /\ \A c \in Calls : PhaseOf(c)
  /\ \A a \in Attempts : RowOf(a)

\* HostedBilling implements HostedLedger: a frozen attempt is one whose reservation
\* is open, whatever the code knows about its request.
Hold == [a \in Attempts |-> CASE status[a] = "none"     -> "free"
                              [] status[a] = "settled"  -> "charged"
                              [] status[a] = "released" -> "returned"
                              [] OTHER                  -> "held"]
Departed == {a \in Attempts : wire[a] > 0}

Ledger == INSTANCE HostedLedger WITH
  Requests <- Attempts,
  PaidBy   <- [a \in Attempts |-> Payer(a)],
  Limit    <- [a \in Attempts |-> Cap(a)],
  hold     <- Hold,
  left     <- Departed,
  price    <- cost,
  funds    <- wallet

LedgerSpec == Ledger!Spec
=============================================================================
