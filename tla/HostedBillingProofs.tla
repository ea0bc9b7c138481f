------------------------- MODULE HostedBillingProofs -------------------------
(***************************************************************************)
(* Proofs about HostedBilling for any number of accounts, calls, retries,  *)
(* prices and crashes.                                                     *)
(***************************************************************************)
EXTENDS HostedBilling, FiniteSetTheorems, TLAPS

\* The part of the type invariant and of the invariant that the row effects disturb.
RowsOK ==
  /\ status \in [Attempts -> Statuses]
  /\ cost \in [Attempts -> Nat]
  /\ createdOn \in [Attempts -> Nat]
  /\ wallet \in [Users -> [balance : Int, reserved : Int]]
  /\ Solvency

\* Only the row of attempt a moves.
OnlyRow(a) ==
  /\ status' = [status EXCEPT ![a] = status'[a]]
  /\ cost' = [cost EXCEPT ![a] = cost'[a]]

\* Attempts are pairs of a call and a try of it; who pays and how much is typed.
LEMMA AttemptFacts ==
  /\ \A c \in Calls, n \in Nat : n \in 1 .. Tries[c] => <<c, n>> \in Attempts
  /\ \A a \in Attempts :
       /\ a[1] \in Calls /\ a[2] \in 1 .. Tries[a[1]] /\ a = <<a[1], a[2]>>
       /\ Payer(a) \in Users /\ Cap(a) \in Nat
       /\ a[2] > 1 => <<a[1], a[2] - 1>> \in Attempts
<1>1. \A c \in Calls, n \in Nat : n \in 1 .. Tries[c] => <<c, n>> \in Attempts
  BY DEF Attempts
<1>2. ASSUME NEW a \in Attempts
      PROVE  /\ a[1] \in Calls /\ a[2] \in 1 .. Tries[a[1]] /\ a = <<a[1], a[2]>>
             /\ Payer(a) \in Users /\ Cap(a) \in Nat
             /\ a[2] > 1 => <<a[1], a[2] - 1>> \in Attempts
  <2>1. PICK c \in Calls : a \in {c} \X (1 .. Tries[c])
    BY DEF Attempts
  <2>2. a[1] = c /\ a[2] \in 1 .. Tries[c] /\ a = <<a[1], a[2]>> /\ Tries[c] \in Nat
    BY <2>1, BillingAssumption
  <2>3. Payer(a) \in Users /\ Cap(a) \in Nat
    BY <2>2, BillingAssumption DEF Payer, Cap
  <2>4. a[2] > 1 => <<a[1], a[2] - 1>> \in Attempts
    BY <1>1, <2>2
  <2> QED
    BY <2>1, <2>2, <2>3, <2>4
<1> QED
  BY <1>1, <1>2

\* Reserving keeps the account solvent because the reservation fits the free balance.
LEMMA InsertReservedOK ==
  ASSUME RowsOK, day \in Nat, NEW a \in Attempts, InsertReserved(a),
         a[1] \notin OwnKey => WithinBudget(a)
  PROVE  RowsOK'
<1>1. Payer(a) \in Users /\ Cap(a) \in Nat
  BY AttemptFacts
<1>2. Cap(a) <= wallet[Payer(a)].balance - wallet[Payer(a)].reserved
  <2>1. CASE a[1] \in OwnKey
    BY <1>1, <2>1 DEF Cap, RowsOK, Solvency
  <2>2. CASE a[1] \notin OwnKey
    BY <1>1, <2>2 DEF WithinBudget, RowsOK
  <2> QED
    BY <2>1, <2>2
<1> QED
  BY <1>1, <1>2 DEF RowsOK, InsertReserved, Solvency, Statuses

\* Changing only the status leaves the money alone.
LEMMA SetStatusOK ==
  ASSUME RowsOK, NEW a \in Attempts, NEW s \in Statuses, SetStatus(a, s)
  PROVE  RowsOK'
BY DEF RowsOK, SetStatus, Solvency

\* A charge that the balance covers keeps the account solvent.
LEMMA SettleRowOK ==
  ASSUME RowsOK, NEW a \in Attempts, NEW k \in Nat, Covers(a, k), SettleRow(a, k)
  PROVE  RowsOK'
<1>1. Payer(a) \in Users /\ Cap(a) \in Nat
  BY AttemptFacts
<1> QED
  BY <1>1 DEF RowsOK, SettleRow, Covers, Solvency, Statuses

\* Giving back only frees money.
LEMMA ReleaseRowOK ==
  ASSUME RowsOK, NEW a \in Attempts, ReleaseRow(a)
  PROVE  RowsOK'
<1>1. Payer(a) \in Users /\ Cap(a) \in Nat
  BY AttemptFacts
<1> QED
  BY <1>1 DEF RowsOK, ReleaseRow, Solvency, Statuses

\* Charging for an answer touches one row, never reopens a finished one, and ends
\* with a charge, an open question, or the status the caller leaves after an error.
LEMMA AccountOK ==
  ASSUME RowsOK, NEW a \in Attempts, NEW r \in Replies, NEW s \in Statuses,
         Account(a, r, s)
  PROVE  /\ RowsOK'
         /\ OnlyRow(a)
         /\ status[a] \in {"sent", "unknown"} =>
              /\ status'[a] \in {"unknown", "settled", s}
              /\ AccountThrows(a, r) \/ status'[a] \in {"unknown", "settled"}
         /\ status[a] \in Final => status'[a] = status[a] /\ cost'[a] = cost[a]
<1>1. Fee(a, r) \in Nat
  <2>1. r.fee \in Fees \cup {0}
    BY DEF Replies
  <2>2. Fees \cup {0} \subseteq Nat
    BY BillingAssumption
  <2>3. r.fee \in Nat
    BY <2>1, <2>2
  <2> QED
    BY <2>3 DEF Fee
<1>2. CASE ~Priced(a, r)
  <2> DEFINE t == IF status[a] \in Final THEN status[a] ELSE "unknown"
  <2>1. t \in Statuses
    BY DEF RowsOK, Statuses
  <2>2. SetStatus(a, t)
    BY <1>2 DEF Account
  <2>3. RowsOK'
    BY <2>1, <2>2, SetStatusOK
  <2> QED
    BY <2>2, <2>3 DEF SetStatus, OnlyRow, RowsOK, Final
<1>3. CASE status[a] = "settled" /\ UNCHANGED rows
  BY <1>3 DEF rows, RowsOK, OnlyRow, Solvency, Final
<1>4. CASE /\ Priced(a, r) /\ status[a] \in {"sent", "unknown"}
           /\ \/ Fee(a, r) > Cap(a) /\ SetStatus(a, "unknown")
              \/ Fee(a, r) <= Cap(a) /\ ~Covers(a, Fee(a, r)) /\ SetStatus(a, s)
              \/ Fee(a, r) <= Cap(a) /\ Covers(a, Fee(a, r)) /\ SettleRow(a, Fee(a, r))
  <2>1. CASE SetStatus(a, "unknown")
    <3>1. RowsOK'
      BY <2>1, SetStatusOK DEF Statuses
    <3> QED
      BY <1>4, <2>1, <3>1 DEF SetStatus, OnlyRow, RowsOK, Final
  <2>2. CASE Fee(a, r) <= Cap(a) /\ ~Covers(a, Fee(a, r)) /\ SetStatus(a, s)
    <3>1. RowsOK'
      BY <2>2, SetStatusOK
    <3>2. AccountThrows(a, r)
      BY <1>4, <2>2 DEF AccountThrows
    <3> QED
      BY <1>4, <2>2, <3>1, <3>2 DEF SetStatus, OnlyRow, RowsOK, Final
  <2>3. CASE Covers(a, Fee(a, r)) /\ SettleRow(a, Fee(a, r))
    <3>1. RowsOK'
      BY <1>1, <2>3, SettleRowOK
    <3> QED
      BY <1>4, <2>3, <3>1 DEF SettleRow, OnlyRow, RowsOK, Final
  <2> QED
    BY <1>4, <2>1, <2>2, <2>3
<1> QED
  BY <1>2, <1>3, <1>4 DEF Account

-----------------------------------------------------------------------------
(* The invariant holds initially and every step keeps it. *)

\* An empty database and an idle process satisfy the invariant.
LEMMA InitIInv == Init => IInv
<1> SUFFICES ASSUME Init PROVE IInv
  OBVIOUS
<1> USE BillingAssumption DEF Init
<1>1. TypeOK
  BY AttemptFacts DEF TypeOK, Statuses
<1>2. Solvency
  BY DEF Solvency
<1>3. ASSUME NEW c \in Calls PROVE PhaseOf(c)
  BY DEF PhaseOf
<1>4. ASSUME NEW a \in Attempts PROVE RowOf(a)
  BY DEF RowOf
<1> QED
  BY <1>1, <1>2, <1>3, <1>4 DEF IInv

\* The attempt a call works on, and the one before it, are attempts of that call.
LEMMA CurFacts ==
  ASSUME TypeOK, NEW c \in Calls
  PROVE  /\ Cur(c) \in Attempts /\ Cur(c) = <<c, try[c]>> /\ Payer(Cur(c)) = Owner[c]
         /\ try[c] > 1 => <<c, try[c] - 1>> \in Attempts
<1>1. try[c] \in Nat /\ try[c] \in 1 .. Tries[c] /\ Tries[c] \in Nat
  BY BillingAssumption DEF TypeOK
<1>2. Cur(c) \in Attempts /\ Cur(c) = <<c, try[c]>>
  BY <1>1, AttemptFacts DEF Cur
<1>3. ASSUME try[c] > 1 PROVE <<c, try[c] - 1>> \in Attempts
  <2>1. try[c] - 1 \in Nat /\ try[c] - 1 \in 1 .. Tries[c]
    BY <1>1, <1>3
  <2> QED
    BY <2>1, AttemptFacts
<1> QED
  BY <1>2, <1>3 DEF Payer

\* A call keeps its phase when neither it nor its attempts move, except that a sent
\* attempt may be settled by hand while its call waits.
LEMMA PhaseStays ==
  ASSUME TypeOK, NEW c \in Calls, PhaseOf(c),
         pc'[c] = pc[c], try'[c] = try[c], cpu' = c <=> cpu = c,
         \A a \in Attempts : a[1] = c =>
           /\ wire'[a] = wire[a]
           /\ cpu = c => saved'[a] = saved[a] /\ status'[a] = status[a]
           /\ saved[a] = NoReply => saved'[a] = NoReply
           /\ status'[a] # status[a] => status'[a] = "settled"
  PROVE  PhaseOf(c)'
<1>1. Cur(c) \in Attempts /\ Cur(c)[1] = c /\ Cur(c)' = Cur(c)
  BY CurFacts DEF Cur
<1>2. try[c] > 1 => /\ <<c, try[c] - 1>> \in Attempts
                    /\ <<c, try[c] - 1>>[1] = c
  BY CurFacts
<1> QED
  BY <1>1, <1>2 DEF PhaseOf

\* A row keeps its invariant when it does not move and its predecessor stays settled.
LEMMA RowStays ==
  ASSUME TypeOK, NEW a \in Attempts, RowOf(a),
         wire'[a] = wire[a], status'[a] = status[a],
         saved'[a] = NoReply <=> saved[a] = NoReply,
         reconciled \subseteq reconciled',
         \A b \in Attempts : status[b] = "settled" => status'[b] = "settled"
  PROVE  RowOf(a)'
<1>1. a[2] > 1 => <<a[1], a[2] - 1>> \in Attempts
  BY AttemptFacts
<1> QED
  BY <1>1 DEF RowOf

\* A manual charge settles one frozen attempt, of a call that may be waiting for it.
LEMMA ReconcileStep ==
  ASSUME IInv, NEW a \in Attempts, NEW k \in Fees \cup {0}, Reconcile(a, k)
  PROVE  IInv'
<1>1. k \in Nat
  BY ONLY BillingAssumption, k \in Fees \cup {0}
<1> USE DEF Reconcile, process, world, IInv
<1>2. RowsOK'
  BY <1>1, SettleRowOK DEF RowsOK, TypeOK
<1>3. TypeOK'
  BY <1>2 DEF TypeOK, RowsOK
<1>4. ASSUME NEW c \in Calls PROVE PhaseOf(c)'
  BY PhaseStays, BillingAssumption DEF SettleRow, TypeOK, Idle
<1>5. \A b \in Attempts : status[b] = "settled" => status'[b] = "settled"
  BY DEF SettleRow, TypeOK
<1>6. ASSUME NEW b \in Attempts, b # a PROVE RowOf(b)'
  <2>1. wire'[b] = wire[b] /\ saved'[b] = saved[b] /\ status'[b] = status[b]
    BY <1>6 DEF SettleRow, TypeOK
  <2>2. reconciled \subseteq reconciled' /\ RowOf(b) /\ TypeOK
    OBVIOUS
  <2> QED
    BY <2>1, <2>2, <1>5, RowStays
<1>7. RowOf(a)'
  <2>1. a[2] > 1 => /\ <<a[1], a[2] - 1>> \in Attempts
                    /\ status[<<a[1], a[2] - 1>>] = "settled"
    BY AttemptFacts DEF RowOf, Frozen
  <2>2. status'[a] = "settled" /\ a \in reconciled' /\ wire'[a] <= 1
    BY DEF SettleRow, TypeOK, RowOf
  <2> QED
    BY <2>1, <2>2, <1>5 DEF RowOf
<1> QED
  BY <1>2, <1>3, <1>4, <1>6, <1>7 DEF RowsOK

\* Steps that move no attempt: only money, accounts, settings, the clock, saved
\* answers that are deleted, or the memory of a process that dies.
LEMMA QuietStep ==
  ASSUME IInv, UNCHANGED <<status, wire, reconciled>>, TypeOK', Solvency',
         \A a \in Attempts : \/ saved'[a] = saved[a]
                             \/ saved[a] \in Replies /\ saved'[a] = Purged /\ Idle,
         \/ UNCHANGED process
         \/ cpu' = Nobody /\ \A c \in Calls : pc'[c] = "idle"
  PROVE  IInv'
<1> USE DEF IInv
<1>1. ASSUME NEW a \in Attempts PROVE RowOf(a)'
  <2>1. saved'[a] = NoReply <=> saved[a] = NoReply
    BY BillingAssumption
  <2> QED
    BY <2>1, RowStays
<1>2. ASSUME NEW c \in Calls PROVE PhaseOf(c)'
  <2>1. CASE UNCHANGED process
    <3>1. \A a \in Attempts : a[1] = c =>
            /\ wire'[a] = wire[a]
            /\ cpu = c => saved'[a] = saved[a] /\ status'[a] = status[a]
            /\ saved[a] = NoReply => saved'[a] = NoReply
            /\ status'[a] # status[a] => status'[a] = "settled"
      BY BillingAssumption DEF Idle
    <3>2. pc'[c] = pc[c] /\ try'[c] = try[c] /\ (cpu' = c <=> cpu = c)
      BY <2>1 DEF process
    <3> QED
      BY <3>1, <3>2, PhaseStays
  <2>2. CASE cpu' = Nobody /\ \A d \in Calls : pc'[d] = "idle"
    BY <2>2, BillingAssumption DEF PhaseOf
  <2> QED
    BY <2>1, <2>2
<1> QED
  BY <1>1, <1>2

\* The other steps of administrators, maintenance, the clock and the crash.
LEMMA AdminSteps ==
  ASSUME IInv,
         \/ \E u \in Users, d \in TopUps : AdjustBalance(u, d)
         \/ \E u \in Users : BanUser(u)
         \/ \E l \in Settings : SetLimits(l)
         \/ \E a \in Attempts : DeleteResearch(a)
         \/ Midnight
         \/ Crash
         \/ UNCHANGED vars
  PROVE  IInv'
<1> USE DEF IInv, rows, admin, process, world
<1>1. ASSUME NEW u \in Users, NEW d \in TopUps, AdjustBalance(u, d) PROVE IInv'
  <2>1. d \in Int
    BY BillingAssumption
  <2>2. TypeOK' /\ Solvency'
    BY <1>1, <2>1 DEF AdjustBalance, TypeOK, Solvency
  <2> QED
    BY <1>1, <2>2, QuietStep DEF AdjustBalance
<1>2. ASSUME NEW u \in Users, BanUser(u) PROVE IInv'
  <2>1. TypeOK' /\ Solvency'
    BY <1>2 DEF BanUser, TypeOK, Solvency
  <2> QED
    BY <1>2, <2>1, QuietStep DEF BanUser
<1>3. ASSUME NEW l \in Settings, SetLimits(l) PROVE IInv'
  <2>1. TypeOK' /\ Solvency'
    BY <1>3 DEF SetLimits, TypeOK, Solvency
  <2> QED
    BY <1>3, <2>1, QuietStep DEF SetLimits
<1>4. ASSUME NEW a \in Attempts, DeleteResearch(a) PROVE IInv'
  <2>1. TypeOK' /\ Solvency'
    BY <1>4 DEF DeleteResearch, TypeOK, Solvency
  <2>2. \A b \in Attempts : \/ saved'[b] = saved[b]
                            \/ saved[b] \in Replies /\ saved'[b] = Purged /\ Idle
    BY <1>4 DEF DeleteResearch, TypeOK
  <2> QED
    BY <1>4, <2>1, <2>2, QuietStep DEF DeleteResearch
<1>5. CASE Midnight
  <2>1. TypeOK' /\ Solvency'
    BY <1>5 DEF Midnight, TypeOK, Solvency
  <2> QED
    BY <1>5, <2>1, QuietStep DEF Midnight
<1>6. CASE Crash
  <2>1. TypeOK' /\ Solvency'
    BY <1>6, BillingAssumption DEF Crash, TypeOK, Solvency
  <2> QED
    BY <1>6, <2>1, QuietStep DEF Crash
<1>7. CASE UNCHANGED vars
  <2>1. TypeOK' /\ Solvency'
    BY <1>7 DEF vars, TypeOK, Solvency
  <2> QED
    BY <1>7, <2>1, QuietStep DEF vars
<1> QED
  BY <1>1, <1>2, <1>3, <1>4, <1>5, <1>6, <1>7

-----------------------------------------------------------------------------
(* The gateway's steps: one call, one of its attempts. *)

\* What a step of the gateway may touch.
Touches(a) ==
  /\ OnlyRow(a)
  /\ saved' = [saved EXCEPT ![a] = saved'[a]]
  /\ wire' = [wire EXCEPT ![a] = wire'[a]]
  /\ pc' = [pc EXCEPT ![a[1]] = pc'[a[1]]]
  /\ try' = [try EXCEPT ![a[1]] = try'[a[1]]]
  /\ {cpu, cpu'} \subseteq {a[1], Nobody}
  /\ UNCHANGED reconciled

\* It is enough to look at the call and the attempt that a step touches.
LEMMA GatewayStep ==
  ASSUME IInv, NEW a \in Attempts, Touches(a),
         status[a] = "settled" => status'[a] = "settled",
         TypeOK', Solvency', PhaseOf(a[1])', RowOf(a)'
  PROVE  IInv'
<1> USE DEF IInv, Touches, OnlyRow
<1>1. \A b \in Attempts : status[b] = "settled" => status'[b] = "settled"
  BY DEF TypeOK
<1>2. ASSUME NEW b \in Attempts, b # a PROVE RowOf(b)'
  <2>1. wire'[b] = wire[b] /\ saved'[b] = saved[b] /\ status'[b] = status[b]
    BY <1>2 DEF TypeOK
  <2> QED
    BY <2>1, <1>1, RowStays
<1>3. ASSUME NEW d \in Calls, d # a[1] PROVE PhaseOf(d)'
  <2>1. pc'[d] = pc[d] /\ try'[d] = try[d] /\ (cpu' = d <=> cpu = d)
    BY <1>3, BillingAssumption DEF TypeOK
  <2>2. \A b \in Attempts : b[1] = d =>
          wire'[b] = wire[b] /\ saved'[b] = saved[b] /\ status'[b] = status[b]
    BY <1>3 DEF TypeOK
  <2> QED
    BY <2>1, <2>2, PhaseStays
<1> QED
  BY <1>2, <1>3

\* A call that accounts for a saved answer and then retries or ends.
LEMMA AccountStep ==
  ASSUME IInv, NEW a \in Attempts, NEW threw \in BOOLEAN,
         NEW s \in {"sent", "unknown", "settled"},
         saved[a] \in Replies, status[a] \in {"sent", "unknown", "settled"},
         \/ status[a] = "settled" /\ UNCHANGED rows
         \/ Account(a, saved[a], s) /\ (threw <=> AccountThrows(a, saved[a])),
         Conclude(a, threw), cpu \in {a[1], Nobody}, cpu' = Nobody,
         UNCHANGED <<admin, saved, world>>
  PROVE  IInv'
<1> DEFINE c == a[1]
<1>0. \A d \in Calls : Tries[d] \in Nat /\ 1 <= Tries[d]
  BY BillingAssumption
<1>1. c \in Calls /\ a[2] \in Nat \ {0} /\ a[2] <= Tries[c] /\ a = <<c, a[2]>>
  <2>1. c \in Calls /\ a[2] \in 1 .. Tries[c] /\ a = <<c, a[2]>>
    BY AttemptFacts
  <2> QED
    BY <1>0, <2>1
<1>2. RowsOK /\ s \in Statuses
  BY DEF IInv, TypeOK, RowsOK, Statuses
<1>3. /\ RowsOK' /\ OnlyRow(a)
      /\ status'[a] \in {"sent", "unknown", "settled"}
      /\ ~threw => status'[a] \in {"unknown", "settled"}
      /\ status[a] = "settled" => status'[a] = "settled"
  <2>1. CASE status[a] = "settled" /\ UNCHANGED rows
    BY <1>2, <2>1 DEF rows, RowsOK, OnlyRow, Solvency
  <2>2. CASE Account(a, saved[a], s) /\ (threw <=> AccountThrows(a, saved[a]))
    BY <1>2, <2>2, AccountOK DEF Final
  <2> QED
    BY <2>1, <2>2
<1>4. \/ pc' = [pc EXCEPT ![c] = "backoff"] /\ try' = [try EXCEPT ![c] = a[2]]
         /\ status'[a] = "settled" /\ a[2] < Tries[c]
      \/ pc' = [pc EXCEPT ![c] = "idle"] /\ try' = [try EXCEPT ![c] = 1]
  BY <1>3 DEF Conclude
<1>5. TypeOK' /\ Solvency'
  <2>1. /\ pc' \in [Calls -> {"idle", "queued", "reserved", "sending", "waiting",
                              "recorded", "backoff"}]
        /\ try' \in [Calls -> Nat \ {0}] /\ \A d \in Calls : try'[d] <= Tries[d]
    <3>1. PICK l \in {"idle", "backoff"}, n \in {1, a[2]} :
            pc' = [pc EXCEPT ![c] = l] /\ try' = [try EXCEPT ![c] = n]
      BY <1>4
    <3>2. n \in Nat \ {0} /\ n <= Tries[c]
      BY <1>0, <1>1
    <3>3. try' \in [Calls -> Nat \ {0}] /\ \A d \in Calls : try'[d] <= Tries[d]
      BY <1>1, <3>1, <3>2 DEF IInv, TypeOK
    <3> QED
      BY <1>1, <3>1, <3>3 DEF IInv, TypeOK
  <2>2. RowsOK'
    BY <1>3
  <2>3. Solvency'
    BY <2>2 DEF RowsOK
  <2>4. /\ reconciled' \subseteq Attempts /\ credited' \in [Users -> Int]
        /\ banned' \subseteq Users
    BY DEF IInv, TypeOK, admin
  <2>5. /\ wire' \in [Attempts -> Nat] /\ day' \in Nat /\ crashes' \in Nat
        /\ saved' \in [Attempts -> Replies \cup {NoReply, Purged}]
        /\ cpu' \in Calls \cup {Nobody}
    BY DEF IInv, TypeOK, world
  <2>6. limits' \in inForce' /\ inForce' \subseteq Settings
    BY DEF IInv, TypeOK, admin, world
  <2> QED
    BY <2>1, <2>2, <2>3, <2>4, <2>5, <2>6 DEF TypeOK, RowsOK
<1>6. PhaseOf(c)'
  <2>1. CASE pc'[c] = "idle"
    BY <1>1, <2>1, BillingAssumption DEF PhaseOf
  <2>2. CASE pc'[c] = "backoff" /\ try'[c] = a[2] /\ status'[a] = "settled" /\ a[2] < Tries[c]
    BY <1>1, <2>2, BillingAssumption DEF PhaseOf, Cur
  <2> QED
    BY <1>1, <1>4, <2>1, <2>2 DEF IInv, TypeOK
<1>7. RowOf(a)'
  <2>1. a[2] > 1 => /\ <<c, a[2] - 1>> \in Attempts /\ <<c, a[2] - 1>> # a
                    /\ status[<<c, a[2] - 1>>] = "settled"
    BY <1>1, AttemptFacts DEF IInv, RowOf
  <2>2. \A b \in Attempts : b # a => status'[b] = status[b]
    BY <1>3 DEF OnlyRow, IInv, TypeOK
  <2>3. wire'[a] <= 1 /\ saved'[a] # NoReply
    BY BillingAssumption DEF IInv, RowOf, world
  <2> QED
    BY <1>3, <2>1, <2>2, <2>3 DEF RowOf
<1>8. Touches(a)
  BY <1>1, <1>3, <1>4 DEF Touches, OnlyRow, IInv, TypeOK, admin, world
<1> QED
  BY <1>3, <1>5, <1>6, <1>7, <1>8, GatewayStep

\* The head of a dispatch, for a first try or a retry of a settled one.
LEMMA LookupStep ==
  ASSUME IInv, NEW a \in Attempts, pc[a[1]] \in {"idle", "backoff"}, Lookup(a),
         a[2] > 1 => status[<<a[1], a[2] - 1>>] = "settled"
  PROVE  IInv'
<1> DEFINE c == a[1]
<1>1. c \in Calls /\ a[2] \in Nat \ {0} /\ a[2] <= Tries[c] /\ a = <<c, a[2]>>
  <2>1. c \in Calls /\ a[2] \in 1 .. Tries[c] /\ a = <<c, a[2]>>
    BY AttemptFacts
  <2> QED
    BY <2>1, BillingAssumption
<1>2. cpu = Nobody /\ cpu' = Nobody /\ Nobody # c
  BY <1>1, BillingAssumption DEF Lookup, Idle
<1>3. CASE saved[a] \in Replies
  <2>1. status[a] \in {"sent", "unknown", "settled"}
    BY <1>3, BillingAssumption DEF IInv, RowOf, TypeOK, Statuses
  <2>2. CASE status[a] = "settled"
    <3>1. UNCHANGED rows /\ Conclude(a, FALSE)
      BY <1>3, <2>2 DEF Lookup
    <3> QED
      BY <1>2, <1>3, <2>2, <3>1, AccountStep DEF Lookup
  <2>3. CASE status[a] # "settled"
    <3>1. Account(a, saved[a], status[a]) /\ Conclude(a, AccountThrows(a, saved[a]))
      BY <1>3, <2>3 DEF Lookup
    <3>2. AccountThrows(a, saved[a]) \in BOOLEAN
      BY DEF AccountThrows
    <3> QED
      BY <1>2, <1>3, <2>1, <3>1, <3>2, AccountStep DEF Lookup
  <2> QED
    BY <2>2, <2>3
<1>4. CASE saved[a] \notin Replies
  <2>1. \/ pc' = [pc EXCEPT ![c] = "queued"] /\ try' = [try EXCEPT ![c] = a[2]]
        \/ pc' = [pc EXCEPT ![c] = "idle"] /\ try' = [try EXCEPT ![c] = 1]
    BY <1>4 DEF Lookup, Stop
  <2>2. UNCHANGED rows
    BY <1>4 DEF Lookup
  <2>3. UNCHANGED <<status, cost, createdOn, wallet, admin, saved, cpu, world>>
    BY <2>2 DEF Lookup, rows
  <2>4. \A d \in Calls : Tries[d] \in Nat /\ 1 <= Tries[d]
    BY BillingAssumption
  <2>5. TypeOK' /\ Solvency'
    <3>1. /\ pc' \in [Calls -> {"idle", "queued", "reserved", "sending", "waiting",
                                "recorded", "backoff"}]
          /\ try' \in [Calls -> Nat \ {0}] /\ \A d \in Calls : try'[d] <= Tries[d]
      BY <1>1, <2>1, <2>4 DEF IInv, TypeOK
    <3> QED
      BY <2>3, <3>1 DEF IInv, TypeOK, Solvency, admin, world
  <2>6. PhaseOf(c)'
    <3>1. pc'[c] = "idle" \/ (pc'[c] = "queued" /\ try'[c] = a[2])
      BY <1>1, <2>1 DEF IInv, TypeOK
    <3> QED
      BY <1>1, <1>2, <2>3, <3>1 DEF PhaseOf
  <2>7. RowOf(a)'
    BY <2>3 DEF IInv, RowOf, admin, world
  <2>8. Touches(a)
    BY <1>1, <1>2, <2>1, <2>3 DEF Touches, OnlyRow, IInv, TypeOK, admin, world
  <2> QED
    BY <2>3, <2>5, <2>6, <2>7, <2>8, GatewayStep
<1> QED
  BY <1>3, <1>4

\* A call starts with its first try, or goes on with the one after a settled try.
LEMMA DispatchSteps ==
  ASSUME IInv, NEW c \in Calls, Dispatch(c) \/ Redispatch(c)
  PROVE  IInv'
<1>1. Tries[c] \in Nat /\ 1 <= Tries[c]
  BY BillingAssumption
<1>2. CASE Dispatch(c)
  <2> DEFINE a == <<c, 1>>
  <2>1. a \in Attempts
    BY <1>1, AttemptFacts
  <2>2. a[1] = c /\ a[2] = 1
    OBVIOUS
  <2>3. pc[a[1]] \in {"idle", "backoff"} /\ Lookup(a)
    BY <1>2, <2>2 DEF Dispatch
  <2>4. ~(a[2] > 1)
    BY <2>2
  <2> HIDE DEF a
  <2> QED
    BY <2>1, <2>3, <2>4, LookupStep
<1>3. CASE Redispatch(c)
  <2> DEFINE a == <<c, try[c] + 1>>
  <2>1. try[c] \in Nat /\ try[c] < Tries[c] /\ status[<<c, try[c]>>] = "settled"
    BY <1>3 DEF Redispatch, IInv, TypeOK, PhaseOf, Cur
  <2>2. a \in Attempts
    <3>1. try[c] + 1 \in Nat /\ try[c] + 1 \in 1 .. Tries[c]
      BY <1>1, <2>1
    <3> QED
      BY <3>1, AttemptFacts
  <2>3. a[1] = c /\ a[2] - 1 = try[c]
    BY <2>1
  <2> QED
    BY <1>3, <2>1, <2>2, <2>3, LookupStep DEF Redispatch
<1> QED
  BY <1>2, <1>3

\* A step of a running call c on its current attempt a: the call moves on or stops, and
\* nothing but the call, the attempt and its wallet moves.
Moves(c, a) ==
  /\ \/ \E label \in {"reserved", "sending", "waiting", "recorded"} : Goto(c, label)
     \/ Stop(c)
  /\ OnlyRow(a)
  /\ saved' = [saved EXCEPT ![a] = saved'[a]]
  /\ wire' = [wire EXCEPT ![a] = wire'[a]]
  /\ {cpu, cpu'} \subseteq {c, Nobody}
  /\ UNCHANGED <<admin, day, crashes, inForce>>

\* A running call that changes only its own attempt keeps the invariant if what it
\* says of that attempt stays true.
LEMMA CallStep ==
  ASSUME IInv, NEW c \in Calls, NEW a \in Attempts, a[1] = c, Moves(c, a), RowsOK',
         saved'[a] \in Replies \cup {NoReply, Purged}, wire'[a] \in Nat,
         status[a] = "settled" => status'[a] = "settled",
         PhaseOf(c)', RowOf(a)'
  PROVE  IInv'
<1>2. \A d \in Calls : Tries[d] \in Nat /\ 1 <= Tries[d]
  BY BillingAssumption
<1>3. /\ pc' \in [Calls -> {"idle", "queued", "reserved", "sending", "waiting",
                            "recorded", "backoff"}]
      /\ pc' = [pc EXCEPT ![c] = pc'[c]]
  BY DEF Moves, Goto, Stop, IInv, TypeOK
<1>4. /\ try' \in [Calls -> Nat \ {0}] /\ \A d \in Calls : try'[d] <= Tries[d]
      /\ try' = [try EXCEPT ![c] = try'[c]]
  BY <1>2 DEF Moves, Goto, Stop, IInv, TypeOK
<1>5. saved' \in [Attempts -> Replies \cup {NoReply, Purged}]
  BY DEF Moves, IInv, TypeOK
<1>6. wire' \in [Attempts -> Nat]
  BY DEF Moves, IInv, TypeOK
<1>7. cpu' \in Calls \cup {Nobody}
  BY DEF Moves
<1>8. TypeOK' /\ Solvency'
  BY <1>3, <1>4, <1>5, <1>6, <1>7 DEF Moves, IInv, TypeOK, RowsOK, admin
<1>9. Touches(a)
  BY <1>3, <1>4 DEF Touches, Moves, admin
<1> QED
  BY <1>8, <1>9, GatewayStep

\* a is the attempt of call c: its type, and the invariants that speak of it.
IsCur(c, a) ==
  /\ a = Cur(c) /\ a = <<c, try[c]>> /\ a[1] = c /\ a[2] = try[c]
  /\ RowsOK /\ PhaseOf(c) /\ RowOf(a)
  /\ saved[a] \in Replies \cup {NoReply, Purged} /\ wire[a] \in Nat
  /\ try[c] \in Nat \ {0} /\ Nobody # c /\ cpu \in Calls \cup {Nobody}
  /\ try[c] > 1 => <<c, try[c] - 1>> \in Attempts

\* Every call has a current attempt.
LEMMA Running ==
  ASSUME IInv, NEW c \in Calls
  PROVE  \E a \in Attempts : IsCur(c, a)
<1>1. /\ Cur(c) \in Attempts /\ Cur(c) = <<c, try[c]>>
      /\ try[c] > 1 => <<c, try[c] - 1>> \in Attempts
  BY CurFacts DEF IInv
<1>2. /\ RowsOK /\ PhaseOf(c) /\ RowOf(Cur(c))
      /\ try[c] \in Nat \ {0} /\ cpu \in Calls \cup {Nobody}
      /\ saved[Cur(c)] \in Replies \cup {NoReply, Purged} /\ wire[Cur(c)] \in Nat
  BY <1>1 DEF IInv, TypeOK, RowsOK
<1> QED
  BY <1>1, <1>2, BillingAssumption DEF IsCur

\* Giving back an attempt that holds a reservation touches only that attempt.
LEMMA GiveBackOK ==
  ASSUME RowsOK, NEW a \in Attempts, GiveBack(a)
  PROVE  /\ RowsOK' /\ OnlyRow(a)
         /\ status'[a] = IF status[a] = "reserved" THEN "released" ELSE status[a]
<1>1. CASE status[a] = "reserved"
  <2>1. ReleaseRow(a)
    BY <1>1 DEF GiveBack
  <2>2. RowsOK'
    BY <2>1, ReleaseRowOK
  <2> QED
    BY <1>1, <2>1, <2>2 DEF ReleaseRow, OnlyRow, RowsOK
<1>2. CASE status[a] # "reserved"
  BY <1>2 DEF GiveBack, rows, RowsOK, OnlyRow, Solvency
<1> QED
  BY <1>1, <1>2

\* A call that stops without having sent anything, perhaps giving its reservation back.
LEMMA StopSteps ==
  ASSUME IInv, NEW c \in Calls,
         NotAdmitted(c) \/ Refused(c) \/ AbortBeforeSend(c)
  PROVE  IInv'
<1>1. PICK a \in Attempts : IsCur(c, a)
  BY Running
<1> USE DEF IsCur
<1>2. /\ Stop(c) /\ UNCHANGED <<admin, saved, world>>
      /\ cpu \in {c, Nobody} /\ cpu' = Nobody
  BY DEF NotAdmitted, Refused, AbortBeforeSend, Idle
<1>3. /\ RowsOK' /\ OnlyRow(a)
      /\ \/ status'[a] = status[a]
         \/ status[a] = "reserved" /\ status'[a] = "released"
  <2>1. CASE UNCHANGED rows
    BY <1>1, <2>1 DEF rows, RowsOK, OnlyRow, Solvency
  <2>2. CASE GiveBack(a)
    BY <1>1, <2>2, GiveBackOK
  <2> QED
    BY <1>1, <2>1, <2>2 DEF NotAdmitted, Refused, AbortBeforeSend
<1>4. PhaseOf(c)'
  BY <1>1, <1>2 DEF Stop, PhaseOf, IInv, TypeOK
<1>5. RowOf(a)'
  <2>1. a[2] > 1 => status'[<<c, try[c] - 1>>] = status[<<c, try[c] - 1>>]
    BY <1>1, <1>3 DEF OnlyRow, RowsOK
  <2>2. wire'[a] = wire[a] /\ saved'[a] = saved[a] /\ reconciled' = reconciled
    BY <1>2 DEF admin, world
  <2> QED
    BY <1>1, <1>3, <2>1, <2>2 DEF RowOf
<1>6. Moves(c, a)
  BY <1>1, <1>2, <1>3 DEF Moves, admin, world, IInv, TypeOK
<1> QED
  BY <1>1, <1>2, <1>3, <1>4, <1>5, <1>6, CallStep DEF world


\* Other attempts of the call keep their status when only a's row moves.
LEMMA EarlierTryStays ==
  ASSUME NEW c \in Calls, NEW a \in Attempts, IsCur(c, a), OnlyRow(a)
  PROVE  try[c] > 1 => status'[<<c, try[c] - 1>>] = status[<<c, try[c] - 1>>]
BY DEF IsCur, OnlyRow, RowsOK

\* Reserving: a fresh reservation, or the one an earlier process left.
LEMMA ReserveStep ==
  ASSUME IInv, NEW c \in Calls, Reserve(c)
  PROVE  IInv'
<1>1. PICK a \in Attempts : IsCur(c, a)
  BY Running
<1> USE DEF IsCur
<1>2. /\ pc[c] = "queued" /\ cpu = Nobody /\ Goto(c, "reserved") /\ cpu' = c
      /\ UNCHANGED <<admin, saved, world>>
  BY DEF Reserve, Idle
<1>3. RowsOK' /\ OnlyRow(a) /\ status'[a] = "reserved" /\ status[a] \in {"none", "reserved"}
  <2>1. CASE status[a] = "reserved" /\ UNCHANGED rows
    BY <1>1, <2>1 DEF rows, RowsOK, OnlyRow, Solvency
  <2>2. CASE status[a] = "none" /\ InsertReserved(a) /\ (c \notin OwnKey => WithinBudget(a))
    <3>1. day \in Nat
      BY DEF IInv, TypeOK
    <3>2. RowsOK'
      BY <1>1, <2>2, <3>1, InsertReservedOK
    <3> QED
      BY <1>1, <2>2, <3>2 DEF InsertReserved, OnlyRow, RowsOK
  <2> QED
    BY <1>1, <2>1, <2>2 DEF Reserve
<1>4. a[2] > 1 => /\ status[<<c, try[c] - 1>>] = "settled"
                  /\ status'[<<c, try[c] - 1>>] = "settled"
  BY <1>1, <1>2, <1>3, EarlierTryStays DEF PhaseOf
<1>5. pc'[c] = "reserved" /\ try'[c] = try[c]
  BY <1>2 DEF Goto, IInv, TypeOK
<1>6. PhaseOf(c)'
  BY <1>1, <1>2, <1>3, <1>4, <1>5 DEF PhaseOf, Cur
<1>7. RowOf(a)'
  BY <1>1, <1>2, <1>3, <1>4 DEF RowOf, admin, world
<1>8. Moves(c, a)
  BY <1>1, <1>2, <1>3 DEF Moves, admin, world, IInv, TypeOK
<1> QED
  BY <1>1, <1>2, <1>3, <1>6, <1>7, <1>8, CallStep DEF world

\* Marking an attempt sent, before its request leaves.
LEMMA MarkSentStep ==
  ASSUME IInv, NEW c \in Calls, MarkSent(c)
  PROVE  IInv'
<1>1. PICK a \in Attempts : IsCur(c, a)
  BY Running
<1> USE DEF IsCur
<1>2. /\ pc[c] = "reserved" /\ cpu = c /\ cpu' = c /\ Goto(c, "sending")
      /\ status[a] = "reserved" /\ SetStatus(a, "sent")
      /\ UNCHANGED <<admin, saved, world>>
  BY <1>1 DEF MarkSent
<1>3. RowsOK' /\ OnlyRow(a) /\ status'[a] = "sent"
  <2>1. RowsOK'
    BY <1>1, <1>2, SetStatusOK DEF Statuses
  <2> QED
    BY <1>1, <1>2, <2>1 DEF SetStatus, OnlyRow, RowsOK
<1>4. a[2] > 1 => /\ status[<<c, try[c] - 1>>] = "settled"
                  /\ status'[<<c, try[c] - 1>>] = "settled"
  BY <1>1, <1>2, <1>3, EarlierTryStays DEF PhaseOf
<1>5. pc'[c] = "sending" /\ try'[c] = try[c]
  BY <1>2 DEF Goto, IInv, TypeOK
<1>6. PhaseOf(c)'
  BY <1>1, <1>2, <1>3, <1>4, <1>5 DEF PhaseOf, RowOf, Cur, world
<1>7. RowOf(a)'
  BY <1>1, <1>2, <1>3, <1>4 DEF RowOf, admin, world
<1>8. Moves(c, a)
  BY <1>1, <1>2, <1>3 DEF Moves, admin, world, IInv, TypeOK
<1> QED
  BY <1>1, <1>2, <1>3, <1>6, <1>7, <1>8, CallStep DEF world

\* The request leaves, for the first time.
LEMMA TransmitStep ==
  ASSUME IInv, NEW c \in Calls, Transmit(c)
  PROVE  IInv'
<1>1. PICK a \in Attempts : IsCur(c, a)
  BY Running
<1> USE DEF IsCur
<1>2. /\ pc[c] = "sending" /\ cpu = c /\ cpu' = Nobody /\ Goto(c, "waiting")
      /\ wire' = [wire EXCEPT ![a] = @ + 1]
      /\ UNCHANGED <<rows, admin, saved, day, crashes, inForce>>
  BY <1>1 DEF Transmit
<1>3. /\ RowsOK' /\ OnlyRow(a) /\ status' = status
      /\ wire[a] = 0 /\ status[a] = "sent" /\ saved[a] = NoReply
  BY <1>1, <1>2 DEF rows, RowsOK, OnlyRow, Solvency, PhaseOf
<1>4. wire'[a] = 1
  BY <1>1, <1>2, <1>3 DEF IInv, TypeOK
<1>5. pc'[c] = "waiting" /\ try'[c] = try[c]
  BY <1>2 DEF Goto, IInv, TypeOK
<1>6. PhaseOf(c)'
  BY <1>1, <1>2, <1>3, <1>5 DEF PhaseOf, Cur
<1>7. RowOf(a)'
  BY <1>1, <1>2, <1>3, <1>4 DEF RowOf, admin
<1>8. Moves(c, a)
  BY <1>1, <1>2, <1>3, <1>4 DEF Moves, admin, IInv, TypeOK
<1> QED
  BY <1>1, <1>2, <1>3, <1>4, <1>6, <1>7, <1>8, CallStep

\* The request failed in flight: its price is open, unless it was settled by hand.
LEMMA TransportFailedStep ==
  ASSUME IInv, NEW c \in Calls, TransportFailed(c)
  PROVE  IInv'
<1>1. PICK a \in Attempts : IsCur(c, a)
  BY Running
<1> USE DEF IsCur
<1> DEFINE s == IF status[a] = "sent" THEN "unknown" ELSE status[a]
<1>2. /\ pc[c] = "waiting" /\ cpu = Nobody /\ cpu' = Nobody /\ Stop(c)
      /\ SetStatus(a, s) /\ UNCHANGED <<admin, saved, world>>
  BY <1>1 DEF TransportFailed, Idle
<1>3. status[a] \in {"sent", "settled"} /\ s \in {"unknown", "settled"}
  BY <1>1, <1>2 DEF PhaseOf
<1>4. RowsOK' /\ OnlyRow(a) /\ status'[a] = s
  <2>1. RowsOK'
    BY <1>1, <1>2, <1>3, SetStatusOK DEF Statuses
  <2> QED
    BY <1>1, <1>2, <2>1 DEF SetStatus, OnlyRow, RowsOK
<1>5. a[2] > 1 => /\ status[<<c, try[c] - 1>>] = "settled"
                  /\ status'[<<c, try[c] - 1>>] = "settled"
  BY <1>1, <1>3, <1>4, EarlierTryStays DEF RowOf
<1>6. PhaseOf(c)'
  BY <1>1, <1>2 DEF Stop, PhaseOf, IInv, TypeOK
<1>7. RowOf(a)'
  BY <1>1, <1>2, <1>3, <1>4, <1>5 DEF RowOf, admin, world
<1>8. Moves(c, a)
  BY <1>1, <1>2, <1>4 DEF Moves, admin, world, IInv, TypeOK
<1> QED
  BY <1>1, <1>2, <1>3, <1>4, <1>6, <1>7, <1>8, CallStep DEF world

\* The answer is saved while its attempt is still sent, or settled by hand.
LEMMA ReceiveStep ==
  ASSUME IInv, NEW c \in Calls, Receive(c)
  PROVE  IInv'
<1>1. PICK a \in Attempts : IsCur(c, a)
  BY Running
<1> USE DEF IsCur
<1>2. /\ pc[c] = "waiting" /\ cpu = Nobody /\ cpu' = c /\ Goto(c, "recorded")
      /\ UNCHANGED <<rows, admin, world>>
  BY <1>1 DEF Receive, Idle
<1>3. PICK r \in Replies : saved' = [saved EXCEPT ![a] = r]
  BY <1>1 DEF Receive
<1>4. /\ RowsOK' /\ OnlyRow(a) /\ status' = status /\ status[a] \in {"sent", "settled"}
      /\ saved'[a] = r /\ r # NoReply
  BY <1>1, <1>2, <1>3, BillingAssumption
     DEF rows, RowsOK, OnlyRow, Solvency, PhaseOf, IInv, TypeOK
<1>5. pc'[c] = "recorded" /\ try'[c] = try[c]
  BY <1>2 DEF Goto, IInv, TypeOK
<1>6. PhaseOf(c)'
  BY <1>1, <1>2, <1>3, <1>4, <1>5 DEF PhaseOf, Cur
<1>7. RowOf(a)'
  BY <1>1, <1>2, <1>4 DEF RowOf, admin, world
<1>8. Moves(c, a)
  BY <1>1, <1>2, <1>3, <1>4 DEF Moves, admin, world, IInv, TypeOK
<1> QED
  BY <1>1, <1>2, <1>3, <1>4, <1>6, <1>7, <1>8, CallStep DEF world

\* The saved answer is charged.
LEMMA SettleStep ==
  ASSUME IInv, NEW c \in Calls, Settle(c)
  PROVE  IInv'
<1>1. PICK a \in Attempts : IsCur(c, a)
  BY Running
<1> USE DEF IsCur
<1> DEFINE s == IF status[a] = "sent" THEN "unknown" ELSE status[a]
           threw == AccountThrows(a, saved[a])
<1>2. /\ pc[c] = "recorded" /\ cpu = c /\ cpu' = Nobody
      /\ Account(a, saved[a], s) /\ Conclude(a, threw)
      /\ UNCHANGED <<admin, saved, world>>
  BY <1>1 DEF Settle
<1>3. saved[a] \in Replies /\ status[a] \in {"sent", "settled"}
  BY <1>1, <1>2 DEF PhaseOf
<1>4. s \in {"sent", "unknown", "settled"} /\ threw \in BOOLEAN
  BY <1>3 DEF AccountThrows
<1> HIDE DEF s, threw
<1>5. \/ status[a] = "settled" /\ UNCHANGED rows
      \/ Account(a, saved[a], s) /\ (threw <=> AccountThrows(a, saved[a]))
  BY <1>2 DEF threw
<1>6. status[a] \in {"sent", "unknown", "settled"} /\ cpu \in {a[1], Nobody}
  BY <1>1, <1>2, <1>3
<1> QED
  BY <1>1, <1>2, <1>3, <1>4, <1>5, <1>6, AccountStep

-----------------------------------------------------------------------------
(* The theorems. *)

\* Every step of the system keeps the invariant.
LEMMA NextIInv == IInv /\ [Next]_vars => IInv'
<1> SUFFICES ASSUME IInv, [Next]_vars PROVE IInv'
  OBVIOUS
<1>1. ASSUME NEW c \in Calls, Dispatch(c) PROVE IInv'
  BY <1>1, DispatchSteps
<1>2. ASSUME NEW c \in Calls, Progress(c) PROVE IInv'
  <2>1. CASE Redispatch(c)
    BY <2>1, DispatchSteps
  <2>2. CASE NotAdmitted(c) \/ Refused(c) \/ AbortBeforeSend(c)
    BY <2>2, StopSteps
  <2>3. CASE Reserve(c)
    BY <2>3, ReserveStep
  <2>4. CASE MarkSent(c)
    BY <2>4, MarkSentStep
  <2>5. CASE Transmit(c)
    BY <2>5, TransmitStep
  <2>6. CASE TransportFailed(c)
    BY <2>6, TransportFailedStep
  <2>7. CASE Receive(c)
    BY <2>7, ReceiveStep
  <2>8. CASE Settle(c)
    BY <2>8, SettleStep
  <2> QED
    BY <1>2, <2>1, <2>2, <2>3, <2>4, <2>5, <2>6, <2>7, <2>8 DEF Progress
<1>3. ASSUME NEW a \in Attempts, NEW k \in Fees \cup {0}, Reconcile(a, k) PROVE IInv'
  BY <1>3, ReconcileStep
<1>4. CASE \/ \E u \in Users, d \in TopUps : AdjustBalance(u, d)
           \/ \E u \in Users : BanUser(u)
           \/ \E l \in Settings : SetLimits(l)
           \/ \E a \in Attempts : DeleteResearch(a)
           \/ Midnight
           \/ Crash
           \/ UNCHANGED vars
  BY <1>4, AdminSteps
<1> QED
  BY <1>1, <1>2, <1>3, <1>4 DEF Next

\* The invariant holds in every reachable state.
THEOREM BillingInvariant == Spec => []IInv
<1>1. Init => IInv
  BY InitIInv
<1>2. IInv /\ [Next]_vars => IInv'
  BY NextIInv
<1> QED
  BY <1>1, <1>2, PTL DEF Spec

\* Type correctness.
THEOREM BillingTypeCorrect == Spec => []TypeOK
<1>1. IInv => TypeOK
  BY DEF IInv
<1> QED
  BY <1>1, BillingInvariant, PTL

\* Whatever is frozen can be paid.
THEOREM BillingSolvent == Spec => []Solvency
<1>1. IInv => Solvency
  BY DEF IInv
<1> QED
  BY <1>1, BillingInvariant, PTL

\* No crash, retry, deleted answer or manual charge makes the server send an attempt
\* twice.
THEOREM BillingSentOnce == Spec => []SentOnce
<1>1. IInv => SentOnce
  BY DEF IInv, RowOf, SentOnce
<1> QED
  BY <1>1, BillingInvariant, PTL

\* A released attempt's request never left.
THEOREM BillingReleasedNeverLeft == Spec => []ReleasedNeverLeft
<1>1. IInv => ReleasedNeverLeft
  BY DEF IInv, RowOf, ReleasedNeverLeft
<1> QED
  BY <1>1, BillingInvariant, PTL

\* A retry leaves the server only when the try before it has a settled price.
THEOREM BillingRetryOnlyAfterSettled == Spec => []RetryOnlyAfterSettled
<1>1. IInv => RetryOnlyAfterSettled
  BY DEF IInv, TypeOK, Statuses, RowOf, RetryOnlyAfterSettled
<1> QED
  BY <1>1, BillingInvariant, PTL

\* What the gateway charges for was saved.
THEOREM BillingChargedAnswerWasSaved == Spec => []ChargedAnswerWasSaved
<1>1. IInv => ChargedAnswerWasSaved
  BY DEF IInv, RowOf, ChargedAnswerWasSaved
<1> QED
  BY <1>1, BillingInvariant, PTL

-----------------------------------------------------------------------------
(* The ledger that HostedBilling implements. *)

LedgerStep == [Ledger!Next]_(Ledger!ledgerVars)

\* A reservation is the ledger's Freeze.
LEMMA FreezeMaps ==
  ASSUME RowsOK, RowsOK', NEW a \in Attempts, status[a] = "none", InsertReserved(a),
         wire' = wire
  PROVE  LedgerStep
<1>1. Hold[a] = "free" /\ Hold' = [Hold EXCEPT ![a] = "held"] /\ Departed' = Departed
  BY DEF Hold, Departed, InsertReserved, RowsOK
<1>2. Payer(a) \in Users
  BY AttemptFacts
<1>3. Ledger!Freeze(a)
  BY <1>1, <1>2 DEF Ledger!Freeze, Ledger!Solvent, InsertReserved, RowsOK, Solvency
<1> QED
  BY <1>3 DEF LedgerStep, Ledger!Next

\* A settlement is the ledger's Charge.
LEMMA ChargeMaps ==
  ASSUME RowsOK, RowsOK', NEW a \in Attempts, NEW k \in Nat, status[a] \in Frozen,
         SettleRow(a, k), wire' = wire
  PROVE  LedgerStep
<1>1. Hold[a] = "held" /\ Hold' = [Hold EXCEPT ![a] = "charged"] /\ Departed' = Departed
  BY DEF Hold, Departed, SettleRow, RowsOK, Frozen
<1>2. Payer(a) \in Users
  BY AttemptFacts
<1>3. cost' = [cost EXCEPT ![a] = cost'[a]] /\ cost'[a] = k
  BY DEF SettleRow, RowsOK
<1>4. Ledger!Charge(a)
  BY <1>1, <1>2, <1>3 DEF Ledger!Charge, Ledger!Solvent, SettleRow, RowsOK, Solvency
<1> QED
  BY <1>4 DEF LedgerStep, Ledger!Next

\* A release is the ledger's GiveBack, because a reserved attempt has not left.
LEMMA GiveBackMaps ==
  ASSUME RowsOK, RowsOK', NEW a \in Attempts, RowOf(a), GiveBack(a), wire' = wire
  PROVE  LedgerStep
<1>1. CASE status[a] = "reserved"
  <2>1. ReleaseRow(a)
    BY <1>1 DEF GiveBack
  <2>2. Hold[a] = "held" /\ Hold' = [Hold EXCEPT ![a] = "returned"]
    BY <1>1, <2>1 DEF Hold, ReleaseRow, RowsOK
  <2>3. Departed' = Departed /\ a \notin Departed
    BY <1>1 DEF Departed, RowOf
  <2>4. Ledger!GiveBack(a)
    BY <2>1, <2>2, <2>3 DEF Ledger!GiveBack, ReleaseRow
  <2> QED
    BY <2>4 DEF LedgerStep, Ledger!Next
<1>2. CASE status[a] # "reserved"
  BY <1>2 DEF GiveBack, rows, LedgerStep, Ledger!ledgerVars, Hold, Departed
<1> QED
  BY <1>1, <1>2

\* A step that leaves the rows and the wire alone is none of the ledger's.
LEMMA RowsStutter ==
  ASSUME UNCHANGED rows, wire' = wire
  PROVE  LedgerStep
BY DEF rows, LedgerStep, Ledger!ledgerVars, Hold, Departed

\* Nor is a change among the ways a reservation can be open.
LEMMA StatusStutter ==
  ASSUME RowsOK, NEW a \in Attempts, NEW s, SetStatus(a, s), wire' = wire,
         s = status[a] \/ (s \in Frozen /\ status[a] \in Frozen)
  PROVE  LedgerStep
<1>1. Hold' = Hold
  BY DEF Hold, SetStatus, RowsOK, Frozen
<1>2. Departed' = Departed
  BY DEF Departed
<1> QED
  BY <1>1, <1>2 DEF SetStatus, LedgerStep, Ledger!ledgerVars

-----------------------------------------------------------------------------
(* Every step moves at most one row, in one of four ways. *)

Books(a) ==
  /\ status[a] = "none" /\ InsertReserved(a)
  /\ a[1] \notin OwnKey => WithinBudget(a)
  /\ reconciled' = reconciled

Pays(a) ==
  /\ status[a] \in Frozen
  /\ \E k \in Nat : /\ SettleRow(a, k)
                    /\ \/ k <= Cap(a) /\ reconciled' = reconciled
                       \/ reconciled' = reconciled \cup {a}

Frees(a) ==
  /\ status[a] = "reserved" /\ ReleaseRow(a)
  /\ reconciled' = reconciled

Marks(a) ==
  /\ \E s \in Statuses : /\ SetStatus(a, s)
                         /\ s = status[a] \/ (s \in Frozen /\ status[a] \in Frozen)
  /\ reconciled' = reconciled

RowStep(a) ==
  /\ Books(a) \/ Pays(a) \/ Frees(a) \/ Marks(a)
  /\ UNCHANGED <<credited, wire, day, inForce>>

\* The rows and what was credited stay; the day may end.
NoRow ==
  /\ UNCHANGED <<rows, reconciled, credited>>
  /\ \/ day' = day /\ inForce \subseteq inForce'
     \/ day' = day + 1

\* Leaving the rows alone marks any one of them with what it says already.
LEMMA SameRows ==
  ASSUME RowsOK, NEW a \in Attempts, UNCHANGED <<rows, reconciled, credited, wire, day, inForce>>
  PROVE  RowStep(a)
<1>1. status[a] \in Statuses /\ SetStatus(a, status[a])
  BY DEF RowsOK, rows, SetStatus
<1>2. Marks(a)
  BY <1>1 DEF Marks
<1> QED
  BY <1>2 DEF RowStep

\* Accounting for an answer charges at most the reservation, or only marks the row.
LEMMA AccountRow ==
  ASSUME RowsOK, NEW a \in Attempts, NEW r \in Replies, NEW s \in Statuses,
         status[a] \in {"sent", "unknown", "settled"},
         s = status[a] \/ (s \in Frozen /\ status[a] \in Frozen),
         Account(a, r, s), UNCHANGED <<reconciled, credited, wire, day, inForce>>
  PROVE  RowStep(a)
<1>1. Fee(a, r) \in Nat
  <2>1. r.fee \in Fees \cup {0}
    BY DEF Replies
  <2>2. Fees \cup {0} \subseteq Nat
    BY BillingAssumption
  <2>3. r.fee \in Nat
    BY <2>1, <2>2
  <2> QED
    BY <2>3 DEF Fee
<1>2. CASE ~Priced(a, r)
  <2> DEFINE t == IF status[a] \in Final THEN status[a] ELSE "unknown"
  <2>1. SetStatus(a, t)
    BY <1>2 DEF Account
  <2>2. t \in Statuses /\ (t = status[a] \/ (t \in Frozen /\ status[a] \in Frozen))
    BY DEF Final, Frozen, Statuses, RowsOK
  <2> HIDE DEF t
  <2>3. Marks(a)
    BY <2>1, <2>2 DEF Marks
  <2> QED
    BY <2>3 DEF RowStep
<1>3. CASE UNCHANGED rows
  BY <1>3, SameRows
<1>4. CASE /\ Priced(a, r) /\ status[a] \in {"sent", "unknown"}
           /\ \/ Fee(a, r) > Cap(a) /\ SetStatus(a, "unknown")
              \/ Fee(a, r) <= Cap(a) /\ ~Covers(a, Fee(a, r)) /\ SetStatus(a, s)
              \/ Fee(a, r) <= Cap(a) /\ Covers(a, Fee(a, r)) /\ SettleRow(a, Fee(a, r))
  <2>1. CASE SetStatus(a, "unknown")
    <3>1. Marks(a)
      BY <1>4, <2>1 DEF Marks, Frozen, Statuses
    <3> QED
      BY <3>1 DEF RowStep
  <2>2. CASE SetStatus(a, s)
    <3>1. Marks(a)
      BY <2>2 DEF Marks
    <3> QED
      BY <3>1 DEF RowStep
  <2>3. CASE Fee(a, r) <= Cap(a) /\ SettleRow(a, Fee(a, r))
    <3>1. Pays(a)
      BY <1>1, <1>4, <2>3 DEF Pays, Frozen
    <3> QED
      BY <3>1 DEF RowStep
  <2> QED
    BY <1>4, <2>1, <2>2, <2>3
<1> QED
  BY <1>2, <1>3, <1>4 DEF Account

\* The head of a dispatch charges for a saved answer, or changes nothing.
LEMMA LookupRow ==
  ASSUME IInv, NEW a \in Attempts, Lookup(a)
  PROVE  RowStep(a)
<1>1. RowsOK /\ RowOf(a) /\ UNCHANGED <<reconciled, credited, wire, day, inForce>>
  BY DEF IInv, TypeOK, RowsOK, Lookup, world, admin
<1>2. CASE UNCHANGED rows
  BY <1>1, <1>2, SameRows
<1>3. CASE saved[a] \in Replies /\ Account(a, saved[a], status[a])
  <2>1. status[a] \in {"sent", "unknown", "settled"} /\ status[a] \in Statuses
    BY <1>1, <1>3, BillingAssumption DEF RowOf, RowsOK, Statuses
  <2> QED
    BY <1>1, <1>3, <2>1, AccountRow
<1> QED
  BY <1>2, <1>3 DEF Lookup

\* The steps of a call, but for the request leaving, move one row.
LEMMA CallRow ==
  ASSUME IInv, NEW c \in Calls, Progress(c)
  PROVE  Transmit(c) \/ \E a \in Attempts : RowStep(a)
<1>1. PICK a \in Attempts : IsCur(c, a)
  BY Running
<1>2. RowsOK /\ RowOf(a) /\ PhaseOf(c) /\ a = Cur(c) /\ a[1] = c /\ status[a] \in Statuses
  BY <1>1 DEF IsCur, IInv, TypeOK, RowsOK
<1>3. CASE Redispatch(c)
  <2> DEFINE b == <<c, try[c] + 1>>
  <2>1. b \in Attempts
    <3>1. try[c] \in Nat /\ try[c] < Tries[c] /\ Tries[c] \in Nat
      BY <1>2, <1>3, BillingAssumption DEF Redispatch, IInv, TypeOK, PhaseOf
    <3>2. try[c] + 1 \in Nat /\ try[c] + 1 \in 1 .. Tries[c]
      BY <3>1
    <3> QED
      BY <3>2, AttemptFacts
  <2>2. Lookup(b)
    BY <1>3 DEF Redispatch
  <2> HIDE DEF b
  <2> QED
    BY <2>1, <2>2, LookupRow
<1>4. CASE NotAdmitted(c) \/ Receive(c)
  <2>1. UNCHANGED <<rows, reconciled, credited, wire, day, inForce>>
    BY <1>4 DEF NotAdmitted, Receive, world, admin
  <2> QED
    BY <1>2, <2>1, SameRows
<1>5. CASE Refused(c) \/ AbortBeforeSend(c)
  <2>1. GiveBack(a) /\ UNCHANGED <<reconciled, credited, wire, day, inForce>>
    BY <1>2, <1>5 DEF Refused, AbortBeforeSend, world, admin
  <2>2. CASE status[a] = "reserved"
    BY <2>1, <2>2 DEF GiveBack, RowStep, Frees
  <2>3. CASE status[a] # "reserved"
    BY <1>2, <2>1, <2>3, SameRows DEF GiveBack
  <2> QED
    BY <2>2, <2>3
<1>6. CASE Reserve(c)
  <2>1. /\ UNCHANGED <<reconciled, credited, wire, day, inForce>>
        /\ \/ UNCHANGED rows
           \/ status[a] = "none" /\ InsertReserved(a) /\ (c \notin OwnKey => WithinBudget(a))
    BY <1>2, <1>6 DEF Reserve, world, admin
  <2> QED
    BY <1>2, <2>1, SameRows DEF RowStep, Books
<1>7. CASE MarkSent(c)
  <2>1. /\ UNCHANGED <<reconciled, credited, wire, day, inForce>>
        /\ status[a] = "reserved" /\ SetStatus(a, "sent")
    BY <1>2, <1>7 DEF MarkSent, world, admin
  <2>2. Marks(a)
    BY <2>1 DEF Marks, Frozen, Statuses
  <2> QED
    BY <2>1, <2>2 DEF RowStep
<1>8. CASE TransportFailed(c)
  <2> DEFINE s == IF status[a] = "sent" THEN "unknown" ELSE status[a]
  <2>1. SetStatus(a, s) /\ UNCHANGED <<reconciled, credited, wire, day, inForce>>
    BY <1>2, <1>8 DEF TransportFailed, world, admin
  <2>2. s \in Statuses /\ (s = status[a] \/ (s \in Frozen /\ status[a] \in Frozen))
    BY <1>2 DEF Frozen, Statuses
  <2> HIDE DEF s
  <2>3. Marks(a)
    BY <2>1, <2>2 DEF Marks
  <2> QED
    BY <2>1, <2>3 DEF RowStep
<1>9. CASE Settle(c)
  <2> DEFINE s == IF status[a] = "sent" THEN "unknown" ELSE status[a]
  <2>1. Account(a, saved[a], s) /\ UNCHANGED <<reconciled, credited, wire, day, inForce>>
    BY <1>2, <1>9 DEF Settle, world, admin
  <2>2. status[a] \in {"sent", "unknown", "settled"} /\ saved[a] \in Replies
    BY <1>2, <1>9 DEF Settle, PhaseOf
  <2>3. s \in Statuses /\ (s = status[a] \/ (s \in Frozen /\ status[a] \in Frozen))
    BY <1>2 DEF Frozen, Statuses
  <2> HIDE DEF s
  <2> QED
    BY <1>2, <2>1, <2>2, <2>3, AccountRow
<1> QED
  BY <1>3, <1>4, <1>5, <1>6, <1>7, <1>8, <1>9 DEF Progress

\* Every step moves one row, sends a request, books an adjustment, or moves no row.
LEMMA NextRow ==
  ASSUME IInv, [Next]_vars
  PROVE  \/ \E a \in Attempts : RowStep(a)
         \/ \E c \in Calls : Transmit(c)
         \/ \E u \in Users, d \in TopUps : AdjustBalance(u, d)
         \/ NoRow /\ wire' = wire
<1>1. ASSUME NEW c \in Calls, Dispatch(c) PROVE \E a \in Attempts : RowStep(a)
  <2> DEFINE b == <<c, 1>>
  <2>1. b \in Attempts
    <3>1. Tries[c] \in Nat /\ 1 <= Tries[c]
      BY BillingAssumption
    <3> QED
      BY <3>1, AttemptFacts
  <2>2. Lookup(b)
    BY <1>1 DEF Dispatch
  <2> HIDE DEF b
  <2> QED
    BY <2>1, <2>2, LookupRow
<1>2. ASSUME NEW a \in Attempts, NEW k \in Fees \cup {0}, Reconcile(a, k) PROVE RowStep(a)
  <2>1. Fees \subseteq Nat
    BY BillingAssumption
  <2>2. k \in Nat
    BY <2>1
  <2>3. Pays(a)
    BY <1>2, <2>2 DEF Reconcile, Pays
  <2> QED
    BY <1>2, <2>3 DEF RowStep, Reconcile, world
<1>3. CASE \/ \E u \in Users : BanUser(u)
           \/ \E l \in Settings : SetLimits(l)
           \/ \E a \in Attempts : DeleteResearch(a)
           \/ Midnight
           \/ Crash
           \/ UNCHANGED vars
  BY <1>3 DEF NoRow, BanUser, SetLimits, DeleteResearch, Midnight, Crash, vars, world, admin
<1> QED
  BY <1>1, <1>2, <1>3, CallRow DEF Next

-----------------------------------------------------------------------------
(* The ledger, step by step. *)

\* A step of one row is a step of the ledger or none of its business.
LEMMA RowStepMaps ==
  ASSUME IInv, IInv', NEW a \in Attempts, RowStep(a)
  PROVE  LedgerStep
<1>1. RowsOK /\ RowsOK' /\ RowOf(a) /\ wire' = wire
  BY DEF IInv, TypeOK, RowsOK, RowStep
<1>2. CASE Books(a)
  BY <1>1, <1>2, FreezeMaps DEF Books
<1>3. CASE Pays(a)
  BY <1>1, <1>3, ChargeMaps DEF Pays
<1>4. CASE Frees(a)
  BY <1>1, <1>4, GiveBackMaps DEF Frees, GiveBack
<1>5. CASE Marks(a)
  BY <1>1, <1>5, StatusStutter DEF Marks
<1> QED
  BY <1>2, <1>3, <1>4, <1>5 DEF RowStep

\* The request that leaves is the ledger's Leave.
LEMMA LeaveMaps ==
  ASSUME IInv, NEW c \in Calls, Transmit(c)
  PROVE  LedgerStep
<1>1. PICK a \in Attempts : IsCur(c, a)
  BY Running
<1>2. PhaseOf(c) /\ a = Cur(c)
  BY <1>1 DEF IsCur
<1>3. status[a] = "sent" /\ wire[a] = 0 /\ UNCHANGED rows
  BY <1>2 DEF Transmit, PhaseOf
<1>4. wire' = [wire EXCEPT ![a] = 1]
  <2>1. wire' = [wire EXCEPT ![a] = wire[a] + 1]
    BY <1>2 DEF Transmit
  <2> QED
    BY <1>3, <2>1
<1>5. a \notin Departed /\ Departed' = Departed \cup {a}
  BY <1>3, <1>4 DEF Departed, IInv, TypeOK
<1>6. Hold[a] = "held" /\ Hold' = Hold
  BY <1>3 DEF Hold, rows
<1>7. Ledger!Leave(a)
  BY <1>3, <1>5, <1>6 DEF Ledger!Leave, rows
<1> QED
  BY <1>7 DEF LedgerStep, Ledger!Next

\* Every step is a step of the ledger or none of its business.
LEMMA NextMaps == IInv /\ IInv' /\ [Next]_vars => LedgerStep
<1> SUFFICES ASSUME IInv, IInv', [Next]_vars PROVE LedgerStep
  OBVIOUS
<1>1. RowsOK /\ RowsOK'
  BY DEF IInv, TypeOK, RowsOK
<1>2. ASSUME NEW u \in Users, NEW d \in TopUps, AdjustBalance(u, d) PROVE LedgerStep
  <2>1. wallet' = [wallet EXCEPT ![u].balance = wallet'[u].balance]
    BY <1>1, <1>2 DEF AdjustBalance, RowsOK
  <2>2. wallet'[u].balance >= wallet'[u].reserved
    BY <1>1 DEF RowsOK, Solvency
  <2>3. UNCHANGED <<Hold, Departed, cost>>
    BY <1>2 DEF AdjustBalance, Hold, Departed, world
  <2>4. Ledger!Fund(u)
    BY <2>1, <2>2, <2>3 DEF Ledger!Fund, Ledger!Solvent
  <2> QED
    BY <2>4 DEF LedgerStep, Ledger!Next
<1>3. CASE NoRow /\ wire' = wire
  BY <1>3, RowsStutter DEF NoRow
<1> QED
  BY <1>2, <1>3, NextRow, RowStepMaps, LeaveMaps

\* The billing of the gateway and the control store implements the ledger: money is
\* frozen, charged or given back only as HostedLedger says.
THEOREM BillingImplementsLedger == Spec => LedgerSpec
<1>1. Init => Ledger!Init
  <2> SUFFICES ASSUME Init PROVE Ledger!Init
    OBVIOUS
  <2>1. Hold = [a \in Attempts |-> "free"] /\ Departed = {}
    BY DEF Init, Hold, Departed
  <2> QED
    BY <2>1 DEF Init, Ledger!Init
<1>2. IInv /\ IInv' /\ [Next]_vars => [Ledger!Next]_(Ledger!ledgerVars)
  BY NextMaps DEF LedgerStep
<1> QED
  BY <1>1, <1>2, BillingInvariant, PTL DEF Spec, LedgerSpec, Ledger!Spec

\* A finished attempt and its price never change, because the ledger's do not.
THEOREM BillingFinalIsFinal == Spec => FinalIsFinal
<1>1. ASSUME IInv, LedgerStep, NEW a \in Attempts, status[a] \in Final
      PROVE  status'[a] = status[a] /\ cost'[a] = cost[a]
  <2>1. /\ cost \in [Attempts -> Nat] /\ Hold = [b \in Attempts |-> Hold[b]]
        /\ \/ status[a] = "settled" /\ Hold[a] = "charged"
           \/ status[a] = "released" /\ Hold[a] = "returned"
    BY <1>1 DEF IInv, TypeOK, Hold, Final
  <2>2. Hold'[a] = Hold[a] /\ cost'[a] = cost[a]
    BY <1>1, <2>1 DEF LedgerStep, Ledger!Next, Ledger!ledgerVars, Ledger!Freeze,
       Ledger!Leave, Ledger!Charge, Ledger!GiveBack, Ledger!Fund
  <2>3. /\ Hold'[a] = "charged" => status'[a] = "settled"
        /\ Hold'[a] = "returned" => status'[a] = "released"
    BY DEF Hold
  <2> QED
    BY <2>1, <2>2, <2>3
<1>2. IInv /\ IInv' /\ [Next]_vars =>
        [\A a \in Attempts : status[a] \in Final =>
           status'[a] = status[a] /\ cost'[a] = cost[a]]_vars
  BY <1>1, NextMaps
<1> QED
  BY <1>2, BillingInvariant, PTL DEF Spec, FinalIsFinal

-----------------------------------------------------------------------------
(* Sums over finite sets, by the recursion of MapThenSumSet. *)

One(s) == CHOOSE x \in s : TRUE

\* The recursion of MapThenSumSet, for a function F in place of an operator.
Rec(F, g, s) == IF s = {} THEN 0 ELSE F[One(s)] + g[s \ {One(s)}]
IsIter(F, S, g) == g = [s \in SUBSET S |-> Rec(F, g, s)]
SumOf(F, S) == (CHOOSE g : IsIter(F, S, g))[S]

\* A family of subsets of a finite set has one that contains no other.
LEMMA SmallestSet ==
  ASSUME NEW S, IsFiniteSet(S), NEW T \in SUBSET (SUBSET S), T # {}
  PROVE  \E s \in T : \A r \in T : r \subseteq s => r = s
<1>1. FiniteSubsetsOf(S) = SUBSET S
  BY FS_FiniteSubsetsOfFinite
<1>2. IsWellFoundedOn(StrictSubsetOrdering(S), SUBSET S)
  BY <1>1, FS_StrictSubsetOrderingWellFounded
<1>3. PICK s \in T : \A r \in T : <<r, s>> \notin StrictSubsetOrdering(S)
  BY <1>2, WFMin
<1>4. ASSUME NEW r \in T, r \subseteq s PROVE r = s
  <2>1. <<r, s>> \in (SUBSET S) \X (SUBSET S) /\ <<r, s>>[1] = r /\ <<r, s>>[2] = s
    OBVIOUS
  <2> QED
    BY <1>3, <1>4, <2>1 DEF StrictSubsetOrdering
<1> QED
  BY <1>4

\* What is chosen is an element.
LEMMA OneIn == ASSUME NEW s, s # {} PROVE One(s) \in s
  BY DEF One

\* Two runs of the recursion agree where both are defined.
LEMMA IterUnique ==
  ASSUME NEW F, NEW S, IsFiniteSet(S), NEW R, NEW g, NEW h, IsIter(F, S, g), IsIter(F, R, h)
  PROVE  \A s \in SUBSET S : s \subseteq R => g[s] = h[s]
<1> DEFINE Bad == {s \in SUBSET S : s \subseteq R /\ g[s] # h[s]}
<1> SUFFICES ASSUME Bad # {} PROVE FALSE
  OBVIOUS
<1>1. PICK s \in Bad : \A r \in Bad : r \subseteq s => r = s
  <2>1. Bad \in SUBSET (SUBSET S)
    OBVIOUS
  <2> HIDE DEF Bad
  <2> QED
    BY <2>1, SmallestSet
<1>2. s \in SUBSET S /\ s \in SUBSET R /\ g[s] # h[s]
  BY <1>1
<1>3. g[s] = Rec(F, g, s) /\ h[s] = Rec(F, h, s)
  BY <1>2 DEF IsIter
<1>4. s # {}
  BY <1>2, <1>3 DEF Rec
<1>5. One(s) \in s
  BY <1>4, OneIn
<1>6. g[s \ {One(s)}] = h[s \ {One(s)}]
  <2>1. s \ {One(s)} \in SUBSET S /\ s \ {One(s)} \subseteq R /\ s \ {One(s)} # s
        /\ s \ {One(s)} \subseteq s
    BY <1>2, <1>5
  <2> QED
    BY <1>1, <2>1
<1> QED
  BY <1>2, <1>3, <1>4, <1>6 DEF Rec

\* The recursion is defined on every finite set.
LEMMA IterExists == ASSUME NEW F, NEW S, IsFiniteSet(S) PROVE \E g : IsIter(F, S, g)
<1> DEFINE Bad == {t \in SUBSET S : ~ \E g : IsIter(F, t, g)}
<1> SUFFICES ASSUME Bad # {} PROVE FALSE
  BY Zenon
<1>1. PICK t \in Bad : \A r \in Bad : r \subseteq t => r = t
  <2>1. Bad \in SUBSET (SUBSET S)
    OBVIOUS
  <2> HIDE DEF Bad
  <2> QED
    BY <2>1, SmallestSet
<1>2. t \in SUBSET S /\ ~ \E g : IsIter(F, t, g)
  BY <1>1
<1>3. ASSUME NEW r \in SUBSET t, r # t PROVE \E g : IsIter(F, r, g)
  BY <1>1, <1>2, <1>3
<1> DEFINE G(r) == (CHOOSE g : IsIter(F, r, g))[r]
<1>4. ASSUME NEW r \in SUBSET t, r # t
      PROVE  G(r) = IF r = {} THEN 0 ELSE F[One(r)] + G(r \ {One(r)})
  <2> DEFINE g == CHOOSE g : IsIter(F, r, g)
  <2>1. IsIter(F, r, g)
    BY <1>3, <1>4
  <2> HIDE DEF g
  <2>2. g[r] = Rec(F, g, r)
    BY <2>1 DEF IsIter
  <2>3. ASSUME r # {} PROVE G(r \ {One(r)}) = g[r \ {One(r)}]
    <3> DEFINE q == r \ {One(r)}
    <3>1. One(r) \in r /\ q \in SUBSET r /\ q \in SUBSET t /\ q # t
      BY <1>4, <2>3, OneIn
    <3> DEFINE h == CHOOSE h : IsIter(F, q, h)
    <3>2. IsIter(F, q, h)
      BY <1>3, <3>1
    <3> HIDE DEF h
    <3>3. IsFiniteSet(q)
      BY <1>2, <3>1, FS_Subset
    <3>4. h[q] = g[q]
      BY <2>1, <3>1, <3>2, <3>3, IterUnique
    <3> QED
      BY <3>4 DEF h
  <2> QED
    BY <2>2, <2>3 DEF g, Rec
<1> DEFINE g == [s \in SUBSET t |-> IF s = {} THEN 0 ELSE F[One(s)] + G(s \ {One(s)})]
<1>5. ASSUME NEW s \in SUBSET t PROVE g[s] = Rec(F, g, s)
  <2>1. CASE s = {}
    BY <2>1 DEF Rec
  <2>2. CASE s # {}
    <3> DEFINE q == s \ {One(s)}
    <3>1. q \in SUBSET t /\ q # t
      BY <2>2, OneIn
    <3>2. g[q] = G(q)
      <4>1. G(q) = IF q = {} THEN 0 ELSE F[One(q)] + G(q \ {One(q)})
        BY <1>4, <3>1
      <4> QED
        BY <3>1, <4>1
    <3>3. g[s] = F[One(s)] + G(q)
      BY <2>2
    <3> QED
      BY <2>2, <3>2, <3>3 DEF Rec
  <2> QED
    BY <2>1, <2>2
<1>6. IsIter(F, t, g)
  <2>1. g = [s \in SUBSET t |-> g[s]]
    OBVIOUS
  <2> HIDE DEF g
  <2>2. [s \in SUBSET t |-> g[s]] = [s \in SUBSET t |-> Rec(F, g, s)]
    BY <1>5
  <2> QED
    BY <2>1, <2>2 DEF IsIter
<1> QED
  BY <1>2, <1>6

\* A sum takes out the element the recursion chooses.
LEMMA SumUnfolds ==
  ASSUME NEW F, NEW S, IsFiniteSet(S)
  PROVE  SumOf(F, S) = IF S = {} THEN 0 ELSE F[One(S)] + SumOf(F, S \ {One(S)})
<1> DEFINE g == CHOOSE g : IsIter(F, S, g)
<1>1. IsIter(F, S, g)
  BY IterExists
<1> HIDE DEF g
<1>2. g[S] = Rec(F, g, S)
  BY <1>1 DEF IsIter
<1>3. ASSUME S # {} PROVE SumOf(F, S \ {One(S)}) = g[S \ {One(S)}]
  <2> DEFINE q == S \ {One(S)}
             h == CHOOSE h : IsIter(F, q, h)
  <2>1. IsFiniteSet(q) /\ q \in SUBSET S
    BY FS_Subset
  <2>2. IsIter(F, q, h)
    BY <2>1, IterExists
  <2> HIDE DEF h
  <2>3. h[q] = g[q]
    BY <1>1, <2>1, <2>2, IterUnique
  <2> QED
    BY <2>3 DEF SumOf, h
<1> QED
  BY <1>2, <1>3 DEF SumOf, g, Rec

\* An empty sum is nought.
LEMMA SumOfNone == ASSUME NEW F PROVE SumOf(F, {}) = 0
  BY SumUnfolds, FS_EmptySet

\* Induction over the subsets of a finite set, for a set of them given by its members.
LEMMA SetInduction ==
  ASSUME NEW S, IsFiniteSet(S), NEW Good, {} \in Good,
         \A s \in SUBSET S : s # {} /\ (\A r \in SUBSET s : r # s => r \in Good) => s \in Good
  PROVE  \A s \in SUBSET S : s \in Good
<1> DEFINE Bad == {s \in SUBSET S : s \notin Good}
<1> SUFFICES ASSUME Bad # {} PROVE FALSE
  OBVIOUS
<1>1. PICK s \in Bad : \A r \in Bad : r \subseteq s => r = s
  <2>1. Bad \in SUBSET (SUBSET S)
    OBVIOUS
  <2> HIDE DEF Bad
  <2> QED
    BY <2>1, SmallestSet
<1>2. \A r \in SUBSET s : r # s => r \in Good
  BY <1>1
<1> QED
  BY <1>1, <1>2

\* A sum of integers is an integer.
LEMMA SumTyped ==
  ASSUME NEW F, NEW S, IsFiniteSet(S), \A x \in S : F[x] \in Int
  PROVE  SumOf(F, S) \in Int
<1> DEFINE Good == {s \in SUBSET S : SumOf(F, s) \in Int}
<1>1. {} \in Good
  BY SumOfNone
<1>2. ASSUME NEW s \in SUBSET S, s # {}, \A r \in SUBSET s : r # s => r \in Good PROVE s \in Good
  <2>1. IsFiniteSet(s) /\ One(s) \in s
    BY <1>2, FS_Subset, OneIn
  <2>2. SumOf(F, s \ {One(s)}) \in Int
    BY <1>2, <2>1
  <2> QED
    BY <1>2, <2>1, <2>2, SumUnfolds
<1> HIDE DEF Good
<1>3. \A s \in SUBSET S : s \in Good
  BY <1>1, <1>2, SetInduction
<1> QED
  BY <1>3 DEF Good

\* Any element can be taken out.
LEMMA SumTakesOut ==
  ASSUME NEW F, NEW S, IsFiniteSet(S), \A x \in S : F[x] \in Int, NEW a \in S
  PROVE  SumOf(F, S) = F[a] + SumOf(F, S \ {a})
<1> DEFINE Good == {s \in SUBSET S : \A x \in s : SumOf(F, s) = F[x] + SumOf(F, s \ {x})}
<1>1. {} \in Good
  OBVIOUS
<1>2. ASSUME NEW s \in SUBSET S, s # {}, \A r \in SUBSET s : r # s => r \in Good PROVE s \in Good
  <2> SUFFICES ASSUME NEW x \in s PROVE SumOf(F, s) = F[x] + SumOf(F, s \ {x})
    OBVIOUS
  <2> DEFINE c == One(s)
  <2>1. IsFiniteSet(s) /\ c \in s /\ F[c] \in Int /\ F[x] \in Int
    BY <1>2, FS_Subset, OneIn
  <2>2. SumOf(F, s) = F[c] + SumOf(F, s \ {c})
    BY <1>2, <2>1, SumUnfolds
  <2> HIDE DEF c
  <2>3. CASE x = c
    BY <2>2, <2>3
  <2>4. CASE x # c
    <3>1. s \ {c} \in Good /\ s \ {x} \in Good
      BY <1>2, <2>1
    <3>2. SumOf(F, s \ {c}) = F[x] + SumOf(F, (s \ {c}) \ {x})
      BY <2>4, <3>1
    <3>3. SumOf(F, s \ {x}) = F[c] + SumOf(F, (s \ {x}) \ {c})
      BY <2>1, <2>4, <3>1
    <3>4. (s \ {x}) \ {c} = (s \ {c}) \ {x}
      OBVIOUS
    <3>5. SumOf(F, (s \ {c}) \ {x}) \in Int
      <4>1. IsFiniteSet((s \ {c}) \ {x}) /\ (s \ {c}) \ {x} \subseteq S
        BY <2>1, FS_Subset
      <4> QED
        BY <4>1, SumTyped
    <3> DEFINE n == SumOf(F, (s \ {c}) \ {x})
    <3>6. /\ n \in Int /\ SumOf(F, s) = F[c] + (F[x] + n)
          /\ SumOf(F, s \ {x}) = F[c] + n
      BY <2>2, <3>2, <3>3, <3>4, <3>5
    <3> HIDE DEF n
    <3> QED
      BY <2>1, <3>6
  <2> QED
    BY <2>3, <2>4
<1> HIDE DEF Good
<1>3. \A s \in SUBSET S : s \in Good
  BY <1>1, <1>2, SetInduction
<1> QED
  BY <1>3 DEF Good

\* A sum grows with what is summed.
LEMMA SumGrows ==
  ASSUME NEW F, NEW H, NEW S, IsFiniteSet(S),
         \A x \in S : F[x] \in Int /\ H[x] \in Int /\ F[x] <= H[x]
  PROVE  SumOf(F, S) <= SumOf(H, S)
<1> DEFINE Good == {s \in SUBSET S : SumOf(F, s) <= SumOf(H, s)}
<1>1. {} \in Good
  BY SumOfNone
<1>2. ASSUME NEW s \in SUBSET S, s # {}, \A r \in SUBSET s : r # s => r \in Good PROVE s \in Good
  <2> DEFINE c == One(s)
             q == s \ {c}
  <2>1. IsFiniteSet(s) /\ c \in s /\ q \in SUBSET s /\ q # s /\ IsFiniteSet(q)
    BY <1>2, FS_Subset, OneIn
  <2>2. SumOf(F, s) = F[c] + SumOf(F, q) /\ SumOf(H, s) = H[c] + SumOf(H, q)
    BY <1>2, <2>1, SumUnfolds
  <2>3. SumOf(F, q) \in Int /\ SumOf(H, q) \in Int
    BY <2>1, SumTyped
  <2>4. SumOf(F, q) <= SumOf(H, q)
    BY <1>2, <2>1
  <2> HIDE DEF c, q
  <2>5. SumOf(F, s) <= SumOf(H, s)
    BY <2>1, <2>2, <2>3, <2>4
  <2> QED
    BY <2>5
<1> HIDE DEF Good
<1>3. \A s \in SUBSET S : s \in Good
  BY <1>1, <1>2, SetInduction
<1> QED
  BY <1>3 DEF Good

\* Functions that agree have the same sum.
LEMMA SumAgrees ==
  ASSUME NEW F, NEW H, NEW S, IsFiniteSet(S), \A x \in S : F[x] = H[x]
  PROVE  SumOf(F, S) = SumOf(H, S)
<1> DEFINE Good == {s \in SUBSET S : SumOf(F, s) = SumOf(H, s)}
<1>1. {} \in Good
  BY SumOfNone
<1>2. ASSUME NEW s \in SUBSET S, s # {}, \A r \in SUBSET s : r # s => r \in Good PROVE s \in Good
  <2> DEFINE c == One(s)
             q == s \ {c}
  <2>1. IsFiniteSet(s) /\ c \in s /\ q \in SUBSET s /\ q # s
    BY <1>2, FS_Subset, OneIn
  <2>2. SumOf(F, s) = F[c] + SumOf(F, q) /\ SumOf(H, s) = H[c] + SumOf(H, q)
    BY <1>2, <2>1, SumUnfolds
  <2>3. SumOf(F, q) = SumOf(H, q) /\ F[c] = H[c]
    BY <1>2, <2>1
  <2> HIDE DEF c, q
  <2> QED
    BY <2>2, <2>3
<1> HIDE DEF Good
<1>3. \A s \in SUBSET S : s \in Good
  BY <1>1, <1>2, SetInduction
<1> QED
  BY <1>3 DEF Good

\* Where one value differs, so do the sums, by as much.
LEMMA SumChanges ==
  ASSUME NEW F, NEW H, NEW S, IsFiniteSet(S), NEW a \in S,
         \A x \in S : F[x] \in Int /\ H[x] \in Int, \A x \in S \ {a} : F[x] = H[x]
  PROVE  SumOf(H, S) = SumOf(F, S) - F[a] + H[a]
<1>1. IsFiniteSet(S \ {a})
  BY FS_Subset
<1>2. SumOf(F, S) = F[a] + SumOf(F, S \ {a}) /\ SumOf(H, S) = H[a] + SumOf(H, S \ {a})
  BY SumTakesOut
<1>3. SumOf(F, S \ {a}) = SumOf(H, S \ {a}) /\ SumOf(F, S \ {a}) \in Int
  BY <1>1, SumAgrees, SumTyped
<1> QED
  BY <1>2, <1>3

\* What is nought need not be summed.
LEMMA SumOnlyOver ==
  ASSUME NEW F, NEW S, IsFiniteSet(S), NEW T \in SUBSET S,
         \A x \in S : F[x] \in Int, \A x \in S \ T : F[x] = 0
  PROVE  SumOf(F, S) = SumOf(F, T)
<1> DEFINE Good == {s \in SUBSET S : SumOf(F, s) = SumOf(F, s \cap T)}
<1>1. {} \in Good
  <2>1. {} \cap T = {}
    OBVIOUS
  <2> QED
    BY <2>1
<1>2. ASSUME NEW s \in SUBSET S, s # {}, \A r \in SUBSET s : r # s => r \in Good PROVE s \in Good
  <2> DEFINE c == One(s)
             q == s \ {c}
  <2>1. /\ IsFiniteSet(s) /\ c \in s /\ q \in SUBSET s /\ q # s /\ IsFiniteSet(s \cap T)
        /\ s \cap T \subseteq s /\ IsFiniteSet(q \cap T)
    BY <1>2, FS_Subset, OneIn
  <2>2. SumOf(F, s) = F[c] + SumOf(F, q) /\ SumOf(F, q) = SumOf(F, q \cap T)
    BY <1>2, <2>1, SumUnfolds
  <2>3. SumOf(F, q \cap T) \in Int /\ F[c] \in Int
    BY <2>1, SumTyped
  <2>4. CASE c \in T
    <3>1. c \in s \cap T /\ (s \cap T) \ {c} = q \cap T
      BY <2>1, <2>4
    <3>2. SumOf(F, s \cap T) = F[c] + SumOf(F, (s \cap T) \ {c})
      BY <2>1, <3>1, SumTakesOut
    <3> QED
      BY <2>2, <3>1, <3>2
  <2>5. CASE c \notin T
    <3>1. s \cap T = q \cap T /\ F[c] = 0
      BY <1>2, <2>1, <2>5
    <3>2. SumOf(F, s) = 0 + SumOf(F, s \cap T) /\ SumOf(F, s \cap T) \in Int
      BY <2>2, <2>3, <3>1
    <3> QED
      BY <3>2
  <2> QED
    BY <2>4, <2>5
<1> HIDE DEF Good
<1>3. \A s \in SUBSET S : s \in Good
  BY <1>1, <1>2, SetInduction
<1>4. S \cap T = T
  OBVIOUS
<1> QED
  BY <1>3, <1>4 DEF Good

\* The reservations of attempts, as a function.
CapOf == [a \in Attempts |-> Cap(a)]

\* MapThenSumSet over the reservations is the sum of that function.
LEMMA CapSum ==
  ASSUME NEW T \in SUBSET Attempts, IsFiniteSet(T)
  PROVE  MapThenSumSet(Cap, T) = SumOf(CapOf, T)
<1> DEFINE P(g) == g = [s \in SUBSET T |-> IF s = {} THEN 0 ELSE Cap(One(s)) + g[s \ {One(s)}]]
           g == CHOOSE g : P(g)
           h == CHOOSE h : IsIter(CapOf, T, h)
<1>1. MapThenSumSet(Cap, T) = g[T]
  BY DEF MapThenSumSet, MapThenFoldSet, One
<1>2. ASSUME NEW f PROVE P(f) <=> IsIter(CapOf, T, f)
  <2>1. ASSUME NEW s \in SUBSET T
        PROVE  Rec(CapOf, f, s) = IF s = {} THEN 0 ELSE Cap(One(s)) + f[s \ {One(s)}]
    <3>1. s # {} => One(s) \in Attempts
      BY OneIn
    <3> QED
      BY <3>1 DEF Rec, CapOf
  <2>2. [s \in SUBSET T |-> Rec(CapOf, f, s)]
          = [s \in SUBSET T |-> IF s = {} THEN 0 ELSE Cap(One(s)) + f[s \ {One(s)}]]
    BY <2>1
  <2> QED
    BY <2>2 DEF IsIter
<1> HIDE DEF P
<1>3. IsIter(CapOf, T, h)
  BY IterExists
<1> HIDE DEF h
<1>4. P(g)
  BY <1>2, <1>3
<1>5. IsIter(CapOf, T, g)
  <2> HIDE DEF g
  <2> QED
    BY <1>2, <1>4
<1> HIDE DEF g
<1>6. g[T] = h[T]
  BY <1>3, <1>5, IterUnique
<1> QED
  BY <1>1, <1>6 DEF SumOf, h

-----------------------------------------------------------------------------
(* Money adds up.  Only attempts that have a row count, and there are finitely *)
(* many of them, whatever the number of calls.                                 *)

Used == {a \in Attempts : status[a] # "none"}

\* What an attempt holds of an account, what it took, and what it counts today.
HeldOf(u) == [a \in Attempts |-> IF Payer(a) = u /\ status[a] \in Frozen THEN Cap(a) ELSE 0]
PaidOf(u) == [a \in Attempts |-> IF Payer(a) = u /\ status[a] = "settled" THEN cost[a] ELSE 0]
ExposureOf == [a \in Attempts |-> CASE status[a] = "settled" -> cost[a]
                                    [] status[a] \in Frozen  -> Cap(a)
                                    [] OTHER                 -> 0]
TodayOf(S) == [a \in Attempts |-> IF a \in S /\ a \notin reconciled /\ createdOn[a] >= day
                                    THEN ExposureOf[a] ELSE 0]

\* The two sums a wallet is compared with.
HeldSum(u) == MapThenSumSet(Cap, HeldBy(u))
PaidSum(u) == MapThenSumSet(LAMBDA a : cost[a], SettledOf(u))

MoneyInv ==
  /\ IsFiniteSet(Used)
  /\ \A a \in Attempts : createdOn[a] <= day
  /\ WalletMatchesAttempts
  /\ DailyBudgetHeld

\* All of them are natural numbers.
LEMMA WeightsTyped ==
  TypeOK => \A a \in Attempts :
    /\ ExposureOf[a] \in Nat
    /\ \A u \in Users : HeldOf(u)[a] \in Int /\ PaidOf(u)[a] \in Int
    /\ \A S \in SUBSET Attempts : TodayOf(S)[a] \in Nat
<1> SUFFICES ASSUME TypeOK, NEW a \in Attempts
             PROVE  /\ ExposureOf[a] \in Nat
                    /\ \A u \in Users : HeldOf(u)[a] \in Int /\ PaidOf(u)[a] \in Int
                    /\ \A S \in SUBSET Attempts : TodayOf(S)[a] \in Nat
  OBVIOUS
<1>1. Cap(a) \in Nat /\ cost[a] \in Nat
  BY AttemptFacts DEF TypeOK
<1>2. ExposureOf[a] \in Nat
  BY <1>1 DEF ExposureOf
<1> QED
  BY <1>1, <1>2 DEF HeldOf, PaidOf, TodayOf

\* What the property says of wallets, in these names.
LEMMA WalletReads ==
  WalletMatchesAttempts <=>
    \A u \in Users : /\ wallet[u].reserved = HeldSum(u)
                     /\ wallet[u].balance = credited[u] - PaidSum(u)
  BY DEF WalletMatchesAttempts, HeldSum, PaidSum

\* These sums, over any finite set that has all the rows.
LEMMA WalletSums ==
  TypeOK => \A u \in Users, U \in SUBSET Attempts : IsFiniteSet(U) /\ Used \subseteq U =>
    HeldSum(u) = SumOf(HeldOf(u), U) /\ PaidSum(u) = SumOf(PaidOf(u), U)
<1> SUFFICES ASSUME TypeOK, NEW u \in Users, NEW U \in SUBSET Attempts, IsFiniteSet(U),
                    Used \subseteq U
             PROVE  HeldSum(u) = SumOf(HeldOf(u), U) /\ PaidSum(u) = SumOf(PaidOf(u), U)
  OBVIOUS
<1>1. /\ HeldBy(u) \in SUBSET U /\ HeldBy(u) \in SUBSET Attempts
      /\ SettledOf(u) \in SUBSET U
  BY DEF HeldBy, SettledOf, OfUser, Used, Frozen
<1>2. IsFiniteSet(HeldBy(u)) /\ IsFiniteSet(SettledOf(u))
  BY <1>1, FS_Subset
<1>3. HeldSum(u) = SumOf(CapOf, HeldBy(u))
  BY <1>1, <1>2, CapSum DEF HeldSum
<1>4. SumOf(CapOf, HeldBy(u)) = SumOf(HeldOf(u), HeldBy(u))
  <2>1. \A a \in HeldBy(u) : CapOf[a] = HeldOf(u)[a]
    BY <1>1 DEF CapOf, HeldOf, HeldBy, OfUser
  <2> QED
    BY <1>2, <2>1, SumAgrees
<1>5. SumOf(HeldOf(u), U) = SumOf(HeldOf(u), HeldBy(u))
  <2>1. /\ \A a \in U : HeldOf(u)[a] \in Int
        /\ \A a \in U \ HeldBy(u) : HeldOf(u)[a] = 0
    BY WeightsTyped DEF HeldOf, HeldBy, OfUser
  <2> QED
    BY <1>1, <2>1, SumOnlyOver
<1>6. PaidSum(u) = SumOf(cost, SettledOf(u))
  BY DEF PaidSum, MapThenSumSet, MapThenFoldSet, SumOf, IsIter, Rec, One
<1>7. SumOf(cost, SettledOf(u)) = SumOf(PaidOf(u), SettledOf(u))
  <2>1. \A a \in SettledOf(u) : cost[a] = PaidOf(u)[a]
    BY DEF PaidOf, SettledOf, OfUser
  <2> QED
    BY <1>2, <2>1, SumAgrees
<1>8. SumOf(PaidOf(u), U) = SumOf(PaidOf(u), SettledOf(u))
  <2>1. /\ \A a \in U : PaidOf(u)[a] \in Int
        /\ \A a \in U \ SettledOf(u) : PaidOf(u)[a] = 0
    BY WeightsTyped DEF PaidOf, SettledOf, OfUser
  <2> QED
    BY <1>1, <2>1, SumOnlyOver
<1> QED
  BY <1>3, <1>4, <1>5, <1>6, <1>7, <1>8

\* The rows a set of attempts has for today.
RowsToday(S) == {a \in S : status[a] # "none" /\ createdOn[a] >= day}

\* The exposure of a set of attempts is a sum over finitely many rows.
LEMMA ExposureSum ==
  TypeOK => \A S \in SUBSET Attempts : IsFiniteSet(Used) =>
    /\ IsFiniteSet(RowsToday(S))
    /\ Exposure(S) = SumOf(ExposureOf, RowsToday(S))
<1> SUFFICES ASSUME TypeOK, NEW S \in SUBSET Attempts, IsFiniteSet(Used)
             PROVE  /\ IsFiniteSet(RowsToday(S))
                    /\ Exposure(S) = SumOf(ExposureOf, RowsToday(S))
  OBVIOUS
<1> DEFINE T == RowsToday(S)
<1>1. T \in SUBSET Attempts /\ IsFiniteSet(T)
  <2>1. T \in SUBSET Used
    BY DEF RowsToday, Used
  <2> QED
    BY <2>1, FS_Subset DEF Used
<1> HIDE DEF T
<1> DEFINE Due(a) == CASE status[a] = "settled" -> cost[a]
                       [] status[a] \in Frozen  -> Cap(a)
                       [] OTHER                 -> 0
           P(g) == g = [s \in SUBSET T |-> IF s = {} THEN 0 ELSE Due(One(s)) + g[s \ {One(s)}]]
           g == CHOOSE g : P(g)
           h == CHOOSE h : IsIter(ExposureOf, T, h)
<1>2. Exposure(S) = g[T]
  BY DEF Exposure, MapThenSumSet, MapThenFoldSet, One, T, RowsToday
<1>3. ASSUME NEW f PROVE P(f) <=> IsIter(ExposureOf, T, f)
  <2>1. ASSUME NEW s \in SUBSET T
        PROVE  Rec(ExposureOf, f, s) = IF s = {} THEN 0 ELSE Due(One(s)) + f[s \ {One(s)}]
    <3>1. s # {} => One(s) \in Attempts
      BY <1>1, OneIn
    <3>2. \A a \in Attempts : ExposureOf[a] = Due(a)
      BY DEF ExposureOf
    <3> HIDE DEF Due
    <3> QED
      BY <3>1, <3>2 DEF Rec
  <2> HIDE DEF Due
  <2>2. [s \in SUBSET T |-> Rec(ExposureOf, f, s)]
          = [s \in SUBSET T |-> IF s = {} THEN 0 ELSE Due(One(s)) + f[s \ {One(s)}]]
    BY <2>1
  <2> QED
    BY <2>2 DEF IsIter
<1> HIDE DEF P
<1>4. IsIter(ExposureOf, T, h)
  BY <1>1, IterExists
<1> HIDE DEF h
<1>5. P(g)
  BY <1>3, <1>4
<1> HIDE DEF g
<1>6. IsIter(ExposureOf, T, g)
  BY <1>3, <1>5
<1>7. g[T] = h[T]
  BY <1>1, <1>4, <1>6, IterUnique
<1>8. Exposure(S) = SumOf(ExposureOf, T)
  BY <1>2, <1>7 DEF SumOf, h
<1> QED
  BY <1>1, <1>8 DEF T

\* What the gateway booked today, and that the limit compares at least as much.
LEMMA TodaySums ==
  TypeOK /\ IsFiniteSet(Used) =>
    \A S \in SUBSET Attempts, U \in SUBSET Attempts : IsFiniteSet(U) /\ Used \subseteq U =>
      /\ Exposure(S \ reconciled) = SumOf(TodayOf(S), U)
      /\ SumOf(TodayOf(S), U) <= Exposure(S)
<1> SUFFICES ASSUME TypeOK, IsFiniteSet(Used), NEW S \in SUBSET Attempts,
                    NEW U \in SUBSET Attempts, IsFiniteSet(U), Used \subseteq U
             PROVE  /\ Exposure(S \ reconciled) = SumOf(TodayOf(S), U)
                    /\ SumOf(TodayOf(S), U) <= Exposure(S)
  OBVIOUS
<1> DEFINE T == RowsToday(S)
           G == RowsToday(S \ reconciled)
           F == TodayOf(S)
<1>1. /\ T \in SUBSET U /\ G \in SUBSET U
      /\ \A a \in U : a \in Attempts /\ F[a] \in Int /\ ExposureOf[a] \in Int
      /\ \A a \in U : F[a] \in Nat /\ ExposureOf[a] \in Nat
  BY WeightsTyped DEF RowsToday, Used
<1>2. /\ \A a \in U \ G : F[a] = 0
      /\ \A a \in U \ T : F[a] = 0
      /\ \A a \in G : F[a] = ExposureOf[a]
      /\ \A a \in T : F[a] <= ExposureOf[a]
  <2>1. \A a \in U : status[a] = "none" => ExposureOf[a] = 0
    BY DEF ExposureOf, Frozen
  <2> QED
    BY <1>1, <2>1 DEF TodayOf, RowsToday
<1>3. /\ S \ reconciled \in SUBSET Attempts /\ IsFiniteSet(T) /\ IsFiniteSet(G)
  BY <1>1, FS_Subset
<1>4. /\ Exposure(S \ reconciled) = SumOf(ExposureOf, G)
      /\ Exposure(S) = SumOf(ExposureOf, T)
  BY <1>3, ExposureSum
<1> HIDE DEF T, G, F
<1>5. SumOf(F, U) = SumOf(F, G) /\ SumOf(F, U) = SumOf(F, T)
  BY <1>1, <1>2, SumOnlyOver
<1>6. SumOf(F, G) = SumOf(ExposureOf, G)
  BY <1>2, <1>3, SumAgrees
<1>7. SumOf(F, T) <= SumOf(ExposureOf, T)
  <2>1. \A a \in T : F[a] \in Int /\ ExposureOf[a] \in Int /\ F[a] <= ExposureOf[a]
    BY <1>1, <1>2
  <2> QED
    BY <1>3, <2>1, SumGrows
<1> QED
  BY <1>4, <1>5, <1>6, <1>7 DEF F

\* The weights are numbers after a step as well.
LEMMA WeightsTypedNext ==
  (TypeOK => \A a \in Attempts :
    /\ ExposureOf[a] \in Nat
    /\ \A u \in Users : HeldOf(u)[a] \in Int /\ PaidOf(u)[a] \in Int
    /\ \A S \in SUBSET Attempts : TodayOf(S)[a] \in Nat)'
  BY WeightsTyped, PTL

\* The reading of the wallets, after a step.
LEMMA WalletReadsNext ==
  (WalletMatchesAttempts <=>
    \A u \in Users : /\ wallet[u].reserved = HeldSum(u)
                     /\ wallet[u].balance = credited[u] - PaidSum(u))'
  BY WalletReads, PTL

\* The sums of the wallets, after a step.
LEMMA WalletSumsNext ==
  (TypeOK => \A u \in Users, U \in SUBSET Attempts : IsFiniteSet(U) /\ Used \subseteq U =>
    HeldSum(u) = SumOf(HeldOf(u), U) /\ PaidSum(u) = SumOf(PaidOf(u), U))'
  BY WalletSums, PTL

\* The sums of the day, after a step.
LEMMA TodaySumsNext ==
  (TypeOK /\ IsFiniteSet(Used) =>
    \A S \in SUBSET Attempts, U \in SUBSET Attempts : IsFiniteSet(U) /\ Used \subseteq U =>
      /\ Exposure(S \ reconciled) = SumOf(TodayOf(S), U)
      /\ SumOf(TodayOf(S), U) <= Exposure(S))'
  BY TodaySums, PTL

\* A step of one row changes each sum by what that row says.
LEMMA RowStepWeights ==
  ASSUME TypeOK, NEW a \in Attempts, RowStep(a), NEW u \in Users
  PROVE  /\ \A b \in Attempts \ {a} : HeldOf(u)[b] = HeldOf(u)'[b] /\ PaidOf(u)[b] = PaidOf(u)'[b]
         /\ wallet'[u].reserved = wallet[u].reserved - HeldOf(u)[a] + HeldOf(u)'[a]
         /\ wallet'[u].balance = wallet[u].balance + PaidOf(u)[a] - PaidOf(u)'[a]
<1>1. /\ Payer(a) \in Users /\ Cap(a) \in Nat /\ cost[a] \in Nat
      /\ wallet \in [Users -> [balance : Int, reserved : Int]]
      /\ wallet[u].reserved \in Int /\ wallet[u].balance \in Int
      /\ status \in [Attempts -> Statuses] /\ cost \in [Attempts -> Nat]
  BY AttemptFacts DEF TypeOK
<1> DEFINE W(v, r, p) == [v EXCEPT !.reserved = v.reserved + r, !.balance = v.balance - p]
<1>2. \E s, k : /\ status' = [status EXCEPT ![a] = s] /\ cost' = [cost EXCEPT ![a] = k]
  <2>1. status = [status EXCEPT ![a] = status[a]] /\ cost = [cost EXCEPT ![a] = cost[a]]
    BY <1>1
  <2> QED
    BY <2>1 DEF RowStep, Books, Pays, Frees, Marks, InsertReserved, SettleRow, ReleaseRow, SetStatus
<1>3. \A b \in Attempts \ {a} : status'[b] = status[b] /\ cost'[b] = cost[b]
  BY <1>1, <1>2
<1>4. \A b \in Attempts \ {a} : HeldOf(u)[b] = HeldOf(u)'[b] /\ PaidOf(u)[b] = PaidOf(u)'[b]
  BY <1>3 DEF HeldOf, PaidOf
<1>5. CASE Payer(a) # u
  <2>1. wallet'[u] = wallet[u]
    BY <1>1, <1>5 DEF RowStep, Books, Pays, Frees, Marks, InsertReserved, SettleRow, ReleaseRow,
       SetStatus
  <2>2. HeldOf(u)[a] = 0 /\ HeldOf(u)'[a] = 0 /\ PaidOf(u)[a] = 0 /\ PaidOf(u)'[a] = 0
    BY <1>5 DEF HeldOf, PaidOf
  <2> QED
    BY <1>1, <1>4, <2>1, <2>2
<1>6. CASE Payer(a) = u
  <2>0. /\ HeldOf(u)[a] = IF status[a] \in Frozen THEN Cap(a) ELSE 0
        /\ HeldOf(u)'[a] = IF status'[a] \in Frozen THEN Cap(a) ELSE 0
        /\ PaidOf(u)[a] = IF status[a] = "settled" THEN cost[a] ELSE 0
        /\ PaidOf(u)'[a] = IF status'[a] = "settled" THEN cost'[a] ELSE 0
    BY <1>6 DEF HeldOf, PaidOf
  <2>1. CASE Books(a)
    <3>1. /\ status[a] = "none" /\ status'[a] = "reserved"
          /\ wallet'[u].reserved = wallet[u].reserved + Cap(a)
          /\ wallet'[u].balance = wallet[u].balance
      BY <1>1, <1>6, <2>1 DEF Books, InsertReserved
    <3> QED
      BY <1>1, <1>4, <2>0, <3>1 DEF Frozen
  <2>2. CASE Pays(a)
    <3>1. PICK k \in Nat : SettleRow(a, k)
      BY <2>2 DEF Pays
    <3>2. /\ status[a] \in Frozen /\ status'[a] = "settled" /\ cost'[a] = k
          /\ wallet'[u].reserved = wallet[u].reserved - Cap(a)
          /\ wallet'[u].balance = wallet[u].balance - k
      BY <1>1, <1>6, <2>2, <3>1 DEF Pays, SettleRow
    <3> QED
      BY <1>1, <1>4, <2>0, <3>2 DEF Frozen
  <2>3. CASE Frees(a)
    <3>1. /\ status[a] = "reserved" /\ status'[a] = "released"
          /\ wallet'[u].reserved = wallet[u].reserved - Cap(a)
          /\ wallet'[u].balance = wallet[u].balance
      BY <1>1, <1>6, <2>3 DEF Frees, ReleaseRow
    <3> QED
      BY <1>1, <1>4, <2>0, <3>1 DEF Frozen
  <2>4. CASE Marks(a)
    <3>1. PICK s \in Statuses : /\ SetStatus(a, s)
                                /\ (s = status[a] \/ (s \in Frozen /\ status[a] \in Frozen))
      BY <2>4 DEF Marks
    <3>2. status'[a] = s /\ wallet' = wallet /\ cost' = cost
      BY <1>1, <3>1 DEF SetStatus
    <3> QED
      BY <1>1, <1>4, <2>0, <3>1, <3>2 DEF Frozen
  <2> QED
    BY <2>1, <2>2, <2>3, <2>4 DEF RowStep
<1> QED
  BY <1>5, <1>6

\* One more attempt may have a row.
LEMMA RowStepUsed ==
  ASSUME TypeOK, IsFiniteSet(Used), NEW a \in Attempts, RowStep(a)
  PROVE  /\ Used \cup {a} \in SUBSET Attempts /\ IsFiniteSet(Used \cup {a})
         /\ Used' \subseteq Used \cup {a} /\ IsFiniteSet(Used')
<1>1. \E s : status' = [status EXCEPT ![a] = s]
  BY DEF RowStep, Books, Pays, Frees, Marks, InsertReserved, SettleRow, ReleaseRow, SetStatus
<1>2. Used' \subseteq Used \cup {a}
  BY <1>1 DEF Used, TypeOK
<1>3. IsFiniteSet(Used \cup {a})
  BY FS_AddElement
<1> QED
  BY <1>2, <1>3, FS_Subset DEF Used

\* The wallets keep matching the attempts.
LEMMA RowStepWallets ==
  ASSUME TypeOK, TypeOK', MoneyInv, NEW q \in Attempts, RowStep(q)
  PROVE  WalletMatchesAttempts'
<1> SUFFICES ASSUME NEW u \in Users
             PROVE  /\ wallet'[u].reserved = HeldSum(u)'
                    /\ wallet'[u].balance = credited'[u] - PaidSum(u)'
  BY WalletReadsNext
<1> DEFINE U == Used \cup {q}
<1>1. /\ U \in SUBSET Attempts /\ IsFiniteSet(U) /\ Used' \subseteq U /\ Used \subseteq U /\ q \in U
  BY RowStepUsed DEF MoneyInv
<1> HIDE DEF U
<1>2. PICK h, p, h2, p2 : h = HeldOf(u) /\ p = PaidOf(u) /\ h2 = HeldOf(u)' /\ p2 = PaidOf(u)'
  OBVIOUS
<1>3. /\ \A b \in U : h[b] \in Int /\ p[b] \in Int /\ h2[b] \in Int /\ p2[b] \in Int
      /\ \A b \in U \ {q} : h[b] = h2[b] /\ p[b] = p2[b]
  BY <1>1, <1>2, WeightsTyped, WeightsTypedNext, RowStepWeights
<1>4. SumOf(h2, U) = SumOf(h, U) - h[q] + h2[q] /\ SumOf(p2, U) = SumOf(p, U) - p[q] + p2[q]
  BY <1>1, <1>3, SumChanges
<1>5. HeldSum(u) = SumOf(h, U) /\ PaidSum(u) = SumOf(p, U)
  BY <1>1, <1>2, WalletSums
<1>6. HeldSum(u)' = SumOf(h2, U) /\ PaidSum(u)' = SumOf(p2, U)
  BY <1>1, <1>2, WalletSumsNext
<1>7. wallet[u].reserved = HeldSum(u) /\ wallet[u].balance = credited[u] - PaidSum(u)
  BY WalletReads DEF MoneyInv
<1>8. wallet[u].reserved = SumOf(h, U) /\ wallet[u].balance = credited[u] - SumOf(p, U)
  BY <1>5, <1>7
<1>9. /\ wallet'[u].reserved = wallet[u].reserved - h[q] + h2[q]
      /\ wallet'[u].balance = wallet[u].balance + p[q] - p2[q]
      /\ credited'[u] = credited[u]
  BY <1>2, RowStepWeights DEF RowStep
<1>10. SumOf(h, U) \in Int /\ SumOf(p, U) \in Int /\ credited[u] \in Int
  BY <1>1, <1>3, SumTyped DEF TypeOK
<1>11. /\ h[q] \in Int /\ h2[q] \in Int /\ p[q] \in Int /\ p2[q] \in Int
  BY <1>1, <1>3
<1>12. wallet'[u].reserved = SumOf(h2, U) /\ wallet'[u].balance = credited'[u] - SumOf(p2, U)
  BY <1>4, <1>8, <1>9, <1>10, <1>11
<1> QED
  BY <1>6, <1>12

\* What counts today grows only by a reservation that fits the limit.
LEMMA RowStepToday ==
  ASSUME TypeOK, TypeOK', MoneyInv, NEW a \in Attempts, RowStep(a), NEW S \in SUBSET Attempts,
         NEW limit \in Nat,
         IF Books(a) /\ a \in S /\ a[1] \notin OwnKey
           THEN Exposure(S) + Cap(a) <= limit
           ELSE Exposure(S \ reconciled) <= limit
  PROVE  (Exposure(S \ reconciled) <= limit)'
<1> DEFINE U == Used \cup {a}
<1>1. /\ U \in SUBSET Attempts /\ IsFiniteSet(U) /\ Used' \subseteq U /\ Used \subseteq U /\ a \in U
      /\ IsFiniteSet(Used) /\ IsFiniteSet(Used')
  BY RowStepUsed DEF MoneyInv
<1> HIDE DEF U
<1>2. PICK f, f2 : f = TodayOf(S) /\ f2 = TodayOf(S)'
  OBVIOUS
<1>3. \A b \in U : f[b] \in Int /\ f2[b] \in Int
  <2>1. \A b \in U : f[b] \in Nat /\ f2[b] \in Nat
    BY <1>1, <1>2, WeightsTyped, WeightsTypedNext
  <2> QED
    BY <2>1
<1>4. /\ Exposure(S \ reconciled) = SumOf(f, U) /\ SumOf(f, U) <= Exposure(S)
      /\ (Exposure(S \ reconciled))' = SumOf(f2, U)
  BY <1>1, <1>2, TodaySums, TodaySumsNext
<1>5. \A b \in U \ {a} : f[b] = f2[b]
  <2>1. \E s, k, d : /\ status' = [status EXCEPT ![a] = s] /\ cost' = [cost EXCEPT ![a] = k]
                     /\ createdOn' = [createdOn EXCEPT ![a] = d]
    <3>1. /\ cost = [cost EXCEPT ![a] = cost[a]]
          /\ createdOn = [createdOn EXCEPT ![a] = createdOn[a]]
      BY DEF TypeOK
    <3> QED
      BY <3>1 DEF RowStep, Books, Pays, Frees, Marks, InsertReserved, SettleRow, ReleaseRow,
         SetStatus
  <2>2. \A b \in U \ {a} : /\ b \in Attempts /\ status'[b] = status[b] /\ cost'[b] = cost[b]
                           /\ createdOn'[b] = createdOn[b]
    BY <1>1, <2>1 DEF TypeOK
  <2>3. \A b \in U \ {a} : ExposureOf'[b] = ExposureOf[b]
    BY <2>2 DEF ExposureOf
  <2>4. \A b \in U \ {a} : (b \in reconciled') = (b \in reconciled)
    BY DEF RowStep, Books, Pays, Frees, Marks
  <2>5. day' = day
    BY DEF RowStep
  <2> QED
    BY <1>2, <2>2, <2>3, <2>4, <2>5 DEF TodayOf
<1>6. SumOf(f2, U) = SumOf(f, U) - f[a] + f2[a]
  BY <1>1, <1>3, <1>5, SumChanges
<1>7. SumOf(f, U) \in Int /\ f[a] \in Nat /\ f2[a] \in Nat /\ Cap(a) \in Nat
  <2>1. SumOf(f, U) \in Int
    BY <1>1, <1>3, SumTyped
  <2> QED
    BY <1>2, <2>1, WeightsTyped, WeightsTypedNext, AttemptFacts
<1>8. Exposure(S) \in Int
  <2>1. IsFiniteSet(RowsToday(S)) /\ Exposure(S) = SumOf(ExposureOf, RowsToday(S))
    BY <1>1, ExposureSum
  <2>2. \A b \in RowsToday(S) : ExposureOf[b] \in Int
    <3>1. \A b \in RowsToday(S) : ExposureOf[b] \in Nat
      BY WeightsTyped DEF RowsToday
    <3> QED
      BY <3>1
  <2> QED
    BY <2>1, <2>2, SumTyped
<1>9. SumOf(f, U) <= limit
  BY <1>4, <1>7, <1>8
<1>10. CASE f2[a] <= f[a]
  <2>1. SumOf(f2, U) <= limit
    BY <1>6, <1>7, <1>10, <1>9
  <2> QED
    BY <1>4, <2>1
<1>11. CASE Books(a) /\ a \in S
  <2>1. f2[a] <= Cap(a)
    <3>1. status'[a] = "reserved"
      BY <1>11 DEF Books, InsertReserved, TypeOK
    <3>2. ExposureOf'[a] = Cap(a)
      BY <3>1 DEF ExposureOf, Frozen
    <3> QED
      BY <1>2, <1>7, <3>2 DEF TodayOf
  <2>2. CASE a[1] \in OwnKey
    <3>1. f2[a] <= f[a]
      BY <1>7, <2>1, <2>2 DEF Cap
    <3> QED
      BY <1>10, <3>1
  <2>3. CASE a[1] \notin OwnKey
    <3>1. Exposure(S) + Cap(a) <= limit
      BY <1>11, <2>3
    <3>3. SumOf(f2, U) <= limit
      BY <1>4, <1>6, <1>7, <1>8, <2>1, <3>1
    <3> QED
      BY <1>4, <3>3
  <2> QED
    BY <2>2, <2>3
<1>12. CASE ~(Books(a) /\ a \in S)
  <2>0. /\ Cap(a) \in Nat /\ cost[a] \in Nat /\ day' = day
        /\ f[a] = IF a \in S /\ a \notin reconciled /\ createdOn[a] >= day
                    THEN ExposureOf[a] ELSE 0
        /\ f2[a] = IF a \in S /\ a \notin reconciled' /\ createdOn'[a] >= day
                    THEN ExposureOf'[a] ELSE 0
    BY <1>2, AttemptFacts DEF TodayOf, TypeOK, RowStep
  <2>1. CASE a \notin S
    BY <1>7, <1>10, <2>0, <2>1
  <2>2. CASE Pays(a)
    <3>1. PICK k \in Nat : /\ SettleRow(a, k)
                           /\ \/ k <= Cap(a) /\ reconciled' = reconciled
                              \/ reconciled' = reconciled \cup {a}
      BY <2>2 DEF Pays
    <3>2. /\ status'[a] = "settled" /\ cost'[a] = k /\ createdOn'[a] = createdOn[a]
          /\ status[a] \in Frozen
      BY <2>2, <3>1 DEF Pays, SettleRow, TypeOK
    <3>3. ExposureOf[a] = Cap(a) /\ ExposureOf'[a] = k
      BY <3>2 DEF ExposureOf, Frozen
    <3>4. f2[a] <= f[a]
      BY <1>7, <2>0, <3>1, <3>2, <3>3
    <3> QED
      BY <1>10, <3>4
  <2>3. CASE Frees(a)
    <3>1. status'[a] = "released"
      BY <2>3 DEF Frees, ReleaseRow, TypeOK
    <3>2. ExposureOf'[a] = 0
      BY <3>1 DEF ExposureOf, Frozen
    <3> QED
      BY <1>7, <1>10, <2>0, <3>2
  <2>4. CASE Marks(a)
    <3>1. PICK s \in Statuses : /\ SetStatus(a, s)
                                /\ s = status[a] \/ (s \in Frozen /\ status[a] \in Frozen)
      BY <2>4 DEF Marks
    <3>2. /\ status'[a] = s /\ cost' = cost /\ createdOn' = createdOn /\ reconciled' = reconciled
      BY <2>4, <3>1 DEF Marks, SetStatus, TypeOK
    <3>3. ExposureOf'[a] = ExposureOf[a]
      BY <3>1, <3>2 DEF ExposureOf, Frozen
    <3>4. f2[a] = f[a]
      BY <2>0, <3>2, <3>3
    <3> QED
      BY <1>7, <1>10, <3>4
  <2> QED
    BY <1>12, <2>1, <2>2, <2>3, <2>4 DEF RowStep
<1> QED
  BY <1>11, <1>12

\* A step of one row keeps the money right.
LEMMA RowStepMoney ==
  ASSUME TypeOK, TypeOK', MoneyInv, NEW a \in Attempts, RowStep(a)
  PROVE  MoneyInv'
<1>1. IsFiniteSet(Used')
  BY RowStepUsed DEF MoneyInv
<1>2. \A b \in Attempts : createdOn'[b] <= day'
  BY DEF MoneyInv, TypeOK, RowStep, Books, Pays, Frees, Marks, InsertReserved, SettleRow,
     ReleaseRow, SetStatus
<1>3. WalletMatchesAttempts'
  BY RowStepWallets
<1>4. DailyBudgetHeld'
  <2>1. /\ limits \in inForce /\ inForce' = inForce
        /\ \A l \in inForce : l.perUserDailyMicros \in Nat /\ l.globalDailyMicros \in Nat
    BY BillingAssumption DEF TypeOK, RowStep
  <2>2. ASSUME NEW u \in Users
        PROVE  (\E l \in inForce : Exposure(OfUser(u) \ reconciled) <= l.perUserDailyMicros)'
    <3>1. OfUser(u) \in SUBSET Attempts /\ (a \in OfUser(u) => Payer(a) = u)
      BY DEF OfUser
    <3>2. Books(a) /\ a \in OfUser(u) /\ a[1] \notin OwnKey =>
            Exposure(OfUser(u)) + Cap(a) <= limits.perUserDailyMicros
      BY <3>1 DEF Books, WithinBudget
    <3>3. PICK S \in SUBSET Attempts : S = OfUser(u)
      BY <3>1
    <3>4. PICK l \in inForce : IF Books(a) /\ a \in S /\ a[1] \notin OwnKey
                                 THEN Exposure(S) + Cap(a) <= l.perUserDailyMicros
                                 ELSE Exposure(S \ reconciled) <= l.perUserDailyMicros
      BY <2>1, <3>2, <3>3 DEF MoneyInv, DailyBudgetHeld
    <3>5. (Exposure(S \ reconciled))' <= l.perUserDailyMicros
      <4>1. PICK n \in Nat : n = l.perUserDailyMicros
        BY <2>1
      <4>2. (Exposure(S \ reconciled) <= n)'
        BY <3>4, <4>1, RowStepToday
      <4> QED
        BY <4>1, <4>2
    <3> QED
      BY <2>1, <3>3, <3>5 DEF Exposure, OfUser, Payer
  <2>3. (\E l \in inForce : Exposure(Attempts \ reconciled) <= l.globalDailyMicros)'
    <3>1. Books(a) /\ a \in Attempts /\ a[1] \notin OwnKey =>
            Exposure(Attempts) + Cap(a) <= limits.globalDailyMicros
      BY DEF Books, WithinBudget
    <3>2. PICK l \in inForce : IF Books(a) /\ a \in Attempts /\ a[1] \notin OwnKey
                                 THEN Exposure(Attempts) + Cap(a) <= l.globalDailyMicros
                                 ELSE Exposure(Attempts \ reconciled) <= l.globalDailyMicros
      BY <2>1, <3>1 DEF MoneyInv, DailyBudgetHeld
    <3>3. (Exposure(Attempts \ reconciled))' <= l.globalDailyMicros
      <4>1. PICK n \in Nat : n = l.globalDailyMicros
        BY <2>1
      <4>2. (Exposure(Attempts \ reconciled) <= n)'
        BY <3>2, <4>1, RowStepToday
      <4> QED
        BY <4>1, <4>2
    <3> QED
      BY <2>1, <3>3
  <2> QED
    BY <2>2, <2>3 DEF DailyBudgetHeld
<1> QED
  BY <1>1, <1>2, <1>3, <1>4 DEF MoneyInv

\* The weights of a state that has the same rows and the same reconciliations.
LEMMA RowsSame ==
  ASSUME TypeOK, TypeOK', UNCHANGED <<status, cost, createdOn, reconciled>>
  PROVE  /\ Used' = Used
         /\ \A u \in Users : HeldOf(u)' = HeldOf(u) /\ PaidOf(u)' = PaidOf(u)
         /\ day' = day => \A S : TodayOf(S)' = TodayOf(S)
BY DEF Used, HeldOf, PaidOf, TodayOf, ExposureOf

\* A step that moves no row keeps the sums; at midnight nothing counts any more.
LEMMA NoRowMoney ==
  ASSUME TypeOK, TypeOK', MoneyInv, UNCHANGED <<status, cost, createdOn, reconciled>>,
         \/ day' = day /\ inForce \subseteq inForce'
         \/ day' = day + 1,
         \A u \in Users :
           /\ wallet'[u].reserved = wallet[u].reserved
           /\ wallet'[u].balance - credited'[u] = wallet[u].balance - credited[u]
  PROVE  MoneyInv'
<1>1. /\ Used' = Used /\ Used \in SUBSET Attempts /\ IsFiniteSet(Used)
      /\ \A u \in Users : HeldOf(u)' = HeldOf(u) /\ PaidOf(u)' = PaidOf(u)
      /\ day' = day => \A S : TodayOf(S)' = TodayOf(S)
  BY RowsSame DEF MoneyInv, Used
<1>2. PICK U \in SUBSET Attempts : U = Used
  BY <1>1
<1>3. IsFiniteSet(U) /\ Used \subseteq U /\ Used' \subseteq U /\ IsFiniteSet(Used')
  BY <1>1, <1>2
<1>4. WalletMatchesAttempts'
  <2> SUFFICES ASSUME NEW u \in Users
               PROVE  /\ wallet'[u].reserved = HeldSum(u)'
                      /\ wallet'[u].balance = credited'[u] - PaidSum(u)'
    BY WalletReadsNext
  <2>1. PICK h, p : h = HeldOf(u) /\ p = PaidOf(u) /\ h = HeldOf(u)' /\ p = PaidOf(u)'
    BY <1>1
  <2>2. /\ HeldSum(u) = SumOf(h, U) /\ PaidSum(u) = SumOf(p, U)
        /\ HeldSum(u)' = SumOf(h, U) /\ PaidSum(u)' = SumOf(p, U)
    BY <1>3, <2>1, WalletSums, WalletSumsNext
  <2>3. wallet[u].reserved = HeldSum(u) /\ wallet[u].balance = credited[u] - PaidSum(u)
    BY WalletReads DEF MoneyInv
  <2>4. SumOf(p, U) \in Int
    <3>1. \A a \in U : p[a] \in Int
      BY <2>1, WeightsTyped
    <3> QED
      BY <1>3, <3>1, SumTyped
  <2>5. /\ wallet[u].balance \in Int /\ wallet'[u].balance \in Int
        /\ credited[u] \in Int /\ credited'[u] \in Int
    BY DEF TypeOK
  <2>6. wallet'[u].balance = credited'[u] - SumOf(p, U)
    BY <2>2, <2>3, <2>4, <2>5
  <2> QED
    BY <2>2, <2>3, <2>6
<1>5. ASSUME NEW S \in SUBSET Attempts
      PROVE  (Exposure(S \ reconciled))' = IF day' = day THEN Exposure(S \ reconciled) ELSE 0
  <2>1. PICK f2 : f2 = TodayOf(S)'
    OBVIOUS
  <2>2. /\ Exposure(S \ reconciled) = SumOf(TodayOf(S), U)
        /\ (Exposure(S \ reconciled))' = SumOf(f2, U)
    BY <1>1, <1>3, <2>1, TodaySums, TodaySumsNext
  <2>3. CASE day' = day
    <3>1. f2 = TodayOf(S)
      BY <1>1, <2>1, <2>3
    <3> QED
      BY <2>2, <2>3, <3>1
  <2>4. CASE day' = day + 1
    <3>1. \A a \in U : f2[a] \in Int /\ f2[a] = 0
      <4>1. \A a \in U : ~(createdOn'[a] >= day')
        BY <2>4 DEF MoneyInv, TypeOK
      <4> QED
        BY <2>1, <4>1 DEF TodayOf
    <3>2. SumOf(f2, U) = SumOf(f2, {})
      BY <1>3, <3>1, SumOnlyOver
    <3>3. SumOf(f2, U) = 0
      BY <3>2, SumOfNone
    <3>4. day' # day
      BY <2>4 DEF TypeOK
    <3> QED
      BY <2>2, <3>3, <3>4
  <2> QED
    BY <2>3, <2>4
<1>6. ASSUME NEW S \in SUBSET Attempts, NEW l \in inForce
      PROVE  \E m \in inForce' :
               /\ Exposure(S \ reconciled) <= l.perUserDailyMicros =>
                    (Exposure(S \ reconciled))' <= m.perUserDailyMicros
               /\ Exposure(S \ reconciled) <= l.globalDailyMicros =>
                    (Exposure(S \ reconciled))' <= m.globalDailyMicros
  <2>1. CASE day' = day
    <3>1. (Exposure(S \ reconciled))' = Exposure(S \ reconciled)
      BY <1>5, <2>1
    <3>2. l \in inForce'
      BY <2>1 DEF TypeOK
    <3> QED
      BY <3>1, <3>2
  <2>2. CASE day' = day + 1
    <3>1. (Exposure(S \ reconciled))' = 0
      <4>1. day' # day
        BY <2>2 DEF TypeOK
      <4> QED
        BY <1>5, <4>1
    <3>2. PICK m \in inForce' : m = limits'
      BY DEF TypeOK
    <3>3. m.perUserDailyMicros \in Nat /\ m.globalDailyMicros \in Nat
      BY BillingAssumption DEF TypeOK
    <3>4. 0 <= m.perUserDailyMicros /\ 0 <= m.globalDailyMicros
      BY <3>3
    <3> QED
      BY <3>1, <3>4
  <2> QED
    BY <2>1, <2>2
<1>7. DailyBudgetHeld'
  <2>1. ASSUME NEW u \in Users
        PROVE  (\E l \in inForce : Exposure(OfUser(u) \ reconciled) <= l.perUserDailyMicros)'
    <3>1. PICK S \in SUBSET Attempts : S = OfUser(u)
      BY DEF OfUser
    <3>2. \E l \in inForce : Exposure(S \ reconciled) <= l.perUserDailyMicros
      BY <3>1 DEF MoneyInv, DailyBudgetHeld
    <3>3. \E l \in inForce' : (Exposure(S \ reconciled))' <= l.perUserDailyMicros
      BY <1>6, <3>2
    <3> QED
      BY <3>1, <3>3 DEF Exposure, OfUser, Payer
  <2>2. (\E l \in inForce : Exposure(Attempts \ reconciled) <= l.globalDailyMicros)'
    <3>1. PICK S \in SUBSET Attempts : S = Attempts
      OBVIOUS
    <3>2. \E l \in inForce : Exposure(S \ reconciled) <= l.globalDailyMicros
      BY <3>1 DEF MoneyInv, DailyBudgetHeld
    <3>3. \E l \in inForce' : (Exposure(S \ reconciled))' <= l.globalDailyMicros
      BY <1>6, <3>2
    <3> QED
      BY <3>1, <3>3 DEF Exposure, Attempts
  <2> QED
    BY <2>1, <2>2 DEF DailyBudgetHeld
<1>8. \A a \in Attempts : createdOn'[a] <= day'
  BY DEF MoneyInv, TypeOK
<1> QED
  BY <1>3, <1>4, <1>7, <1>8 DEF MoneyInv

\* With no rows nothing is held, nothing was paid and nothing counts.
LEMMA InitMoney == Init => MoneyInv
<1> SUFFICES ASSUME Init PROVE MoneyInv
  OBVIOUS
<1>1. TypeOK
  BY InitIInv DEF IInv
<1>2. Used = {} /\ IsFiniteSet(Used)
  BY FS_EmptySet DEF Init, Used
<1>3. /\ \A u \in Users : HeldSum(u) = 0 /\ PaidSum(u) = 0
      /\ \A S \in SUBSET Attempts : Exposure(S \ reconciled) = 0
  <2>1. PICK U \in SUBSET Attempts : U = {} /\ IsFiniteSet(U) /\ Used \subseteq U
    BY <1>2
  <2> QED
    BY <1>1, <1>2, <2>1, WalletSums, TodaySums, SumOfNone
<1>4. WalletMatchesAttempts
  <2>1. \A u \in Users : /\ wallet[u].reserved = HeldSum(u)
                         /\ wallet[u].balance = credited[u] - PaidSum(u)
    BY <1>3, BillingAssumption DEF Init
  <2> QED
    BY <2>1, WalletReads
<1>5. DailyBudgetHeld
  <2>1. \A u \in Users : OfUser(u) \in SUBSET Attempts
    BY DEF OfUser
  <2>2. /\ limits \in inForce
        /\ limits.perUserDailyMicros \in Nat /\ limits.globalDailyMicros \in Nat
    BY <1>1, BillingAssumption DEF TypeOK
  <2> QED
    BY <1>3, <2>1, <2>2 DEF DailyBudgetHeld
<1>6. \A a \in Attempts : createdOn[a] <= day
  BY DEF Init
<1> QED
  BY <1>2, <1>4, <1>5, <1>6 DEF MoneyInv

\* Every step keeps the money right.
LEMMA NextMoney == IInv /\ IInv' /\ MoneyInv /\ [Next]_vars => MoneyInv'
<1> SUFFICES ASSUME IInv, IInv', MoneyInv, [Next]_vars PROVE MoneyInv'
  OBVIOUS
<1>1. TypeOK /\ TypeOK'
  BY DEF IInv
<1>2. CASE \E a \in Attempts : RowStep(a)
  BY <1>1, <1>2, RowStepMoney
<1>3. CASE \/ NoRow
           \/ \E c \in Calls : Transmit(c)
  <2>1. /\ UNCHANGED <<status, cost, createdOn, reconciled, wallet, credited>>
        /\ \/ day' = day /\ inForce \subseteq inForce'
           \/ day' = day + 1
    BY <1>3 DEF NoRow, Transmit, rows, admin
  <2> QED
    BY <1>1, <2>1, NoRowMoney
<1>4. ASSUME NEW u \in Users, NEW d \in TopUps, AdjustBalance(u, d) PROVE MoneyInv'
  <2>1. UNCHANGED <<status, cost, createdOn, reconciled>> /\ day' = day /\ inForce' = inForce
    BY <1>4 DEF AdjustBalance, world
  <2>2. ASSUME NEW v \in Users
        PROVE  /\ wallet'[v].reserved = wallet[v].reserved
               /\ wallet'[v].balance - credited'[v] = wallet[v].balance - credited[v]
    <3>1. /\ wallet[v].balance \in Int /\ credited[v] \in Int /\ d \in Int
          /\ wallet \in [Users -> [balance : Int, reserved : Int]] /\ credited \in [Users -> Int]
      BY <1>1, BillingAssumption DEF TypeOK
    <3>2. /\ wallet' = [wallet EXCEPT ![u].balance = wallet[u].balance + d]
          /\ credited' = [credited EXCEPT ![u] = credited[u] + d]
      BY <1>4 DEF AdjustBalance
    <3>3. CASE v = u
      <4>1. /\ wallet'[v].balance = wallet[v].balance + d /\ credited'[v] = credited[v] + d
            /\ wallet'[v].reserved = wallet[v].reserved
        BY <3>1, <3>2, <3>3
      <4> QED
        BY <3>1, <4>1
    <3>4. CASE v # u
      BY <3>1, <3>2, <3>4
    <3> QED
      BY <3>3, <3>4
  <2> QED
    BY <1>1, <2>1, <2>2, NoRowMoney
<1> QED
  BY <1>2, <1>3, <1>4, NextRow

\* The invariant of the money holds in every reachable state.
THEOREM MoneyInvariant == Spec => []MoneyInv
<1>1. Init => MoneyInv
  BY InitMoney
<1>2. IInv /\ IInv' /\ MoneyInv /\ [Next]_vars => MoneyInv'
  BY NextMoney
<1> QED
  BY <1>1, <1>2, BillingInvariant, PTL DEF Spec

\* Wallet rows and attempt rows never drift apart: what is frozen is the sum of the
\* open reservations, and the balance is what was credited less what was charged.
THEOREM BillingWalletMatches == Spec => []WalletMatchesAttempts
<1>1. MoneyInv => WalletMatchesAttempts
  BY DEF MoneyInv
<1> QED
  BY <1>1, MoneyInvariant, PTL

\* What the gateway charges and freezes in a day stays within the loosest of the limits
\* of that day, for an account and for all, whatever an administrator sets and when.
THEOREM BillingDailyBudgetHeld == Spec => []DailyBudgetHeld
<1>1. MoneyInv => DailyBudgetHeld
  BY DEF MoneyInv
<1> QED
  BY <1>1, MoneyInvariant, PTL
=============================================================================
