-------------------------- MODULE PaidCallsProofs ---------------------------
(***************************************************************************)
(* Safety of the two components that keep calls of paid providers in       *)
(* bounds: GatewayAdmission, for any number of accounts, callers and       *)
(* limits, and Badges, for any set of badges and services.                 *)
(*                                                                         *)
(* For Badges the invariant says what a service knows of the claim it      *)
(* holds (Held): one that is about to send has a claim that has not        *)
(* lapsed, and then no request for that badge is open.                     *)
(***************************************************************************)
EXTENDS GatewayAdmission, Badges, FiniteSetTheorems, SequenceTheorems, TLAPS

\* The inductive invariant: the counters are right, pictures come one at a time, the
\* queue is in step with the stages, and a loop runs only when it may.
AdmissionInv ==
  /\ TypeOK /\ SlotsMatch /\ QueueHoldsTheWaiting /\ NoLostWakeup /\ BannedIsAborted
  /\ activeImages <= 1
  /\ draining => ~paused /\ evicting = Nobody

-----------------------------------------------------------------------------
(* Slots. *)

SlotsOf(u) == {c \in Holders : Owner[c] = u}

\* The sets the counters count are finite.
LEMMA HoldersFinite ==
  /\ Holders \subseteq Calls /\ IsFiniteSet(Holders) /\ IsFiniteSet(Holders \cap Images)
  /\ \A u \in Users : IsFiniteSet(SlotsOf(u))
<1>1. Holders \subseteq Calls /\ Holders \cap Images \subseteq Calls
  BY DEF Holders
<1>2. \A u \in Users : SlotsOf(u) \subseteq Calls
  BY DEF Holders, SlotsOf
<1> QED
  BY <1>1, <1>2, AdmissionAssumption, FS_Subset

\* A call that is granted a slot raises its counters by one.
LEMMA TakeSlot ==
  ASSUME TypeOK, SlotsMatch, NEW c \in Calls, c \notin Holders,
         Holders' = Holders \cup {c},
         active' = active + 1,
         activeImages' = activeImages + (IF c \in Images THEN 1 ELSE 0),
         activeUsers' = [activeUsers EXCEPT ![Owner[c]] = @ + 1]
  PROVE  SlotsMatch'
<1>1. Cardinality(Holders') = Cardinality(Holders) + 1
  BY HoldersFinite, FS_AddElement
<1>2. Cardinality(Holders' \cap Images)
        = Cardinality(Holders \cap Images) + (IF c \in Images THEN 1 ELSE 0)
  <2>1. CASE c \in Images
    <3>1. Holders' \cap Images = (Holders \cap Images) \cup {c}
      BY <2>1
    <3>2. Cardinality((Holders \cap Images) \cup {c}) = Cardinality(Holders \cap Images) + 1
      <4>1. c \notin Holders \cap Images
        OBVIOUS
      <4> QED
        BY <4>1, HoldersFinite, FS_AddElement
    <3>3. Cardinality(Holders' \cap Images) = Cardinality(Holders \cap Images) + 1
      BY <3>1, <3>2, Zenon
    <3> QED
      BY <2>1, <3>3, Zenon
  <2>2. CASE c \notin Images
    <3>1. Holders' \cap Images = Holders \cap Images
      BY <2>2
    <3>2. Cardinality(Holders \cap Images) \in Nat
      BY HoldersFinite, FS_CardinalityType
    <3>3. Cardinality(Holders' \cap Images) = Cardinality(Holders \cap Images)
      BY <3>1, Zenon
    <3> QED
      BY <2>2, <3>2, <3>3
  <2> QED
    BY <2>1, <2>2
<1>3. ASSUME NEW u \in Users
      PROVE  activeUsers'[u] = Cardinality({d \in Holders' : Owner[d] = u})
  <2>1. CASE u = Owner[c]
    <3>1. {d \in Holders' : Owner[d] = u} = SlotsOf(u) \cup {c}
      BY <2>1 DEF SlotsOf
    <3>2. Cardinality(SlotsOf(u) \cup {c}) = Cardinality(SlotsOf(u)) + 1
      BY HoldersFinite, FS_AddElement DEF SlotsOf
    <3> QED
      BY <2>1, <3>1, <3>2 DEF TypeOK, SlotsMatch, SlotsOf
  <2>2. CASE u # Owner[c]
    <3>1. {d \in Holders' : Owner[d] = u} = SlotsOf(u)
      BY <2>2 DEF SlotsOf
    <3> QED
      BY <2>2, <3>1 DEF TypeOK, SlotsMatch, SlotsOf
  <2> QED
    BY <2>1, <2>2
<1> QED
  BY <1>1, <1>2, <1>3 DEF SlotsMatch

\* A call that gives its slot back lowers them by one.
LEMMA FreeSlot ==
  ASSUME TypeOK, SlotsMatch, NEW c \in Holders,
         Holders' = Holders \ {c},
         active' = active - 1,
         activeImages' = activeImages - (IF c \in Images THEN 1 ELSE 0),
         activeUsers' = [activeUsers EXCEPT ![Owner[c]] = @ - 1]
  PROVE  SlotsMatch' /\ active' \in Nat /\ activeImages' \in Nat
         /\ activeUsers' \in [Users -> Nat]
<1>1. Cardinality(Holders') = Cardinality(Holders) - 1 /\ Cardinality(Holders') \in Nat
  BY HoldersFinite, FS_RemoveElement, FS_CardinalityType, FS_Subset
<1>2. /\ Cardinality(Holders' \cap Images)
           = Cardinality(Holders \cap Images) - (IF c \in Images THEN 1 ELSE 0)
      /\ Cardinality(Holders' \cap Images) \in Nat
  <2>1. CASE c \in Images
    <3>1. Holders' \cap Images = (Holders \cap Images) \ {c} /\ c \in Holders \cap Images
      BY <2>1
    <3> DEFINE P == Holders \cap Images
    <3>2. IsFiniteSet(P)
      BY HoldersFinite
    <3> HIDE DEF P
    <3>3. IsFiniteSet(P \ {c}) /\ (c \in P => Cardinality(P \ {c}) = Cardinality(P) - 1)
      BY <3>2, FS_RemoveElement
    <3>4. Cardinality(P \ {c}) \in Nat
      BY <3>3, FS_CardinalityType
    <3> QED
      BY <2>1, <3>1, <3>3, <3>4 DEF P
  <2>2. CASE c \notin Images
    <3>1. Holders' \cap Images = Holders \cap Images
      BY <2>2
    <3>2. Cardinality(Holders \cap Images) \in Nat
      BY HoldersFinite, FS_CardinalityType
    <3> QED
      BY <2>2, <3>1, <3>2
  <2> QED
    BY <2>1, <2>2
<1>3. ASSUME NEW u \in Users
      PROVE  /\ activeUsers'[u] = Cardinality({d \in Holders' : Owner[d] = u})
             /\ activeUsers'[u] \in Nat
  <2>1. CASE u = Owner[c]
    <3>1. {d \in Holders' : Owner[d] = u} = SlotsOf(u) \ {c} /\ c \in SlotsOf(u)
      BY <2>1 DEF SlotsOf
    <3>2. /\ Cardinality(SlotsOf(u) \ {c}) = Cardinality(SlotsOf(u)) - 1
          /\ Cardinality(SlotsOf(u) \ {c}) \in Nat
      BY <3>1, HoldersFinite, FS_RemoveElement, FS_CardinalityType
    <3> QED
      BY <2>1, <3>1, <3>2 DEF TypeOK, SlotsMatch, SlotsOf
  <2>2. CASE u # Owner[c]
    <3>1. {d \in Holders' : Owner[d] = u} = SlotsOf(u)
      BY <2>2 DEF SlotsOf
    <3> QED
      BY <2>2, <3>1 DEF TypeOK, SlotsMatch, SlotsOf
  <2> QED
    BY <2>1, <2>2
<1> QED
  BY <1>1, <1>2, <1>3 DEF SlotsMatch, TypeOK

-----------------------------------------------------------------------------
(* The queue. *)

\* What RemoveAt does to a sequence.
LEMMA RemoveAtElements ==
  ASSUME NEW q \in Seq(Calls), NEW i \in 1 .. Len(q)
  PROVE  /\ RemoveAt(q, i) \in Seq(Calls) /\ Len(RemoveAt(q, i)) = Len(q) - 1
         /\ \A j \in 1 .. Len(q) - 1 :
              RemoveAt(q, i)[j] = IF j < i THEN q[j] ELSE q[j + 1]
<1> DEFINE front == SubSeq(q, 1, i - 1)
           rest  == SubSeq(q, i + 1, Len(q))
<1>1. i \in Nat /\ Len(q) \in Nat /\ 1 <= i /\ i <= Len(q)
  BY LenProperties
<1>2. /\ front \in Seq(Calls) /\ Len(front) = i - 1
      /\ \A j \in 1 .. i - 1 : front[j] = q[j]
  BY <1>1, SubSeqProperties
<1>3. /\ rest \in Seq(Calls) /\ Len(rest) = Len(q) - i
      /\ \A j \in 1 .. Len(q) - i : rest[j] = q[i + j]
  BY <1>1, SubSeqProperties
<1> HIDE DEF front, rest
<1>4. /\ front \o rest \in Seq(Calls) /\ Len(front \o rest) = Len(q) - 1
      /\ \A j \in 1 .. Len(q) - 1 :
           (front \o rest)[j] = IF j <= i - 1 THEN front[j] ELSE rest[j - (i - 1)]
  <2>1. /\ front \o rest \in Seq(Calls) /\ Len(front \o rest) = Len(front) + Len(rest)
        /\ \A j \in 1 .. Len(front) + Len(rest) :
             (front \o rest)[j] = IF j <= Len(front) THEN front[j] ELSE rest[j - Len(front)]
    BY <1>2, <1>3, ConcatProperties, Zenon
  <2>2. Len(front) + Len(rest) = Len(q) - 1 /\ Len(front) = i - 1
    BY <1>1, <1>2, <1>3
  <2> QED
    BY <2>1, <2>2, Zenon
<1>5. ASSUME NEW j \in 1 .. Len(q) - 1
      PROVE  (front \o rest)[j] = IF j < i THEN q[j] ELSE q[j + 1]
  <2>1. CASE j < i
    BY <1>1, <1>2, <1>4, <2>1
  <2>2. CASE j >= i
    <3>1. j - (i - 1) \in 1 .. Len(q) - i /\ i + (j - (i - 1)) = j + 1
      BY <1>1, <2>2
    <3> QED
      <4>1. (front \o rest)[j] = rest[j - (i - 1)]
        BY <1>1, <1>4, <2>2
      <4>2. rest[j - (i - 1)] = q[j + 1]
        BY <1>3, <3>1, Zenon
      <4> QED
        BY <1>1, <2>2, <4>1, <4>2
  <2>3. j < i \/ j >= i
    BY <1>1
  <2> QED
    BY <2>1, <2>2, <2>3, Zenon
<1> QED
  BY <1>4, <1>5 DEF RemoveAt, front, rest

\* Taking a call out of the queue when it stops waiting keeps the others in it.
LEMMA LeaveKeepsQueue ==
  ASSUME TypeOK, QueueHoldsTheWaiting, NEW i \in DOMAIN queue,
         NEW s \in {"idle", "granted"},
         queue' = RemoveAt(queue, i), stage' = [stage EXCEPT ![queue[i]] = s]
  PROVE  QueueHoldsTheWaiting' /\ queue' \in Seq(Calls)
<1>1. i \in 1 .. Len(queue) /\ Len(queue) \in Nat /\ queue \in Seq(Calls)
  BY DEF TypeOK
<1>2. /\ queue' \in Seq(Calls) /\ Len(queue') = Len(queue) - 1
      /\ \A j \in 1 .. Len(queue) - 1 :
           queue'[j] = IF j < i THEN queue[j] ELSE queue[j + 1]
  BY <1>1, RemoveAtElements
<1>3. DOMAIN queue = 1 .. Len(queue) /\ DOMAIN queue' = 1 .. Len(queue) - 1
  BY <1>1, <1>2
<1>4. \A j, k \in DOMAIN queue' : queue'[j] = queue'[k] => j = k
  <2> TAKE j, k \in DOMAIN queue'
  <2> DEFINE Stands(n) == IF n < i THEN n ELSE n + 1
  <2>1. /\ j \in Int /\ k \in Int /\ Stands(j) \in DOMAIN queue /\ Stands(k) \in DOMAIN queue
        /\ queue'[j] = queue[Stands(j)] /\ queue'[k] = queue[Stands(k)]
    BY <1>1, <1>2, <1>3
  <2>2. queue'[j] = queue'[k] => Stands(j) = Stands(k)
    <3> HIDE DEF Stands
    <3>1. \A m, n \in DOMAIN queue : queue[m] = queue[n] => m = n
      BY DEF QueueHoldsTheWaiting
    <3> QED
      BY ONLY <2>1, <3>1
  <2>3. j \in Int /\ k \in Int /\ i \in Int
    BY <1>1, <2>1
  <2>4. Stands(j) = Stands(k) => j = k
    BY ONLY <2>3
  <2> QED
    BY <2>2, <2>4
<1>5. \A j \in DOMAIN queue : j # i => \E k \in DOMAIN queue' : queue'[k] = queue[j]
  <2> TAKE j \in DOMAIN queue
  <2> HAVE j # i
  <2>1. CASE j < i
    BY <1>1, <1>2, <1>3, <2>1
  <2>2. CASE j > i
    <3>1. j - 1 \in DOMAIN queue' /\ queue'[j - 1] = queue[j]
      BY <1>1, <1>2, <1>3, <2>2
    <3> QED
      BY <3>1
  <2> QED
    BY <1>1, <1>3, <2>1, <2>2
<1>6. \A k \in DOMAIN queue' : queue'[k] # queue[i] /\ \E j \in DOMAIN queue : queue'[k] = queue[j]
  <2> TAKE k \in DOMAIN queue'
  <2> DEFINE at == IF k < i THEN k ELSE k + 1
  <2>1. at \in DOMAIN queue /\ at # i /\ queue'[k] = queue[at]
    BY <1>1, <1>2, <1>3
  <2> QED
    BY <2>1 DEF QueueHoldsTheWaiting
<1>7. ASSUME NEW c \in Calls
      PROVE  stage'[c] = "queued" <=> \E k \in DOMAIN queue' : queue'[k] = c
  <2>1. CASE c = queue[i]
    BY <1>6, <2>1 DEF TypeOK
  <2>2. CASE c # queue[i]
    <3>1. stage'[c] = stage[c]
      BY <2>2 DEF TypeOK
    <3> QED
      BY <1>5, <1>6, <2>2, <3>1 DEF QueueHoldsTheWaiting
  <2> QED
    BY <2>1, <2>2
<1> QED
  BY <1>2, <1>4, <1>7 DEF QueueHoldsTheWaiting

\* A new call at the end of the queue.
LEMMA EnterKeepsQueue ==
  ASSUME TypeOK, QueueHoldsTheWaiting, NEW c \in Calls, stage[c] = "idle",
         queue' = Append(queue, c), stage' = [stage EXCEPT ![c] = "queued"]
  PROVE  QueueHoldsTheWaiting' /\ queue' \in Seq(Calls)
<1>1. /\ queue' \in Seq(Calls) /\ Len(queue') = Len(queue) + 1 /\ Len(queue) \in Nat
      /\ \A i \in 1 .. Len(queue) : queue'[i] = queue[i]
      /\ queue'[Len(queue) + 1] = c
  BY AppendProperties DEF TypeOK
<1>2. DOMAIN queue = 1 .. Len(queue) /\ DOMAIN queue' = 1 .. Len(queue) + 1
  BY <1>1 DEF TypeOK
<1>3. \A i \in DOMAIN queue : queue[i] # c
  BY DEF QueueHoldsTheWaiting, TypeOK
<1>4. \A i, j \in DOMAIN queue' : queue'[i] = queue'[j] => i = j
  BY <1>1, <1>2, <1>3 DEF QueueHoldsTheWaiting
<1>5. ASSUME NEW d \in Calls
      PROVE  stage'[d] = "queued" <=> \E i \in DOMAIN queue' : queue'[i] = d
  <2>1. CASE d = c
    <3>1. Len(queue) + 1 \in DOMAIN queue'
      BY <1>1, <1>2
    <3> QED
      BY <1>1, <2>1, <3>1 DEF TypeOK
  <2>2. CASE d # c
    <3>1. stage'[d] = stage[d]
      BY <2>2 DEF TypeOK
    <3>2. \A i \in DOMAIN queue' : queue'[i] = d => i \in DOMAIN queue /\ queue[i] = d
      BY <1>1, <1>2, <2>2
    <3>3. \A i \in DOMAIN queue : i \in DOMAIN queue' /\ queue'[i] = queue[i]
      BY <1>1, <1>2
    <3> QED
      BY <3>1, <3>2, <3>3 DEF QueueHoldsTheWaiting
  <2> QED
    BY <2>1, <2>2
<1> QED
  BY <1>1, <1>4, <1>5 DEF QueueHoldsTheWaiting

-----------------------------------------------------------------------------
(* The invariant holds initially and every step keeps it. *)

\* An idle gateway satisfies the invariant.
LEMMA InitAdmission == Init => AdmissionInv
<1> SUFFICES ASSUME Init PROVE AdmissionInv
  OBVIOUS
<1>1. Holders = {} /\ DOMAIN queue = {}
  BY DEF Init, Holders
<1>2. SlotsMatch
  <2>1. Cardinality({}) = 0
    BY FS_EmptySet
  <2>2. Holders \cap Images = {} /\ \A u \in Users : {c \in Holders : Owner[c] = u} = {}
    BY <1>1
  <2> QED
    BY <1>1, <2>1, <2>2 DEF SlotsMatch, Init
<1>3. QueueHoldsTheWaiting
  BY <1>1 DEF QueueHoldsTheWaiting, Init
<1>4. TypeOK
  <2>1. queue \in Seq(Calls)
    BY EmptySeq DEF Init
  <2> QED
    BY <2>1 DEF TypeOK, Init
<1> QED
  BY <1>2, <1>3, <1>4 DEF AdmissionInv, NoLostWakeup, BannedIsAborted, Init

\* The counters stay right when the calls that hold a slot stay the same.
LEMMA SlotsStay ==
  ASSUME SlotsMatch, Holders' = Holders, UNCHANGED counters
  PROVE  SlotsMatch'
BY DEF SlotsMatch, counters

\* A call enters the queue.
LEMMA AcquireStep ==
  ASSUME AdmissionInv, NEW c \in Calls, Acquire(c)
  PROVE  AdmissionInv'
<1> USE DEF AdmissionInv, Acquire, SetStage, store, counters, Turn
<1>1. QueueHoldsTheWaiting' /\ queue' \in Seq(Calls)
  BY EnterKeepsQueue
<1>2. Holders' = Holders
  BY DEF Holders, TypeOK
<1>3. SlotsMatch'
  BY <1>2, SlotsStay
<1>4. TypeOK'
  BY <1>1 DEF TypeOK
<1> QED
  BY <1>1, <1>3, <1>4 DEF NoLostWakeup, BannedIsAborted, TypeOK

\* The loop of drain() grants a slot.
LEMMA GrantStep ==
  ASSUME AdmissionInv, NEW i \in DOMAIN queue, Grant(i)
  PROVE  AdmissionInv'
<1> DEFINE c == queue[i]
<1> USE DEF AdmissionInv, Grant, SetStage, store, loops
<1>1. c \in Calls /\ stage[c] = "queued"
  <2>1. c \in Calls
    BY DEF TypeOK
  <2> QED
    BY <2>1 DEF QueueHoldsTheWaiting
<1>2. QueueHoldsTheWaiting' /\ queue' \in Seq(Calls)
  BY LeaveKeepsQueue
<1>3. Holders' = Holders \cup {c} /\ c \notin Holders
  BY <1>1 DEF Holders, TypeOK
<1>4. SlotsMatch'
  BY <1>1, <1>3, TakeSlot
<1>5. TypeOK' /\ activeImages' <= 1
  <2>1. activeUsers' \in [Users -> Nat]
    <3>1. activeUsers \in [Users -> Nat] /\ Owner[c] \in Users
      BY <1>1, AdmissionAssumption DEF TypeOK
    <3>2. activeUsers' = [activeUsers EXCEPT ![Owner[c]] = activeUsers[Owner[c]] + 1]
      OBVIOUS
    <3> HIDE DEF c, Grant
    <3> QED
      BY <3>1, <3>2
  <2>2. active' \in Nat /\ activeImages' \in Nat /\ activeImages' <= 1
    BY DEF TypeOK, Eligible
  <2> QED
    BY <1>1, <1>2, <2>1, <2>2 DEF TypeOK
<1>6. BannedIsAborted'
  BY <1>1 DEF BannedIsAborted, TypeOK
<1> QED
  BY <1>2, <1>4, <1>5, <1>6 DEF NoLostWakeup

\* The loop of drain() ends: if somebody still waits, somebody is active.
LEMMA DrainEndsStep ==
  ASSUME AdmissionInv, DrainEnds
  PROVE  AdmissionInv'
<1> USE DEF AdmissionInv, DrainEnds, store, counters
<1>1. TypeOK' /\ QueueHoldsTheWaiting' /\ BannedIsAborted'
  BY DEF TypeOK, QueueHoldsTheWaiting, BannedIsAborted
<1>2. SlotsMatch'
  <2>1. Holders' = Holders
    BY DEF Holders
  <2> QED
    BY <2>1, SlotsStay
<1>3. ASSUME queue # <<>> PROVE active > 0
  <2>1. limits.global > 0 /\ limits.perUser > 0
    BY AdmissionAssumption DEF TypeOK
  <2>2. CASE active >= limits.global
    BY <2>1, <2>2, AdmissionAssumption DEF TypeOK
  <2>3. CASE \A i \in DOMAIN queue : ~Eligible(queue[i])
    <3>1. 1 \in DOMAIN queue /\ queue[1] \in Calls
      BY <1>3 DEF TypeOK
    <3> DEFINE c == queue[1]
    <3>2. activeUsers[Owner[c]] > 0 \/ activeImages > 0
      BY <2>1, <2>3, <3>1, AdmissionAssumption DEF Eligible, TypeOK
    <3>3. Holders # {}
      <4>1. CASE Holders = {}
        <5>1. Holders \cap Images = {} /\ {d \in Holders : Owner[d] = Owner[c]} = {}
          BY <4>1
        <5>2. activeImages = 0 /\ activeUsers[Owner[c]] = 0
          BY <3>1, <5>1, FS_EmptySet, AdmissionAssumption DEF SlotsMatch
        <5> QED
          BY <3>2, <5>2
      <4> QED
        BY <4>1
    <3> QED
      BY <3>3, HoldersFinite, FS_EmptySet DEF SlotsMatch, TypeOK
  <2> QED
    BY <2>2, <2>3
<1> QED
  BY <1>1, <1>2, <1>3 DEF NoLostWakeup

\* A granted call starts; if its account is banned it does not.
LEMMA StartStep ==
  ASSUME AdmissionInv, NEW c \in Calls, Start(c)
  PROVE  AdmissionInv'
<1> USE DEF AdmissionInv, Start, SetStage, store, counters, loops, Turn
<1>1. Holders' = Holders
  BY DEF Holders, TypeOK
<1>2. SlotsMatch'
  BY <1>1, SlotsStay
<1>3. QueueHoldsTheWaiting'
  BY DEF QueueHoldsTheWaiting, TypeOK
<1> QED
  BY <1>2, <1>3 DEF NoLostWakeup, BannedIsAborted, TypeOK

\* A call gives its slot back.
LEMMA ReleaseStep ==
  ASSUME AdmissionInv, NEW c \in Calls, Refused(c) \/ Finish(c)
  PROVE  AdmissionInv'
<1> USE DEF AdmissionInv, store, Turn
<1>1. Release(c) /\ stage[c] \in {"granted", "sent"} /\ Turn
  BY DEF Refused, Finish
<1>2. c \in Holders /\ Holders' = Holders \ {c}
  BY <1>1 DEF Holders, TypeOK, Release, SetStage
<1>3. SlotsMatch' /\ active' \in Nat /\ activeImages' \in Nat /\ activeUsers' \in [Users -> Nat]
  BY <1>1, <1>2, FreeSlot DEF Release
<1>4. TypeOK' /\ activeImages' <= 1
  BY <1>1, <1>3 DEF Release, SetStage, TypeOK
<1>5. QueueHoldsTheWaiting'
  BY <1>1 DEF Release, SetStage, QueueHoldsTheWaiting, TypeOK
<1>6. NoLostWakeup'
  BY <1>1 DEF Release, NoLostWakeup, TypeOK
<1>7. BannedIsAborted'
  BY <1>1 DEF Release, SetStage, BannedIsAborted, TypeOK
<1> QED
  BY <1>1, <1>3, <1>4, <1>5, <1>6, <1>7 DEF Release

\* A call leaves the queue, because its caller gave up or its account is banned.
LEMMA LeaveStep ==
  ASSUME AdmissionInv, NEW i \in DOMAIN queue, Cancel(i) \/ Evict(i)
  PROVE  AdmissionInv'
<1> USE DEF AdmissionInv, store, counters, loops
<1>1. /\ Leave(i) /\ ~draining
      /\ UNCHANGED <<paused, loops, counters, aborted, store>>
  BY DEF Cancel, Evict, Turn
<1>2. queue[i] \in Calls /\ stage[queue[i]] = "queued"
  <2>1. queue[i] \in Calls
    BY DEF TypeOK
  <2> QED
    BY <2>1 DEF QueueHoldsTheWaiting
<1>3. QueueHoldsTheWaiting' /\ queue' \in Seq(Calls)
  BY <1>1, LeaveKeepsQueue DEF Leave, SetStage
<1>4. Holders' = Holders
  BY <1>1, <1>2 DEF Holders, Leave, SetStage, TypeOK
<1>5. SlotsMatch'
  BY <1>1, <1>4, SlotsStay
<1>6. TypeOK'
  BY <1>1, <1>3 DEF TypeOK, Leave, SetStage
<1>7. BannedIsAborted'
  BY <1>1 DEF BannedIsAborted, TypeOK, Leave, SetStage
<1>8. queue # <<>>
  BY DEF TypeOK
<1> QED
  BY <1>1, <1>3, <1>5, <1>6, <1>7, <1>8 DEF NoLostWakeup

\* Pausing empties the queue; shutting down aborts what is on its way as well.
LEMMA EmptyStep ==
  ASSUME AdmissionInv, Pause \/ Shutdown
  PROVE  AdmissionInv'
<1> USE DEF AdmissionInv, store, counters, loops, Turn
<1>1. /\ Empty /\ ~draining /\ evicting = Nobody
      /\ UNCHANGED <<loops, counters, store>>
      /\ aborted \subseteq aborted' /\ aborted' \subseteq Calls
  BY DEF Pause, Shutdown, TypeOK
<1>2. Holders' = Holders
  BY <1>1 DEF Holders, Empty, TypeOK
<1>3. SlotsMatch'
  BY <1>1, <1>2, SlotsStay
<1>4. queue' = <<>> /\ queue' \in Seq(Calls) /\ DOMAIN queue' = {}
  BY <1>1, EmptySeq DEF Empty
<1>5. QueueHoldsTheWaiting'
  BY <1>1, <1>4 DEF QueueHoldsTheWaiting, Empty
<1>6. TypeOK'
  BY <1>1, <1>4 DEF TypeOK, Empty
<1>7. BannedIsAborted'
  BY <1>1 DEF BannedIsAborted, Empty, TypeOK
<1> QED
  BY <1>1, <1>3, <1>4, <1>5, <1>6, <1>7 DEF NoLostWakeup

\* The steps that leave queue, slots and stages alone.
LEMMA QuietSteps ==
  ASSUME AdmissionInv,
         \/ Resume \/ AbortSent \/ UNCHANGED vars
         \/ \E u \in Users : Ban(u) \/ Unban(u)
         \/ \E l \in Settings : SetLimits(l)
  PROVE  AdmissionInv'
<1> USE DEF AdmissionInv, store, counters, loops, Turn, vars,
            Resume, AbortSent, Ban, Unban, SetLimits
<1>1. UNCHANGED <<queue, stage, counters>>
  OBVIOUS
<1>2. TypeOK'
  BY DEF TypeOK
<1>3. QueueHoldsTheWaiting' /\ SlotsMatch'
  <2>1. Holders' = Holders
    BY <1>1 DEF Holders
  <2> QED
    BY <1>1, <2>1, SlotsStay DEF QueueHoldsTheWaiting
<1>4. BannedIsAborted'
  BY AdmissionAssumption DEF BannedIsAborted, TypeOK
<1>5. NoLostWakeup' /\ activeImages' <= 1 /\ (draining' => ~paused' /\ evicting' = Nobody)
  BY AdmissionAssumption DEF NoLostWakeup
<1> QED
  BY <1>2, <1>3, <1>4, <1>5

\* Every step of the gateway keeps the invariant.
LEMMA NextAdmission == AdmissionInv /\ [Next]_vars => AdmissionInv'
<1> SUFFICES ASSUME AdmissionInv, [Next]_vars PROVE AdmissionInv'
  OBVIOUS
<1>1. ASSUME NEW c \in Calls, Acquire(c) PROVE AdmissionInv'
  BY <1>1, AcquireStep
<1>2. ASSUME NEW c \in Calls, Start(c) PROVE AdmissionInv'
  BY <1>2, StartStep
<1>3. ASSUME NEW c \in Calls, Refused(c) \/ Finish(c) PROVE AdmissionInv'
  BY <1>3, ReleaseStep
<1>4. ASSUME NEW i \in DOMAIN queue, Grant(i) PROVE AdmissionInv'
  BY <1>4, GrantStep
<1>5. ASSUME NEW i \in DOMAIN queue, Cancel(i) \/ Evict(i) PROVE AdmissionInv'
  BY <1>5, LeaveStep
<1>6. CASE DrainEnds
  BY <1>6, DrainEndsStep
<1>7. CASE Pause \/ Shutdown
  BY <1>7, EmptyStep
<1>8. CASE \/ Resume \/ AbortSent \/ UNCHANGED vars
           \/ \E u \in Users : Ban(u) \/ Unban(u)
           \/ \E l \in Settings : SetLimits(l)
  BY <1>8, QuietSteps
<1> QED
  BY <1>1, <1>2, <1>3, <1>4, <1>5, <1>6, <1>7, <1>8 DEF Next, Drain, AbortUser

-----------------------------------------------------------------------------
(* The theorems. *)

\* The invariant holds in every reachable state.
THEOREM AdmissionInvariant == Spec => []AdmissionInv
<1>1. Init => AdmissionInv
  BY InitAdmission
<1>2. AdmissionInv /\ [Next]_vars => AdmissionInv'
  BY NextAdmission
<1> QED
  BY <1>1, <1>2, PTL DEF Spec

\* Type correctness, also of the counters: none of them ever falls below zero.
THEOREM AdmissionTypeCorrect == Spec => []TypeOK
<1>1. AdmissionInv => TypeOK
  BY DEF AdmissionInv
<1> QED
  BY <1>1, AdmissionInvariant, PTL

\* The counters of slots agree with the calls that hold one.
THEOREM AdmissionSlotsMatch == Spec => []SlotsMatch
<1>1. AdmissionInv => SlotsMatch
  BY DEF AdmissionInv
<1> QED
  BY <1>1, AdmissionInvariant, PTL

\* The queue holds each waiting call once and no other.
THEOREM AdmissionQueue == Spec => []QueueHoldsTheWaiting
<1>1. AdmissionInv => QueueHoldsTheWaiting
  BY DEF AdmissionInv
<1> QED
  BY <1>1, AdmissionInvariant, PTL

\* While calls wait, some call is active and will drain the queue.
THEOREM AdmissionNoLostWakeup == Spec => []NoLostWakeup
<1>1. AdmissionInv => NoLostWakeup
  BY DEF AdmissionInv
<1> QED
  BY <1>1, AdmissionInvariant, PTL

\* No request of a banned account is in flight un-aborted.
THEOREM AdmissionBannedIsAborted == Spec => []BannedIsAborted
<1>1. AdmissionInv => BannedIsAborted
  BY DEF AdmissionInv
<1> QED
  BY <1>1, AdmissionInvariant, PTL

\* Two pictures are never made at once, because the counter of pictures is right.
THEOREM AdmissionOnePicture == Spec => []OnePicture
<1>1. AdmissionInv => OnePicture
  <2> SUFFICES ASSUME AdmissionInv, NEW c \in Holders \cap Images, NEW d \in Holders \cap Images
               PROVE  c = d
    BY DEF OnePicture
  <2>1. Cardinality(Holders \cap Images) <= 1 /\ IsFiniteSet(Holders \cap Images)
    BY HoldersFinite DEF AdmissionInv, SlotsMatch
  <2>2. Cardinality(Holders \cap Images) \in Nat /\ Cardinality(Holders \cap Images) # 0
    BY <2>1, FS_CardinalityType, FS_EmptySet
  <2>3. Cardinality(Holders \cap Images) = 1
    BY <2>1, <2>2
  <2>4. \E x : Holders \cap Images = {x}
    BY <2>1, <2>3, FS_Singleton
  <2> QED
    BY <2>4
<1> QED
  BY <1>1, AdmissionInvariant, PTL

\* Calls of the same account and kind get their slots in the order they came: when
\* drain() passes one over, it passes over all that are like it.
THEOREM AdmissionFirstComeFirstServed == Spec => FirstComeFirstServed
<1> DEFINE NotOvertaken ==
      \A i, j \in DOMAIN queue :
        /\ i < j /\ stage'[queue[j]] = "granted"
        /\ Owner[queue[i]] = Owner[queue[j]] /\ Kind(queue[i]) = Kind(queue[j])
        => stage'[queue[i]] = "granted"
<1>1. ASSUME AdmissionInv, Next PROVE NotOvertaken
  <2> SUFFICES ASSUME NEW i \in DOMAIN queue, NEW j \in DOMAIN queue, i < j,
                      stage'[queue[j]] = "granted",
                      Owner[queue[i]] = Owner[queue[j]], Kind(queue[i]) = Kind(queue[j])
               PROVE  FALSE
    OBVIOUS
  <2>1. /\ queue[j] \in Calls /\ stage[queue[j]] = "queued"
        /\ stage \in [Calls -> {"idle", "queued", "granted", "sent"}]
    <3>1. queue[j] \in Calls
      BY <1>1 DEF AdmissionInv, TypeOK
    <3> QED
      BY <1>1, <3>1 DEF AdmissionInv, TypeOK, QueueHoldsTheWaiting
  <2>2. \E g \in DOMAIN queue : Grant(g)
    BY <1>1, <2>1 DEF Next, Drain, AbortUser, Acquire, Start, Refused, Finish, Release,
       Cancel, Evict, Leave, SetStage, Pause, Shutdown, Empty, Resume, Ban, Unban,
       SetLimits, AbortSent, DrainEnds
  <2>3. PICK g \in DOMAIN queue : Grant(g)
    BY <2>2
  <2>4. queue[j] = queue[g]
    BY <2>1, <2>3 DEF Grant, SetStage
  <2>5. j = g
    BY <1>1, <2>3, <2>4 DEF AdmissionInv, QueueHoldsTheWaiting
  <2>6. ~Eligible(queue[i]) /\ Eligible(queue[g])
    BY <1>1, <2>3, <2>5 DEF Grant, AdmissionInv, TypeOK
  <2> QED
    BY <2>5, <2>6 DEF Eligible, Kind
<1>2. AdmissionInv /\ [Next]_vars => [NotOvertaken]_vars
  BY <1>1
<1> QED
  BY <1>2, AdmissionInvariant, PTL DEF Spec, FirstComeFirstServed

-----------------------------------------------------------------------------
(* Badges. *)

\* The rows of Badges by their fields.
BadgeErrors == {"none", "temporary", "rejected", "unusable", "unknown"}
JobStates == {"pending", "generating", "ready", "failed"}
JobRow == [status : JobStates, version : {1, 2},
           attempts : 0..MaxAttempts, request : Nat, token : Workers \cup {None},
           lapsed : BOOLEAN, due : BOOLEAN, error : BadgeErrors]
DrawingRow == [stage : {"idle", "claim", "send", "ask", "commit", "fail"},
            of : Badges \cup {0}, version : 0..2, attempts : 0..MaxAttempts,
            error : BadgeErrors]

\* The variables of Badges have their types.
BadgeTypes ==
  /\ job \in [Badges -> JobRow] /\ shown \in [Badges -> BOOLEAN]
  /\ work \in [Workers -> DrawingRow]
  /\ keys \in [Badges -> Nat] /\ doubt \in [Badges -> Nat]
  /\ calls \in [Badges -> Nat] /\ open \in [Badges -> SUBSET Workers]

\* The worker has claimed a badge.
Busy(w) == work[w].stage \in {"send", "ask", "commit", "fail"}

\* What a worker knows of its badge: as long as the claim is its own nobody else asks for
\* the badge, and a call that is still to be sent is covered by the attempt it counted.
Held(w) ==
  Busy(w) =>
    /\ work[w].of \in Badges
    /\ Mine(w) =>
         /\ work[w].attempts = job[work[w].of].attempts
         /\ open[work[w].of] \subseteq {w}
         /\ At(w, "fail") /\ work[w].error = "temporary" => open[work[w].of] = {}
    /\ At(w, "send") =>
         /\ Mine(w) /\ ~job[work[w].of].lapsed
         /\ open[work[w].of] = {} /\ calls[work[w].of] < job[work[w].of].attempts

\* No more calls were sent than attempts counted, and a job in the queue has one left.
Counted(b) ==
  /\ calls[b] <= job[b].attempts
  /\ job[b].status = "pending" => job[b].attempts < MaxAttempts /\ open[b] = {}

\* A call nobody knows the fate of keeps its key until the badge is ready.
Doubted(b) ==
  doubt[b] # 0 /\ job[b].status # "ready" =>
    /\ job[b].request = doubt[b]
    /\ job[b].status = "failed" => job[b].error = "unknown"

\* The inductive invariant of Badges.
BadgesInv ==
  /\ BadgeTypes
  /\ \A w \in Workers : Held(w)
  /\ \A b \in Badges : Counted(b) /\ Doubted(b)

-----------------------------------------------------------------------------
\* The rows of the lemmas are those of the type invariant of Badges.
LEMMA BadgeTypesAreTypes == BadgeTypes => BadgesTypeOK
  BY DEF BadgeTypes, BadgesTypeOK, JobRow, DrawingRow, BadgeErrors, JobStates

\* What a job that leaves its claim looks like.
LEMMA LeftJob ==
  ASSUME NEW j \in JobRow, NEW s \in JobStates, NEW e \in BadgeErrors
  PROVE  /\ Left(j, s, e) \in JobRow
         /\ Left(j, s, e).status = s /\ Left(j, s, e).error = e
         /\ Left(j, s, e).version = j.version /\ Left(j, s, e).attempts = j.attempts
         /\ Left(j, s, e).request = j.request
  BY DEF Left, JobRow

\* A claim that lapsed fails with an unknown outcome.
LEMMA LapsedJob ==
  ASSUME NEW j \in JobRow
  PROVE  /\ AfterLapse(j) \in JobRow
         /\ AfterLapse(j).status = "failed" /\ AfterLapse(j).error = "unknown"
         /\ AfterLapse(j).version = j.version /\ AfterLapse(j).attempts = j.attempts
         /\ AfterLapse(j).request = j.request
  BY LeftJob DEF AfterLapse, JobStates, BadgeErrors

\* A job that is ordered anew has no attempt yet.
LEMMA QueuedJob ==
  ASSUME NEW v \in {1, 2}, NEW n \in Nat
  PROVE  /\ Queued(v, n) \in JobRow
         /\ Queued(v, n).status = "pending" /\ Queued(v, n).attempts = 0
         /\ Queued(v, n).request = n
  BY BadgesAssumption DEF Queued, JobRow, JobStates, BadgeErrors

\* The invariant of Badges holds initially.
LEMMA BadgesStart == BadgesInit => BadgesInv
<1> SUFFICES ASSUME BadgesInit PROVE BadgesInv
  OBVIOUS
<1>2. job \in [Badges -> JobRow]
  BY QueuedJob DEF BadgesInit
<1>3. Idle \in DrawingRow
  BY BadgesAssumption DEF Idle, DrawingRow, BadgeErrors
<1>4. BadgeTypes
  BY <1>2, <1>3 DEF BadgesInit, BadgeTypes
<1>5. ASSUME NEW w \in Workers PROVE Held(w)
  BY DEF BadgesInit, Held, Busy, Idle
<1>6. ASSUME NEW b \in Badges PROVE Counted(b) /\ Doubted(b)
  BY QueuedJob, BadgesAssumption DEF BadgesInit, Counted, Doubted
<1> QED
  BY <1>4, <1>5, <1>6 DEF BadgesInv

-----------------------------------------------------------------------------
(* Steps of a worker that change no job, and steps in which jobs leave their claims. *)

\* A step of one worker that changes no job: what the worker knows is all that matters.
LEMMA WorkerMoves ==
  ASSUME BadgesInv, NEW w \in Workers, NEW r \in DrawingRow, work' = [work EXCEPT ![w] = r],
         UNCHANGED <<job, shown, keys, calls, doubt>>,
         open' \in [Badges -> SUBSET Workers], \A c \in Badges : open'[c] \subseteq open[c],
         Held(w)'
  PROVE  BadgesInv'
<1>1. BadgeTypes'
  BY DEF BadgesInv, BadgeTypes
<1>2. ASSUME NEW v \in Workers, v # w PROVE Held(v)'
  <2>1. work'[v] = work[v] /\ Held(v)
    BY <1>2 DEF BadgesInv, BadgeTypes
  <2> QED
    BY <2>1 DEF Held, Busy, At, Mine
<1>3. ASSUME NEW c \in Badges PROVE Counted(c)' /\ Doubted(c)'
  BY DEF BadgesInv, Counted, Doubted
<1> QED
  BY <1>1, <1>2, <1>3 DEF BadgesInv

\* A step that changes the jobs of S and leaves none of them claimed: a worker that held
\* one of them has lost it.
LEMMA JobsMove ==
  ASSUME BadgesInv, BadgeTypes', NEW S \in SUBSET Badges,
         \A c \in Badges \ S : /\ job'[c] = job[c] /\ doubt'[c] = doubt[c]
                               /\ calls'[c] = calls[c] /\ open'[c] = open[c],
         \A c \in S : job'[c].status # "generating" /\ Counted(c)' /\ Doubted(c)',
         \A v \in Workers : ~Busy(v)' \/ work'[v] = work[v],
         \A v \in Workers : At(v, "send")' => work[v].of \notin S
  PROVE  BadgesInv'
<1>1. ASSUME NEW v \in Workers, work'[v] = work[v] PROVE Held(v)'
  <2>1. Held(v)
    BY DEF BadgesInv
  <2>2. CASE work[v].of \in S
    <3>1. ~Mine(v)'
      BY <1>1, <2>2 DEF Mine
    <3>2. ~At(v, "send")'
      BY <2>2
    <3> QED
      BY <1>1, <2>1, <3>1, <3>2 DEF Held, Busy, At
  <2>3. CASE work[v].of \notin S
    BY <1>1, <2>1, <2>3 DEF Held, Busy, At, Mine
  <2> QED
    BY <2>2, <2>3
<1>2. ASSUME NEW v \in Workers, ~Busy(v)' PROVE Held(v)'
  BY <1>2 DEF Held
<1>3. ASSUME NEW c \in Badges \ S PROVE Counted(c)' /\ Doubted(c)'
  BY <1>3 DEF BadgesInv, Counted, Doubted
<1> QED
  BY <1>1, <1>2, <1>3 DEF BadgesInv

-----------------------------------------------------------------------------
\* Claims whose lease ran out fail as unknown, and their request is in doubt.
LEMMA ExpireHolds == ASSUME BadgesInv, NEW w \in Workers, ExpireLost(w) PROVE BadgesInv'
<1>1. \A c \in Badges : /\ job'[c] = IF c \in Lost THEN AfterLapse(job[c]) ELSE job[c]
                        /\ doubt'[c] = IF c \in Lost THEN job[c].request ELSE doubt[c]
  BY DEF ExpireLost
<1>2. \A c \in Badges : job[c] \in JobRow /\ job[c].request \in Nat
  BY DEF BadgesInv, BadgeTypes, JobRow
<1>3. job' \in [Badges -> JobRow] /\ doubt' \in [Badges -> Nat]
  BY <1>2, LapsedJob DEF ExpireLost, BadgesInv, BadgeTypes
<1>4. work' = [work EXCEPT ![w] = [work[w] EXCEPT !.stage = "claim"]]
      /\ [work[w] EXCEPT !.stage = "claim"] \in DrawingRow
  BY DEF ExpireLost, BadgesInv, BadgeTypes, DrawingRow
<1>5. BadgeTypes'
  BY <1>3, <1>4 DEF ExpireLost, bounds, BadgesInv, BadgeTypes
<1>6. ~Busy(w)' /\ \A v \in Workers \ {w} : work'[v] = work[v]
  BY <1>4 DEF Busy, BadgesInv, BadgeTypes, DrawingRow
<1>7. ASSUME NEW v \in Workers, At(v, "send")' PROVE work[v].of \notin Lost
  BY <1>6, <1>7 DEF BadgesInv, Held, Busy, At, Lost
<1>8. ASSUME NEW c \in Lost
      PROVE  job'[c].status # "generating" /\ Counted(c)' /\ Doubted(c)'
  BY <1>1, <1>2, <1>8, LapsedJob DEF BadgesInv, Lost, ExpireLost, Counted, Doubted
<1>9. Lost \subseteq Badges
  BY DEF Lost
<1> QED
  BY <1>1, <1>5, <1>6, <1>7, <1>8, <1>9, JobsMove DEF ExpireLost

\* A claim counts its attempt: nothing is open for a job in the queue.
LEMMA ClaimHolds ==
  ASSUME BadgesInv, NEW w \in Workers, NEW b \in Badges, Claim(w, b) PROVE BadgesInv'
<1> USE DEF BadgesInv
<1> DEFINE j == [job[b] EXCEPT !.status = "generating", !.attempts = job[b].attempts + 1,
                               !.token = w, !.lapsed = FALSE, !.request = RequestOf(b)]
           r == [stage |-> "send", of |-> b, version |-> job[b].version,
                 attempts |-> job[b].attempts + 1, error |-> "none"]
<1>1. job[b] \in JobRow /\ RequestOf(b) \in Nat /\ job[b].attempts < MaxAttempts
      /\ job[b].attempts \in Nat /\ open[b] = {}
  BY DEF BadgeTypes, Claim, Due, Counted, RequestOf, JobRow
<1>2. j \in JobRow
  <2>1. job[b].attempts + 1 \in 0..MaxAttempts
    BY <1>1, BadgesAssumption
  <2> QED
    BY <1>1, <2>1 DEF JobRow, JobStates
<1>3. r \in DrawingRow
  BY <1>1, BadgesAssumption DEF JobRow, DrawingRow, BadgeErrors, JobStates
<1>4. job' = [job EXCEPT ![b] = j] /\ work' = [work EXCEPT ![w] = r]
  BY DEF Claim
<1>5. BadgeTypes'
  <2>1. keys' \in [Badges -> Nat]
    BY <1>1 DEF BadgeTypes, Claim
  <2> QED
    BY <1>2, <1>3, <1>4, <2>1 DEF BadgeTypes, Claim, history
<1>6. Quiet
  BY DEF Claim
<1>7. Held(w)'
  BY <1>1, <1>4 DEF BadgeTypes, Held, Busy, Mine, At, Claim, JobRow, Counted, history
<1>8. ASSUME NEW v \in Workers, v # w PROVE Held(v)'
  <2>1. work'[v] = work[v] /\ open' = open /\ calls' = calls
    BY <1>4, <1>8 DEF BadgeTypes, Claim, history
  <2>2. Busy(v) => ~Mine(v)
    BY <1>6, <1>8 DEF Held, Mine, Quiet, Generating
  <2>3. ~Mine(v)' \/ ~Busy(v)
    <3>1. CASE Busy(v) /\ work[v].of # b
      BY <2>1, <2>2, <3>1, <1>4, <1>8 DEF Mine, Held
    <3>2. CASE work[v].of = b
      BY <2>1, <3>2, <1>4, <1>8 DEF BadgeTypes, Mine
    <3> QED
      BY <3>1, <3>2
  <2> QED
    BY <2>1, <2>2, <2>3, <1>4, <1>8 DEF Held, Busy, At
<1>9. ASSUME NEW c \in Badges PROVE Counted(c)' /\ Doubted(c)'
  <2>1. calls' = calls /\ open' = open /\ doubt' = doubt
    BY DEF Claim, history
  <2>2. CASE c = b
    <3>1. job'[b] = j
      BY <1>4 DEF BadgeTypes
    <3>2. j.attempts = job[b].attempts + 1 /\ j.status = "generating" /\ j.request = RequestOf(b)
      BY <1>1 DEF JobRow
    <3>3. calls[b] <= job[b].attempts /\ calls[b] \in Nat /\ doubt[b] \in Nat
      BY DEF BadgeTypes, Counted
    <3>4. doubt[b] # 0 => RequestOf(b) = doubt[b]
      BY <3>3 DEF Doubted, RequestOf, Claim, Due
    <3> QED
      BY <2>1, <2>2, <3>1, <3>2, <3>3, <3>4, <1>1 DEF Counted, Doubted
  <2>3. CASE c # b
    BY <2>1, <2>3, <1>4 DEF Counted, Doubted
  <2> QED
    BY <2>2, <2>3
<1> QED
  BY <1>5, <1>7, <1>8, <1>9

\* A worker that finds no job goes home.
LEMMA StopHolds ==
  ASSUME BadgesInv, NEW w \in Workers, NothingToDo(w) \/ Crash(w) PROVE BadgesInv'
<1>1. work' = [work EXCEPT ![w] = Idle] /\ UNCHANGED <<job, shown, keys, calls, open, doubt>>
  BY DEF NothingToDo, Crash, Ends, history, bounds
<1>2. Idle \in DrawingRow
  BY BadgesAssumption DEF Idle, DrawingRow, BadgeErrors
<1>3. Held(w)'
  BY <1>1 DEF Held, Busy, Idle, BadgesInv, BadgeTypes
<1> QED
  BY <1>1, <1>2, <1>3, WorkerMoves DEF BadgesInv, BadgeTypes

\* A call is sent under the claim: it is the only one open for its badge.
LEMMA SendHolds == ASSUME BadgesInv, NEW w \in Workers, Send(w) PROVE BadgesInv'
<1> DEFINE b == work[w].of
           r == [work[w] EXCEPT !.stage = "ask"]
<1>1. /\ b \in Badges /\ Mine(w) /\ ~job[b].lapsed
      /\ open[b] = {} /\ calls[b] < job[b].attempts
  BY DEF BadgesInv, Held, Send, At, Busy
<1>2. r \in DrawingRow /\ r.stage = "ask" /\ r.of = b /\ r.version = work[w].version
      /\ r.attempts = work[w].attempts
  BY DEF BadgesInv, BadgeTypes, DrawingRow
<1>3. /\ work' = [work EXCEPT ![w] = r] /\ calls' = [calls EXCEPT ![b] = calls[b] + 1]
      /\ open' = [open EXCEPT ![b] = open[b] \cup {w}]
      /\ UNCHANGED <<job, shown, keys, doubt>>
  BY DEF Send
<1>4. BadgeTypes'
  BY <1>1, <1>2, <1>3 DEF BadgesInv, BadgeTypes
<1>5. work'[w] = r /\ open'[b] = {w} /\ calls'[b] = calls[b] + 1
  BY <1>1, <1>3 DEF BadgesInv, BadgeTypes
<1>6. Held(w)'
  <2>1. work[w].attempts = job[b].attempts
    BY <1>1 DEF BadgesInv, Held, Busy, Send, At
  <2>2. work'[w].stage = "ask" /\ work'[w].of = b /\ work'[w].attempts = work[w].attempts
    BY <1>2, <1>5
  <2> QED
    BY <1>1, <1>3, <1>5, <2>1, <2>2 DEF Held, At
<1>7. ASSUME NEW v \in Workers, v # w PROVE Held(v)'
  <2>1. work'[v] = work[v] /\ Held(v)
    BY <1>3, <1>7 DEF BadgesInv, BadgeTypes
  <2>2. CASE work[v].of = b
    <3>1. ~Mine(v) /\ ~Mine(v)'
      BY <1>1, <1>3, <1>7, <2>1, <2>2 DEF Mine
    <3> QED
      BY <2>1, <3>1 DEF Held, Busy, At
  <2>3. CASE work[v].of # b
    BY <1>3, <2>1, <2>3 DEF Held, Busy, At, Mine, BadgesInv, BadgeTypes
  <2> QED
    BY <2>2, <2>3
<1>8. ASSUME NEW c \in Badges PROVE Counted(c)' /\ Doubted(c)'
  <2>1. CASE c = b
    <3>1. job[b].status = "generating"
      BY <1>1 DEF Mine
    <3>2. calls[b] + 1 <= job[b].attempts
      BY <1>1 DEF BadgesInv, BadgeTypes, JobRow
    <3> QED
      BY <1>3, <1>5, <2>1, <3>1, <3>2 DEF BadgesInv, Counted, Doubted
  <2>2. CASE c # b
    BY <1>3, <2>2 DEF BadgesInv, BadgeTypes, Counted, Doubted
  <2> QED
    BY <2>1, <2>2
<1> QED
  BY <1>4, <1>6, <1>7, <1>8 DEF BadgesInv

\* An answer closes the call.
LEMMA AnswerHolds == ASSUME BadgesInv, NEW w \in Workers, Answer(w) PROVE BadgesInv'
<1> DEFINE b == work[w].of
<1>1. b \in Badges /\ Held(w) /\ Busy(w)
  BY DEF BadgesInv, Held, Answer, At, Busy
<1>2. PICK s \in {"commit", "fail"}, e \in BadgeErrors :
        /\ work' = [work EXCEPT ![w] = [[work[w] EXCEPT !.stage = s] EXCEPT !.error = e]]
        /\ open' = IF s = "fail" /\ e = "temporary" THEN [open EXCEPT ![b] = @ \ {w}] ELSE open
  <2>1. CASE work' = [work EXCEPT ![w].stage = "commit"] /\ UNCHANGED open
    <3>1. work[w].error \in BadgeErrors
          /\ [[work[w] EXCEPT !.stage = "commit"] EXCEPT !.error = work[w].error]
              = [work[w] EXCEPT !.stage = "commit"]
      BY DEF BadgesInv, BadgeTypes, DrawingRow
    <3> QED
      BY <2>1, <3>1
  <2>2. CASE /\ work' = [work EXCEPT ![w].stage = "fail", ![w].error = "temporary"]
             /\ open' = [open EXCEPT ![b] = @ \ {w}]
    <3>1. work' = [work EXCEPT ![w] = [[work[w] EXCEPT !.stage = "fail"] EXCEPT !.error = "temporary"]]
      BY <2>2 DEF BadgesInv, BadgeTypes
    <3> QED
      BY <2>2, <3>1 DEF BadgeErrors
  <2>3. CASE \E e \in {"rejected", "unknown"} :
               work' = [work EXCEPT ![w].stage = "fail", ![w].error = e] /\ UNCHANGED open
    <3>1. PICK e \in {"rejected", "unknown"} :
               work' = [work EXCEPT ![w].stage = "fail", ![w].error = e] /\ UNCHANGED open
      BY <2>3
    <3>2. work' = [work EXCEPT ![w] = [[work[w] EXCEPT !.stage = "fail"] EXCEPT !.error = e]]
      BY <3>1 DEF BadgesInv, BadgeTypes
    <3> QED
      BY <3>1, <3>2 DEF BadgeErrors
  <2> QED
    BY <2>1, <2>2, <2>3 DEF Answer
<1> DEFINE r == [[work[w] EXCEPT !.stage = s] EXCEPT !.error = e]
<1>3. r \in DrawingRow /\ r.stage = s /\ r.error = e /\ r.of = b /\ r.version = work[w].version
      /\ r.attempts = work[w].attempts
  BY DEF BadgesInv, BadgeTypes, DrawingRow
<1>4. UNCHANGED <<job, shown, keys, calls, doubt>>
  BY DEF Answer
<1>5. open' \in [Badges -> SUBSET Workers] /\ \A c \in Badges : open'[c] \subseteq open[c]
  BY <1>1, <1>2 DEF BadgesInv, BadgeTypes
<1>6. work'[w] = r
  BY <1>2 DEF BadgesInv, BadgeTypes
<1>7. Held(w)'
  <2>1. s = "fail" /\ e = "temporary" => open'[b] = open[b] \ {w}
    BY <1>1, <1>2 DEF BadgesInv, BadgeTypes
  <2>2. Mine(w)' => Mine(w)
    BY <1>3, <1>4, <1>6 DEF Mine
  <2> QED
    BY <1>1, <1>3, <1>4, <1>5, <1>6, <2>1, <2>2 DEF Held, Busy, At
<1> QED
  BY <1>2, <1>3, <1>4, <1>5, <1>7, WorkerMoves

\* A picture that cannot be used fails the badge with the call closed.
LEMMA UnusableHolds == ASSUME BadgesInv, NEW w \in Workers, Unusable(w) PROVE BadgesInv'
<1> DEFINE r == [[work[w] EXCEPT !.stage = "fail"] EXCEPT !.error = "unusable"]
<1>1. work[w].of \in Badges /\ Held(w) /\ Busy(w)
  BY DEF BadgesInv, Held, Unusable, At, Busy
<1>2. work' = [work EXCEPT ![w] = r] /\ UNCHANGED <<job, shown, keys, calls, open, doubt>>
  BY DEF BadgesInv, BadgeTypes, Unusable, history
<1>3. /\ r \in DrawingRow /\ r.stage = "fail" /\ r.error = "unusable" /\ r.of = work[w].of
      /\ r.version = work[w].version /\ r.attempts = work[w].attempts
  BY DEF BadgesInv, BadgeTypes, DrawingRow, BadgeErrors
<1>4. work'[w] = r
  BY <1>2 DEF BadgesInv, BadgeTypes
<1>5. Held(w)'
  BY <1>1, <1>2, <1>3, <1>4 DEF Held, Busy, At, Mine
<1> QED
  BY <1>2, <1>3, <1>5, WorkerMoves DEF BadgesInv, BadgeTypes

-----------------------------------------------------------------------------
\* A result is recorded for the worker's own claim, or not at all.
LEMMA SettleHolds ==
  ASSUME BadgesInv, NEW w \in Workers, Busy(w), ~At(w, "send"),
         NEW j, Settle(w, j), UNCHANGED <<keys, calls, open>>, shown' \in [Badges -> BOOLEAN],
         Mine(w) => /\ j \in JobRow /\ j.status \in {"ready", "pending", "failed"}
                    /\ j.attempts = job[work[w].of].attempts
                    /\ j.request = job[work[w].of].request
                    /\ j.status = "failed" \/ j.error # "unknown"
                    /\ j.status = "pending" => /\ j.attempts < MaxAttempts
                                               /\ open[work[w].of] = {}
  PROVE  BadgesInv'
<1> DEFINE b == work[w].of
           S == IF Mine(w) THEN {b} ELSE {}
           n == IF job[b].lapsed THEN AfterLapse(job[b]) ELSE j
<1>1. b \in Badges /\ job[b] \in JobRow /\ S \subseteq Badges
  BY DEF BadgesInv, Held, BadgeTypes
<1>2. /\ job' = IF Mine(w) THEN [job EXCEPT ![b] = n] ELSE job
      /\ doubt' = IF Mine(w)
                    THEN [doubt EXCEPT ![b] = IF job'[b].error = "unknown" THEN job[b].request ELSE 0]
                    ELSE doubt
      /\ work' = [work EXCEPT ![w] = Idle]
  BY DEF Settle, Ends
<1>3. Mine(w) => /\ n \in JobRow /\ n.status \in {"ready", "pending", "failed"}
                 /\ n.attempts = job[b].attempts /\ n.request = job[b].request
                 /\ n.status = "failed" \/ n.error # "unknown"
                 /\ n.status = "pending" => n.attempts < MaxAttempts /\ open[b] = {}
  BY <1>1, LapsedJob
<1>4. job[b].request \in Nat /\ Idle \in DrawingRow
  BY <1>1, BadgesAssumption DEF JobRow, Idle, DrawingRow, BadgeErrors
<1>5. BadgeTypes'
  <2>1. job' \in [Badges -> JobRow]
    BY <1>1, <1>2, <1>3 DEF BadgesInv, BadgeTypes
  <2>2. doubt' \in [Badges -> Nat]
    BY <1>1, <1>2, <1>4 DEF BadgesInv, BadgeTypes
  <2> QED
    BY <1>2, <1>4, <2>1, <2>2 DEF BadgesInv, BadgeTypes
<1>6. ~Busy(w)' /\ \A v \in Workers \ {w} : work'[v] = work[v]
  BY <1>2 DEF Busy, Idle, BadgesInv, BadgeTypes
<1>7. ASSUME NEW v \in Workers, At(v, "send")' PROVE work[v].of \notin S
  <2>1. v # w /\ At(v, "send")
    BY <1>6, <1>7 DEF Busy, At
  <2>2. Mine(v)
    BY <2>1 DEF BadgesInv, Held, Busy, At
  <2> QED
    BY <2>1, <2>2 DEF Mine
<1>8. ASSUME NEW c \in S PROVE job'[c].status # "generating" /\ Counted(c)' /\ Doubted(c)'
  <2>1. c = b /\ Mine(w)
    BY <1>8
  <2>2. job'[b] = n
    BY <1>1, <1>2, <2>1 DEF BadgesInv, BadgeTypes
  <2>3. doubt'[b] = IF n.error = "unknown" THEN job[b].request ELSE 0
    BY <1>1, <1>2, <2>1, <2>2 DEF BadgesInv, BadgeTypes
  <2>4. Counted(b)
    BY <1>1 DEF BadgesInv
  <2> QED
    BY <1>3, <2>1, <2>2, <2>3, <2>4 DEF Counted, Doubted
<1>9. \A c \in Badges \ S : job'[c] = job[c] /\ doubt'[c] = doubt[c]
  BY <1>1, <1>2 DEF BadgesInv, BadgeTypes
<1> QED
  BY <1>1, <1>5, <1>6, <1>7, <1>8, <1>9, JobsMove

\* The picture is stored if the claim is still the worker's own.
LEMMA CommitHolds == ASSUME BadgesInv, NEW w \in Workers, Commit(w) PROVE BadgesInv'
<1> DEFINE b == work[w].of
<1>1. Busy(w) /\ ~At(w, "send") /\ b \in Badges /\ job[b] \in JobRow
  BY DEF BadgesInv, Held, BadgeTypes, Commit, At, Busy
<1>2. shown' \in [Badges -> BOOLEAN]
  BY DEF Commit, BadgesInv, BadgeTypes
<1> QED
  BY <1>1, <1>2, LeftJob, SettleHolds DEF Commit, JobStates, BadgeErrors

\* A failed job goes back to the queue only when the provider refused for the moment.
LEMMA FailHolds == ASSUME BadgesInv, NEW w \in Workers, Fail(w) PROVE BadgesInv'
<1> DEFINE b == work[w].of
           s == IF Retryable(w) THEN "pending" ELSE "failed"
           l == Left(job[b], s, work[w].error)
           j == [l EXCEPT !.due = FALSE]
<1>1. Busy(w) /\ ~At(w, "send") /\ b \in Badges /\ job[b] \in JobRow /\ work[w].error \in BadgeErrors
  BY DEF BadgesInv, Held, BadgeTypes, Fail, At, Busy, DrawingRow
<1>2. l \in JobRow /\ l.status = s /\ l.error = work[w].error
      /\ l.attempts = job[b].attempts /\ l.request = job[b].request
  <2>1. s \in JobStates
    BY DEF JobStates
  <2> HIDE DEF s
  <2> QED
    BY <1>1, <2>1, LeftJob
<1>3. j \in JobRow /\ j.status = s /\ j.error = work[w].error
      /\ j.attempts = job[b].attempts /\ j.request = job[b].request
  <2> HIDE DEF l
  <2> QED
    BY <1>2 DEF JobRow
<1>4. Mine(w) /\ Retryable(w) => open[b] = {} /\ job[b].attempts < MaxAttempts
  BY <1>1 DEF BadgesInv, Held, Retryable, Fail, At
<1>5. Retryable(w) => work[w].error # "unknown"
  BY DEF Retryable
<1> HIDE DEF j
<1>6. Settle(w, j) /\ UNCHANGED <<shown, keys, calls, open>>
  BY DEF Fail, j
<1> QED
  BY <1>1, <1>3, <1>4, <1>5, <1>6, SettleHolds DEF BadgesInv, BadgeTypes

-----------------------------------------------------------------------------
\* Whoever is about to send has a claim.
LEMMA SendersHold ==
  ASSUME BadgesInv, NEW v \in Workers, At(v, "send")
  PROVE  job[work[v].of].status = "generating"
  BY DEF BadgesInv, Held, Busy, At, Mine

\* A user may order a badge that failed again: under the old key if the outcome is unknown.
LEMMA RetryHolds == ASSUME BadgesInv, NEW b \in Badges, RetryBadge(b) PROVE BadgesInv'
<1> DEFINE n == Queued(job[b].version, KeptRequest(b))
<1>1. job[b].version \in {1, 2} /\ KeptRequest(b) \in Nat
  BY DEF BadgesInv, BadgeTypes, JobRow, KeptRequest
<1>2. n \in JobRow /\ n.status = "pending" /\ n.attempts = 0 /\ n.request = KeptRequest(b)
  BY <1>1, QueuedJob
<1>3. /\ job' = [job EXCEPT ![b] = n] /\ calls' = [calls EXCEPT ![b] = 0]
      /\ open' = [open EXCEPT ![b] = {}] /\ UNCHANGED <<shown, work, keys, doubt>>
  BY DEF RetryBadge, Ordered
<1> HIDE DEF n
<1>4. BadgeTypes'
  BY <1>2, <1>3 DEF BadgesInv, BadgeTypes
<1>5. Counted(b)' /\ Doubted(b)'
  <2>1. job'[b] = n /\ calls'[b] = 0 /\ open'[b] = {}
    BY <1>3 DEF BadgesInv, BadgeTypes
  <2>2. doubt[b] # 0 => KeptRequest(b) = doubt[b]
    BY DEF BadgesInv, Doubted, RetryBadge, KeptRequest
  <2> QED
    BY <1>2, <1>3, <2>1, <2>2, BadgesAssumption DEF Counted, Doubted
<1>6. \A v \in Workers : At(v, "send")' => work[v].of \notin {b}
  BY <1>3, SendersHold DEF RetryBadge, At
<1>7. \A c \in Badges \ {b} : /\ job'[c] = job[c] /\ calls'[c] = calls[c] /\ open'[c] = open[c]
                              /\ doubt'[c] = doubt[c]
  BY <1>3 DEF BadgesInv, BadgeTypes
<1>8. job'[b].status # "generating"
  BY <1>2, <1>3 DEF BadgesInv, BadgeTypes
<1>9. {b} \in SUBSET Badges
  OBVIOUS
<1>10. \A c \in {b} : job'[c].status # "generating" /\ Counted(c)' /\ Doubted(c)'
  BY <1>5, <1>8
<1>11. \A v \in Workers : work'[v] = work[v]
  BY <1>3
<1> QED
  BY <1>4, <1>6, <1>7, <1>9, <1>10, <1>11, JobsMove

\* A new style orders the chosen badges anew under new keys.
LEMMA RedrawHolds ==
  ASSUME BadgesInv, NEW old \in SUBSET Badges, Redraw(old)
  PROVE  BadgesInv'
<1> DEFINE n == Queued(2, 0)
<1>1. n \in JobRow /\ n.status = "pending" /\ n.attempts = 0
  BY QueuedJob
<1>2. /\ \A b \in old : ~Generating(b)
      /\ job' = [b \in Badges |-> IF b \in old THEN n ELSE job[b]]
      /\ calls' = [b \in Badges |-> IF b \in old THEN 0 ELSE calls[b]]
      /\ open' = [b \in Badges |-> IF b \in old THEN {} ELSE open[b]]
      /\ doubt' = [b \in Badges |-> IF b \in old THEN 0 ELSE doubt[b]]
      /\ UNCHANGED <<shown, work, keys>>
  BY DEF Redraw
<1> HIDE DEF n
<1>3. BadgeTypes'
  BY <1>1, <1>2 DEF BadgesInv, BadgeTypes
<1>4. ASSUME NEW b \in old
      PROVE  job'[b].status # "generating" /\ Counted(b)' /\ Doubted(b)'
  BY <1>1, <1>2, BadgesAssumption DEF Counted, Doubted
<1>5. \A v \in Workers : At(v, "send")' => work[v].of \notin old
  BY <1>2, SendersHold DEF At, Generating
<1>6. \A c \in Badges \ old : /\ job'[c] = job[c] /\ calls'[c] = calls[c] /\ open'[c] = open[c]
                              /\ doubt'[c] = doubt[c]
  BY <1>2
<1> QED
  BY <1>2, <1>3, <1>4, <1>5, <1>6, JobsMove

\* An earlier picture is put back: the badge is ready.
LEMMA RestoreHolds == ASSUME BadgesInv, NEW b \in Badges, Restore(b) PROVE BadgesInv'
<1> DEFINE n == Left(job[b], "ready", "none")
<1>1. n \in JobRow /\ n.status = "ready" /\ n.attempts = job[b].attempts
  BY LeftJob DEF BadgesInv, BadgeTypes, JobStates, BadgeErrors
<1>2. job' = [job EXCEPT ![b] = n] /\ UNCHANGED <<shown, work, keys, calls, open, doubt>>
  BY DEF Restore, history, bounds
<1> HIDE DEF n
<1>3. BadgeTypes'
  BY <1>1, <1>2 DEF BadgesInv, BadgeTypes
<1>4. job'[b] = n /\ \A c \in Badges \ {b} : job'[c] = job[c]
  BY <1>2 DEF BadgesInv, BadgeTypes
<1>5. Counted(b)' /\ Doubted(b)'
  BY <1>1, <1>2, <1>4 DEF BadgesInv, Counted, Doubted
<1>6. \A v \in Workers : At(v, "send")' => work[v].of # b
  BY <1>2, SendersHold DEF Restore, At, Generating
<1>7. {b} \in SUBSET Badges
  OBVIOUS
<1> QED
  BY <1>1, <1>2, <1>3, <1>4, <1>5, <1>6, <1>7, JobsMove

\* The wait of a job ends: only its date changes.
LEMMA WaitHolds == ASSUME BadgesInv, NEW b \in Badges, Wait(b) PROVE BadgesInv'
<1> DEFINE n == [job[b] EXCEPT !.due = TRUE]
<1>1. n \in JobRow /\ n.status = "pending" /\ n.attempts = job[b].attempts
      /\ n.request = job[b].request
  BY DEF BadgesInv, BadgeTypes, JobRow, Wait
<1>2. job' = [job EXCEPT ![b] = n] /\ UNCHANGED <<shown, work, keys, calls, open, doubt>>
  BY DEF Wait, history, bounds
<1> HIDE DEF n
<1>3. BadgeTypes'
  BY <1>1, <1>2 DEF BadgesInv, BadgeTypes
<1>4. job'[b] = n /\ \A c \in Badges \ {b} : job'[c] = job[c]
  BY <1>2 DEF BadgesInv, BadgeTypes
<1>5. Counted(b)' /\ Doubted(b)'
  BY <1>1, <1>2, <1>4 DEF BadgesInv, Counted, Doubted, Wait
<1>6. \A v \in Workers : At(v, "send")' => work[v].of # b
  BY <1>2, SendersHold DEF Wait, At
<1>7. {b} \in SUBSET Badges
  OBVIOUS
<1> QED
  BY <1>1, <1>2, <1>3, <1>4, <1>5, <1>6, <1>7, JobsMove

\* A lapsed lease takes the claim away from nobody yet.
LEMMA LapseHolds == ASSUME BadgesInv, NEW b \in Badges, Lapse(b) PROVE BadgesInv'
<1> DEFINE n == [job[b] EXCEPT !.lapsed = TRUE]
<1>0. job[b] \in JobRow /\ job[b].status = "generating"
  BY DEF BadgesInv, BadgeTypes, Lapse, Generating
<1>1. /\ n \in JobRow /\ n.status = "generating" /\ n.attempts = job[b].attempts
      /\ n.request = job[b].request /\ n.token = job[b].token /\ n.version = job[b].version
  BY <1>0 DEF JobRow
<1>2. job' = [job EXCEPT ![b] = n] /\ UNCHANGED <<shown, work, keys, calls, open, doubt>>
  BY DEF Lapse, history, bounds
<1> HIDE DEF n
<1>3. BadgeTypes'
  BY <1>1, <1>2 DEF BadgesInv, BadgeTypes
<1>4. job'[b] = n /\ \A c \in Badges \ {b} : job'[c] = job[c]
  BY <1>2 DEF BadgesInv, BadgeTypes
<1>5. ASSUME NEW v \in Workers PROVE Held(v)'
  <2>1. CASE work[v].of = b
    <3>1. ~At(v, "send")
      BY <2>1 DEF Lapse
    <3>2. Mine(v)' => Mine(v)
      BY <1>1, <1>2, <1>4, <2>1 DEF Mine, Lapse, Generating
    <3> QED
      BY <1>1, <1>2, <1>4, <2>1, <3>1, <3>2 DEF BadgesInv, Held, Busy, At
  <2>2. CASE work[v].of # b
    BY <1>2, <1>4, <2>2 DEF BadgesInv, Held, Busy, At, Mine
  <2> QED
    BY <2>1, <2>2
<1>6. ASSUME NEW c \in Badges PROVE Counted(c)' /\ Doubted(c)'
  <2>1. CASE c = b
    BY <1>1, <1>2, <1>4, <2>1 DEF BadgesInv, Counted, Doubted, Lapse, Generating
  <2>2. CASE c # b
    BY <1>2, <1>4, <2>2 DEF BadgesInv, Counted, Doubted
  <2> QED
    BY <2>1, <2>2
<1> QED
  BY <1>3, <1>5, <1>6 DEF BadgesInv

-----------------------------------------------------------------------------
\* Every step keeps the invariant of Badges.
LEMMA BadgesStep == ASSUME BadgesInv, [BadgesNext]_badgesVars PROVE BadgesInv'
<1>1. ASSUME NEW w \in Workers, Step(w) \/ Crash(w) PROVE BadgesInv'
  BY <1>1, ExpireHolds, StopHolds, ClaimHolds, SendHolds, AnswerHolds, UnusableHolds,
     CommitHolds, FailHolds DEF Step
<1>2. ASSUME NEW b \in Badges, RetryBadge(b) \/ Restore(b) \/ Wait(b) \/ Lapse(b)
      PROVE  BadgesInv'
  BY <1>2, RetryHolds, RestoreHolds, WaitHolds, LapseHolds
<1>3. CASE UNCHANGED badgesVars
  BY <1>3 DEF badgesVars, BadgesInv, BadgeTypes, Held, Busy, At, Mine, Counted, Doubted
<1> QED
  BY <1>1, <1>2, <1>3, RedrawHolds DEF BadgesNext

\* The invariant of Badges holds in every reachable state.
THEOREM BadgesInvariant == BadgesSpec => []BadgesInv
  BY BadgesStart, BadgesStep, PTL DEF BadgesSpec

\* The variables of Badges keep their types.
THEOREM BadgeTypeCorrect == BadgesSpec => []BadgesTypeOK
<1>1. BadgesInv => BadgesTypeOK
  BY BadgeTypesAreTypes DEF BadgesInv
<1> QED
  BY <1>1, BadgesInvariant, PTL

\* At most MaxAttempts requests are sent for one order of a badge, over claims that lapse,
\* processes that die and workers that come back late.
THEOREM RetriesAreBounded == BadgesSpec => []TwoRetriesAtMost
<1>1. BadgesInv => TwoRetriesAtMost
  <2> SUFFICES ASSUME BadgesInv, NEW b \in Badges PROVE calls[b] <= MaxAttempts
    BY DEF TwoRetriesAtMost
  <2>1. calls[b] \in Nat /\ job[b].attempts \in 0..MaxAttempts /\ calls[b] <= job[b].attempts
    BY DEF BadgesInv, BadgeTypes, JobRow, Counted
  <2> QED
    BY <2>1, BadgesAssumption
<1> QED
  BY <1>1, BadgesInvariant, PTL

\* A request of unknown outcome keeps its id through the retry by the user and the next
\* claim, so that the provider can tell a repetition from a second order.
THEOREM DoubtKept == BadgesSpec => []DoubtKeepsItsKey
<1>1. BadgesInv => DoubtKeepsItsKey
  BY DEF BadgesInv, Doubted, DoubtKeepsItsKey
<1> QED
  BY <1>1, BadgesInvariant, PTL

\* A request for a badge leaves only when every request since the last order of a person
\* was refused for the moment: what may have been charged is not sent again by itself.
THEOREM NobodyPaysTwice == BadgesSpec => NoSecondCharge
<1> DEFINE Unpaid == \A b \in Badges : calls'[b] > calls[b] => open[b] = {}
<1>1. ASSUME BadgesInv, [BadgesNext]_badgesVars PROVE [Unpaid]_badgesVars
  <2>1. ASSUME NEW w \in Workers, Send(w) PROVE Unpaid
    <3>1. open[work[w].of] = {}
      BY <1>1, <2>1 DEF BadgesInv, Held, Busy, At, Send
    <3>2. \A b \in Badges : b # work[w].of => calls'[b] = calls[b]
      BY <1>1, <2>1 DEF Send, BadgesInv, BadgeTypes
    <3> QED
      BY <1>1, <3>1, <3>2 DEF BadgesInv, BadgeTypes
  <2>2. ASSUME NEW w \in Workers, Step(w) \/ Crash(w), ~Send(w) PROVE Unpaid
    <3>1. UNCHANGED calls
      BY <2>2 DEF Step, ExpireLost, NothingToDo, Claim, Answer, Unusable, Commit, Fail, Crash, history
    <3> QED
      BY <1>1, <3>1 DEF BadgesInv, BadgeTypes
  <2>3. ASSUME NEW b \in Badges, RetryBadge(b) \/ Restore(b) \/ Wait(b) \/ Lapse(b) PROVE Unpaid
    <3>1. calls' = calls \/ calls' = [calls EXCEPT ![b] = 0]
      BY <2>3 DEF RetryBadge, Ordered, Restore, Wait, Lapse, history
    <3> QED
      BY <1>1, <3>1 DEF BadgesInv, BadgeTypes
  <2>4. ASSUME NEW old \in SUBSET Badges, Redraw(old) PROVE Unpaid
    <3>1. \A b \in Badges : calls'[b] = calls[b] \/ calls'[b] = 0
      BY <2>4 DEF Redraw
    <3> QED
      BY <1>1, <3>1 DEF BadgesInv, BadgeTypes
  <2> QED
    BY <1>1, <2>1, <2>2, <2>3, <2>4 DEF BadgesNext
<1> QED
  BY <1>1, BadgesInvariant, PTL DEF BadgesSpec, NoSecondCharge
=============================================================================
