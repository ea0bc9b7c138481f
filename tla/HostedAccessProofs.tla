------------------------- MODULE HostedAccessProofs -------------------------
(***************************************************************************)
(* Proofs about HostedAccess for any number of accounts, clients, sessions *)
(* and invitations, and for any limits.                                    *)
(***************************************************************************)
EXTENDS HostedAccess, FiniteSetTheorems, TLAPS

\* What an operation read before its await still means something after it: accounts
\* do not go away, and one that does not exist has neither a session nor a reset.
Grounded ==
  /\ \A r \in Requests :
       /\ work[r].op \in {"login", "change", "reset"} => work[r].user \in Users
       /\ work[r].op \in {"change", "reset"} => Exists(work[r].user)
  /\ \A s \in SessionIds : Live(s) => session[s].user \in Users
  /\ \A u \in Users : ~Exists(u) => ~mustChange[u]

\* The part of the invariant about accounts and sessions.
AccountInv == TypeOK /\ SlotsMatch /\ Grounded /\ SessionsAreCurrent

\* What is known of an operation under way.
Operation(ops) == [op : ops, user : Users \cup {Nobody}, invite : SUBSET Invites,
                   active : BOOLEAN, hash : 0..MaxHash, new : 0..MaxHash]
Started        == {"bootstrap", "register", "login", "change", "reset"}
WorkRow        == Operation({"none"} \cup Started)
StartedRow     == Operation(Started)

\* The part of TypeOK and Grounded that speaks of the operations under way.
WorkInv ==
  /\ work \in [Requests -> WorkRow] /\ SlotsMatch
  /\ activeWork \in 0..MaxPasswordWork /\ nextHash \in 0..MaxHash
  /\ \A r \in Requests :
       /\ work[r].op \in {"login", "change", "reset"} => work[r].user \in Users
       /\ work[r].op \in {"change", "reset"} => Exists(work[r].user)

\* The limits of the settings are positive, and the counter of failures has room.
LEMMA Limits ==
  /\ MaxUses \in Nat \ {0} /\ MaxPasswordWork \in Nat \ {0} /\ FailureLimit \in Nat \ {0}
  /\ Window \in Nat \ {0} /\ SessionLife \in Nat \ {0} /\ MaxHash \in Nat \ {0}
  /\ MaxFailures \in Nat /\ MaxFailures >= FailureLimit + MaxPasswordWork
BY AccessAssumption, Zenon DEF AccessAssumption

-----------------------------------------------------------------------------
(* Slots for password work. *)

\* At most as many hashes run as there are slots.
LEMMA BusyFinite == IsFiniteSet(Busy) /\ Cardinality(Busy) \in Nat
<1>1. Busy \subseteq Requests
  BY DEF Busy
<1> QED
  BY <1>1, AccessAssumption, FS_Subset, FS_CardinalityType

\* An operation that begins is one more.
LEMMA BeginTakesSlot ==
  ASSUME TypeOK, SlotsMatch, NEW r \in Requests, NEW w,
         Begin(r, w), w.op # "none"
  PROVE  SlotsMatch' /\ activeWork' \in 0..MaxPasswordWork
<1>1. Busy' = Busy \cup {r} /\ r \notin Busy
  BY DEF Busy, Begin, Idle, TypeOK
<1>2. Cardinality(Busy') = Cardinality(Busy) + 1
  BY <1>1, BusyFinite, FS_AddElement
<1> QED
  BY <1>2, BusyFinite, AccessAssumption DEF SlotsMatch, Begin, HasSlot, TypeOK

\* One that ends was one of them.
LEMMA ReleaseFreesSlot ==
  ASSUME TypeOK, SlotsMatch, NEW r \in Requests, Release(r), work[r].op # "none"
  PROVE  SlotsMatch' /\ activeWork' \in 0..MaxPasswordWork
<1>1. Busy' = Busy \ {r} /\ r \in Busy
  BY DEF Busy, Release, Idle, TypeOK
<1>2. Cardinality(Busy') = Cardinality(Busy) - 1 /\ Cardinality(Busy') \in Nat
  BY <1>1, BusyFinite, FS_RemoveElement, FS_CardinalityType
<1> QED
  BY <1>2, BusyFinite, AccessAssumption DEF SlotsMatch, Release, TypeOK

\* A process that dies takes its hashes with it.
LEMMA DropFreesSlots ==
  ASSUME DropWork
  PROVE  SlotsMatch' /\ activeWork' \in 0..MaxPasswordWork
<1>1. Busy' = {}
  BY DEF Busy, DropWork, Idle
<1> QED
  BY <1>1, FS_EmptySet, AccessAssumption DEF SlotsMatch, DropWork

\* A step that starts and ends no hash leaves the slots alone.
LEMMA SlotsUnchanged ==
  ASSUME SlotsMatch, UNCHANGED <<work, activeWork>>
  PROVE  SlotsMatch'
BY DEF SlotsMatch, Busy

-----------------------------------------------------------------------------
(* Sessions. *)

SessionRow == [user : Users \cup {Nobody}, hash : 0..MaxHash, left : 0..SessionLife]

\* The absence of a session is a row.
LEMMA NoSessionIsARow == NoSession \in SessionRow
BY AccessAssumption DEF NoSession, SessionRow

\* createSession() adds one session and leaves the others.
LEMMA OpenedAddsOne ==
  ASSUME NEW table \in [SessionIds -> SessionRow], NEW u \in Users, NEW h \in 0..MaxHash,
         NEW t \in Opened(table, u, h)
  PROVE  /\ t \in [SessionIds -> SessionRow]
         /\ \A s \in SessionIds :
              t[s] = table[s] \/ t[s] = [user |-> u, hash |-> h, left |-> SessionLife]
BY AccessAssumption DEF Opened, SessionRow

\* revokeUserSessions() leaves the sessions of the others.
LEMMA RevokedLeavesOthers ==
  ASSUME session \in [SessionIds -> SessionRow], NEW u
  PROVE  /\ Revoked(u) \in [SessionIds -> SessionRow]
         /\ \A s \in SessionIds :
              \/ Revoked(u)[s] = NoSession
              \/ Revoked(u)[s] = session[s] /\ session[s].user # u
BY NoSessionIsARow DEF Revoked

\* Sessions that lived before, or were opened with what the account has now, are
\* current.
LEMMA CurrentAfter ==
  ASSUME AccountInv, session' \in [SessionIds -> SessionRow],
         \A s \in SessionIds :
           \/ session'[s].left = 0
           \/ /\ session'[s].user \in Users
              /\ session'[s].hash = hash'[session'[s].user]
              /\ status'[session'[s].user] = "active"
  PROVE  SessionsAreCurrent' /\ \A s \in SessionIds : Live(s)' => session'[s].user \in Users
BY DEF SessionsAreCurrent, Live

-----------------------------------------------------------------------------
(* The actions, one at a time. *)

\* An empty database and an idle process satisfy the invariant.
LEMMA InitAccounts == Init => AccountInv
<1> SUFFICES ASSUME Init PROVE AccountInv
  OBVIOUS
<1>1. TypeOK
  <2>1. /\ NoSession \in SessionRow
        /\ NoFailure \in [count : 0..MaxFailures, age : 0..Window, blockedFor : 0..Window]
        /\ 0 \in 0..MaxHash /\ 0 \in 0..MaxUses /\ 0 \in 0..MaxPasswordWork
    BY NoSessionIsARow, AccessAssumption DEF NoFailure
  <2>2. Idle \in WorkRow
    BY <2>1 DEF Idle, WorkRow, Operation
  <2> QED
    BY <2>1, <2>2 DEF Init, TypeOK, SessionRow, WorkRow, Operation, Started
<1>2. SlotsMatch
  <2>1. Busy = {}
    BY DEF Init, Busy, Idle
  <2> QED
    BY <2>1, FS_EmptySet DEF SlotsMatch, Init
<1>3. Grounded /\ SessionsAreCurrent
  BY DEF Init, Grounded, SessionsAreCurrent, Live, Exists, NoSession, Idle
<1> QED
  BY <1>1, <1>2, <1>3 DEF AccountInv

\* An operation begins: nothing is written.
LEMMA BeginKeeps ==
  ASSUME AccountInv, NEW r \in Requests, NEW w, Begin(r, w),
         w \in StartedRow,
         w.op \in {"login", "change", "reset"} => w.user \in Users,
         w.op \in {"change", "reset"} => Exists(w.user),
         nextHash' \in 0..MaxHash,
         UNCHANGED <<account, session, failure, invites, registrationEnabled>>
  PROVE  AccountInv'
<1>1. SlotsMatch' /\ activeWork' \in 0..MaxPasswordWork
  <2>1. w.op # "none"
    BY DEF StartedRow, Operation, Started
  <2> QED
    BY <2>1, BeginTakesSlot DEF AccountInv
<1>2. work' = [work EXCEPT ![r] = w]
  BY DEF Begin
<1>3. TypeOK'
  BY <1>1, <1>2 DEF AccountInv, TypeOK, account, invites, StartedRow, Operation, Started
<1>4. Grounded' /\ SessionsAreCurrent'
  BY <1>2 DEF AccountInv, TypeOK, Grounded, SessionsAreCurrent, Live, Exists, account
<1> QED
  BY <1>1, <1>3, <1>4 DEF AccountInv

\* A request that takes a slot has read what it will need.
LEMMA BeginHashingKeeps ==
  ASSUME AccountInv, NEW r \in Requests, NEW w, BeginHashing(r, w),
         w \in StartedRow,
         w.op \in {"login", "change", "reset"} => w.user \in Users,
         w.op \in {"change", "reset"} => Exists(w.user),
         UNCHANGED <<account, session, failure, invites, registrationEnabled>>
  PROVE  AccountInv'
<1> DEFINE v == [w EXCEPT !.new = nextHash + 1]
<1>1. nextHash + 1 \in 0..MaxHash /\ nextHash' = nextHash + 1
  BY AccessAssumption DEF AccountInv, TypeOK, BeginHashing
<1>2. /\ v \in StartedRow
      /\ v.op = w.op /\ v.user = w.user
  BY <1>1 DEF StartedRow, Operation
<1>3. Begin(r, v)
  BY DEF BeginHashing
<1> HIDE DEF v
<1> QED
  BY <1>1, <1>2, <1>3, BeginKeeps

\* An operation ends: what it read is forgotten.
LEMMA EndKeepsWork ==
  ASSUME AccountInv, NEW r \in Requests, work[r].op # "none",
         Release(r) \/ DropWork,
         \A u \in Users : status[u] # "none" => status'[u] # "none"
  PROVE  WorkInv'
<1>1. /\ SlotsMatch' /\ activeWork' \in 0..MaxPasswordWork
      /\ nextHash' \in 0..MaxHash
  BY ReleaseFreesSlot, DropFreesSlots DEF AccountInv, TypeOK, Release, DropWork
<1>2. Idle \in WorkRow /\ Idle.op = "none"
  BY AccessAssumption DEF Idle, WorkRow, Operation
<1>3. /\ work' \in [Requests -> WorkRow]
      /\ \A q \in Requests : work'[q] = Idle \/ work'[q] = work[q]
  BY <1>2 DEF AccountInv, TypeOK, Release, DropWork, WorkRow, Operation, Started
<1>4. ASSUME NEW q \in Requests
      PROVE  /\ work'[q].op \in {"login", "change", "reset"} => work'[q].user \in Users
             /\ work'[q].op \in {"change", "reset"} => status'[work'[q].user] # "none"
  BY <1>2, <1>3 DEF AccountInv, Grounded, Exists
<1> QED
  BY <1>1, <1>3, <1>4 DEF WorkInv, Exists

\* An account is inserted.
LEMMA JoinTypes ==
  ASSUME AccountInv, NEW r \in Requests, NEW u \in Users, Joins(r, u)
  PROVE  /\ work[r].op # "none" /\ work[r].new \in 0..MaxHash
         /\ status[u] = "none" /\ status' = [status EXCEPT ![u] = "active"]
         /\ hash' = [hash EXCEPT ![u] = work[r].new]
         /\ mustChange' = [mustChange EXCEPT ![u] = FALSE]
         /\ role' \in [Users -> {"none", "user", "admin"}]
         /\ open' = open /\ uses' \in [Invites -> 0..MaxUses]
         /\ redeemed' \subseteq Invites \X Users
<1>1. work[r].new \in 0..MaxHash /\ work[r].invite \in SUBSET Invites
  BY DEF AccountInv, TypeOK
<1>2. CASE BootstrapInserts(r, u)
  BY <1>1, <1>2 DEF BootstrapInserts, Insert, AccountInv, TypeOK, invites
<1>3. CASE RegisterInserts(r, u)
  <2>1. PICK i \in Invites : /\ RegistrationOpen(i)
                             /\ uses' = [uses EXCEPT ![i] = @ + 1]
                             /\ redeemed' = redeemed \cup {<<i, u>>}
    BY <1>1, <1>3 DEF RegisterInserts
  <2>2. uses[i] + 1 \in 0..MaxUses
    BY <2>1, AccessAssumption DEF RegistrationOpen, AccountInv, TypeOK
  <2> QED
    BY <1>1, <1>3, <2>1, <2>2 DEF RegisterInserts, Insert, AccountInv, TypeOK
<1> QED
  BY <1>2, <1>3 DEF Joins

\* A new account opens a session of its own, or none if the process dies.
LEMMA JoinKeeps ==
  ASSUME AccountInv, NEW r \in Requests, NEW u \in Users, Joins(r, u),
         \/ Release(r) /\ session' \in Opened(session, u, work[r].new)
         \/ DropWork /\ UNCHANGED session,
         UNCHANGED <<failure, registrationEnabled>>
  PROVE  AccountInv'
<1>1. \A v \in Users : status[v] # "none" => status'[v] # "none"
  BY JoinTypes DEF AccountInv, TypeOK, Exists
<1>2. session \in [SessionIds -> SessionRow]
  BY DEF AccountInv, TypeOK, SessionRow
<1>3. /\ session' \in [SessionIds -> SessionRow]
      /\ \A s \in SessionIds :
           session'[s] = session[s] \/ session'[s] = [user |-> u, hash |-> work[r].new, left |-> SessionLife]
  BY <1>2, JoinTypes, OpenedAddsOne
<1>4. ASSUME NEW s \in SessionIds, session'[s] = session[s], session[s].left > 0
      PROVE  /\ session[s].user \in Users /\ session[s].user # u
             /\ session[s].hash = hash[session[s].user]
             /\ status[session[s].user] = "active"
  BY <1>4, JoinTypes DEF AccountInv, SessionsAreCurrent, Grounded, Live
<1>5. ASSUME NEW s \in SessionIds
      PROVE  \/ session'[s].left = 0
             \/ /\ session'[s].user \in Users
                /\ session'[s].hash = hash'[session'[s].user]
                /\ status'[session'[s].user] = "active"
  <2>1. CASE session'[s] = session[s] /\ session[s].left > 0
    BY <1>4, <2>1, JoinTypes DEF AccountInv, TypeOK
  <2>2. CASE session'[s] = session[s] /\ ~(session[s].left > 0)
    BY <1>2, <2>2, AccessAssumption DEF SessionRow
  <2>3. CASE session'[s] = [user |-> u, hash |-> work[r].new, left |-> SessionLife]
    BY <2>3, JoinTypes DEF AccountInv, TypeOK
  <2> QED
    BY <1>3, <2>1, <2>2, <2>3
<1>6. SessionsAreCurrent' /\ \A s \in SessionIds : Live(s)' => session'[s].user \in Users
  BY <1>3, <1>5, CurrentAfter
<1>7. WorkInv'
  <2>1. Release(r) \/ DropWork
    OBVIOUS
  <2>2. work[r].op # "none"
    BY JoinTypes
  <2> QED
    BY <1>1, <2>1, <2>2, EndKeepsWork
<1>8. TypeOK' /\ SlotsMatch'
  <2>1. /\ status' \in [Users -> {"none", "active", "banned"}]
        /\ hash' \in [Users -> 0..MaxHash] /\ mustChange' \in [Users -> BOOLEAN]
        /\ role' \in [Users -> {"none", "user", "admin"}]
        /\ open' \in [Invites -> BOOLEAN] /\ uses' \in [Invites -> 0..MaxUses]
        /\ redeemed' \subseteq Invites \X Users
    <3>1. /\ status \in [Users -> {"none", "active", "banned"}]
          /\ hash \in [Users -> 0..MaxHash] /\ mustChange \in [Users -> BOOLEAN]
          /\ open \in [Invites -> BOOLEAN]
      BY DEF AccountInv, TypeOK
    <3> QED
      BY <3>1, JoinTypes
  <2>2. /\ failure' \in [Users -> [count : 0..MaxFailures, age : 0..Window,
                                   blockedFor : 0..Window]]
        /\ registrationEnabled' \in BOOLEAN
    BY DEF AccountInv, TypeOK
  <2>3. /\ work' \in [Requests -> WorkRow] /\ activeWork' \in 0..MaxPasswordWork
        /\ nextHash' \in 0..MaxHash /\ SlotsMatch'
    BY <1>7 DEF WorkInv
  <2> QED
    BY <1>3, <2>1, <2>2, <2>3 DEF TypeOK, SessionRow, WorkRow, Operation, Started
<1>9. Grounded'
  <2>1. ASSUME NEW v \in Users, status'[v] = "none" PROVE ~mustChange'[v]
    <3>1. v # u /\ status[v] = "none" /\ mustChange'[v] = mustChange[v]
      BY <2>1, JoinTypes DEF AccountInv, TypeOK
    <3> QED
      BY <3>1 DEF AccountInv, Grounded, Exists
  <2> QED
    BY <1>6, <1>7, <2>1 DEF Grounded, Exists, WorkInv
<1> QED
  BY <1>6, <1>8, <1>9 DEF AccountInv

\* The other writes that follow an await leave every account where it is, and the
\* types of what they write are right.
LEMMA EndKeeps ==
  ASSUME AccountInv, NEW r \in Requests, work[r].op # "none",
         Release(r) \/ DropWork,
         UNCHANGED <<status, role, invites, registrationEnabled>>,
         hash' \in [Users -> 0..MaxHash], mustChange' \in [Users -> BOOLEAN],
         \A u \in Users : ~Exists(u) => mustChange'[u] = mustChange[u],
         session' \in [SessionIds -> SessionRow],
         \A s \in SessionIds :
           \/ session'[s].left = 0
           \/ /\ session'[s].user \in Users
              /\ session'[s].hash = hash'[session'[s].user]
              /\ status'[session'[s].user] = "active",
         failure' \in [Users -> [count : 0..MaxFailures, age : 0..Window, blockedFor : 0..Window]]
  PROVE  AccountInv'
<1>1. WorkInv'
  BY EndKeepsWork
<1>2. SessionsAreCurrent' /\ \A s \in SessionIds : Live(s)' => session'[s].user \in Users
  BY CurrentAfter
<1>3. TypeOK' /\ SlotsMatch'
  BY <1>1 DEF AccountInv, TypeOK, SessionRow, invites, WorkInv, WorkRow, Operation, Started
<1>4. ASSUME NEW u \in Users, status'[u] = "none" PROVE ~mustChange'[u]
  BY <1>4 DEF AccountInv, Grounded, Exists
<1>5. Grounded'
  BY <1>1, <1>2, <1>4 DEF Grounded, Exists, WorkInv
<1> QED
  BY <1>2, <1>3, <1>5 DEF AccountInv

\* The sessions there are have what EndKeeps asks of them.
LEMMA SessionsNow ==
  ASSUME AccountInv
  PROVE  /\ session \in [SessionIds -> SessionRow]
         /\ \A s \in SessionIds :
              \/ session[s].left = 0
              \/ /\ session[s].user \in Users
                 /\ session[s].hash = hash[session[s].user]
                 /\ status[session[s].user] = "active"
<1>1. session \in [SessionIds -> SessionRow]
  BY DEF AccountInv, TypeOK, SessionRow
<1>2. \A s \in SessionIds : session[s].left = 0 \/ Live(s)
  BY <1>1, AccessAssumption DEF SessionRow, Live
<1> QED
  BY <1>1, <1>2 DEF AccountInv, Grounded, SessionsAreCurrent

\* The rows of failed logins stay within their bounds.
LEMMA FailureTypes ==
  ASSUME TypeOK, NEW u \in Users
  PROVE  /\ AfterFailure(u) \in [count : 0..MaxFailures, age : 0..Window, blockedFor : 0..Window]
         /\ NoFailure \in [count : 0..MaxFailures, age : 0..Window, blockedFor : 0..Window]
<1>1. /\ failure[u].count \in 0..MaxFailures /\ Window \in Nat /\ MaxFailures \in Nat
      /\ 1 <= MaxFailures
  BY Limits DEF TypeOK
<1> QED
  BY <1>1 DEF AfterFailure, NoFailure

\* A login that fails, succeeds or is cut off.
LEMMA LoginKeeps ==
  ASSUME AccountInv, NEW r \in Requests, FailLogin(r) \/ FinishLogin(r) \/ CrashAfterLogin(r)
  PROVE  AccountInv'
<1> DEFINE u == work[r].user
<1>1. u \in Users /\ work[r].op # "none" /\ work[r].hash \in 0..MaxHash
  BY DEF FailLogin, FinishLogin, CrashAfterLogin, AccountInv, Grounded, TypeOK
<1>2. /\ Release(r) \/ DropWork
      /\ UNCHANGED <<status, role, hash, mustChange, invites, registrationEnabled>>
      /\ failure' = [failure EXCEPT ![u] = AfterFailure(u)]
         \/ failure' = [failure EXCEPT ![u] = NoFailure]
  BY DEF FailLogin, FinishLogin, CrashAfterLogin, account
<1>3. failure' \in [Users -> [count : 0..MaxFailures, age : 0..Window, blockedFor : 0..Window]]
  <2>1. failure \in [Users -> [count : 0..MaxFailures, age : 0..Window, blockedFor : 0..Window]]
    BY DEF AccountInv, TypeOK
  <2>2. /\ AfterFailure(u) \in [count : 0..MaxFailures, age : 0..Window, blockedFor : 0..Window]
        /\ NoFailure \in [count : 0..MaxFailures, age : 0..Window, blockedFor : 0..Window]
    BY <1>1, FailureTypes DEF AccountInv
  <2> QED
    BY <1>1, <1>2, <2>1, <2>2
<1>4. /\ session' \in [SessionIds -> SessionRow]
      /\ \A s \in SessionIds :
           \/ session'[s] = session[s]
           \/ /\ session'[s] = [user |-> u, hash |-> work[r].hash, left |-> SessionLife]
              /\ status[u] = "active" /\ hash[u] = work[r].hash
  <2>1. CASE session' = session
    BY <2>1, SessionsNow
  <2>2. CASE /\ session' \in Opened(session, u, work[r].hash)
             /\ status[u] = "active" /\ Unchanged(r)
    BY <1>1, <2>2, SessionsNow, OpenedAddsOne DEF Unchanged
  <2> QED
    BY <2>1, <2>2 DEF FailLogin, FinishLogin, CrashAfterLogin
<1> HIDE DEF u
<1>5. ASSUME NEW s \in SessionIds
      PROVE  \/ session'[s].left = 0
             \/ /\ session'[s].user \in Users
                /\ session'[s].hash = hash'[session'[s].user]
                /\ status'[session'[s].user] = "active"
  BY <1>1, <1>2, <1>4, SessionsNow
<1>6. hash \in [Users -> 0..MaxHash] /\ mustChange \in [Users -> BOOLEAN]
  BY DEF AccountInv, TypeOK
<1> QED
  BY <1>1, <1>2, <1>3, <1>4, <1>5, <1>6, EndKeeps

\* A request that is refused after its hash.
LEMMA RefusedKeeps ==
  ASSUME AccountInv, NEW r \in Requests, Refused(r)
  PROVE  AccountInv'
<1>1. /\ hash \in [Users -> 0..MaxHash] /\ mustChange \in [Users -> BOOLEAN]
      /\ failure \in [Users -> [count : 0..MaxFailures, age : 0..Window, blockedFor : 0..Window]]
  BY DEF AccountInv, TypeOK
<1>2. /\ work[r].op # "none" /\ Release(r)
      /\ UNCHANGED <<status, role, hash, mustChange, session, failure, invites, registrationEnabled>>
  BY DEF Refused, account
<1> QED
  BY <1>1, <1>2, SessionsNow, EndKeeps

\* A new password ends the sessions of its account.
LEMMA PasswordKeeps ==
  ASSUME AccountInv, NEW r \in Requests, FinishPassword(r) \/ CrashAfterPassword(r)
  PROVE  AccountInv'
<1> DEFINE u == work[r].user
<1>1. /\ StoresPassword(r) /\ u \in Users /\ Exists(u)
      /\ work[r].op # "none" /\ work[r].new \in 0..MaxHash
  BY DEF FinishPassword, CrashAfterPassword, StoresPassword, AccountInv, Grounded, TypeOK
<1>2. /\ Release(r) \/ DropWork
      /\ UNCHANGED <<status, role, invites, registrationEnabled, failure>>
      /\ hash' = [hash EXCEPT ![u] = work[r].new]
      /\ \A v \in Users : v # u => mustChange'[v] = mustChange[v]
      /\ mustChange' \in [Users -> BOOLEAN]
  BY <1>1 DEF FinishPassword, CrashAfterPassword, StoresPassword, AccountInv, TypeOK
<1>3. \/ session' = Revoked(u)
      \/ session' \in Opened(Revoked(u), u, work[r].new) /\ status[u] = "active"
  BY DEF FinishPassword, CrashAfterPassword
<1>4. /\ Revoked(u) \in [SessionIds -> SessionRow]
      /\ \A s \in SessionIds :
           \/ Revoked(u)[s] = NoSession
           \/ Revoked(u)[s] = session[s] /\ session[s].user # u
  BY SessionsNow, RevokedLeavesOthers
<1>5. /\ session' \in [SessionIds -> SessionRow]
      /\ \A s \in SessionIds :
           \/ session'[s] = NoSession
           \/ session'[s] = session[s] /\ session[s].user # u
           \/ /\ session'[s] = [user |-> u, hash |-> work[r].new, left |-> SessionLife]
              /\ status[u] = "active"
  <2>1. CASE session' = Revoked(u)
    BY <1>4, <2>1
  <2>2. CASE session' \in Opened(Revoked(u), u, work[r].new) /\ status[u] = "active"
    <3>1. /\ session' \in [SessionIds -> SessionRow]
          /\ \A s \in SessionIds :
               \/ session'[s] = Revoked(u)[s]
               \/ session'[s] = [user |-> u, hash |-> work[r].new, left |-> SessionLife]
      BY <1>1, <1>4, <2>2, OpenedAddsOne
    <3> QED
      BY <1>4, <2>2, <3>1, Zenon
  <2> QED
    BY <1>3, <2>1, <2>2
<1> HIDE DEF u
<1>6. hash \in [Users -> 0..MaxHash] /\ NoSession.left = 0
  BY DEF AccountInv, TypeOK, NoSession
<1>7. ASSUME NEW s \in SessionIds
      PROVE  \/ session'[s].left = 0
             \/ /\ session'[s].user \in Users
                /\ session'[s].hash = hash'[session'[s].user]
                /\ status'[session'[s].user] = "active"
  <2>1. CASE session'[s] = NoSession
    BY <1>6, <2>1
  <2>2. CASE session'[s] = session[s] /\ session[s].user # u
    BY <1>1, <1>2, <1>6, <2>2, SessionsNow
  <2>3. CASE /\ session'[s] = [user |-> u, hash |-> work[r].new, left |-> SessionLife]
             /\ status[u] = "active"
    BY <1>1, <1>2, <1>6, <2>3
  <2> QED
    BY <1>5, <2>1, <2>2, <2>3
<1>8. hash' \in [Users -> 0..MaxHash] /\ \A v \in Users : ~Exists(v) => mustChange'[v] = mustChange[v]
  BY <1>1, <1>2, <1>6
<1>9. failure' \in [Users -> [count : 0..MaxFailures, age : 0..Window, blockedFor : 0..Window]]
  BY <1>2 DEF AccountInv, TypeOK
<1> QED
  BY <1>1, <1>2, <1>5, <1>7, <1>8, <1>9, EndKeeps

\* Bans, logouts and time only take sessions away.
LEMMA BanKeeps ==
  ASSUME AccountInv, NEW u \in Users, Ban(u) \/ Unban(u)
  PROVE  AccountInv'
<1>1. /\ UNCHANGED <<role, hash, mustChange, failure, invites, registrationEnabled, work, activeWork, nextHash>>
      /\ Exists(u)
      /\ \/ status' = [status EXCEPT ![u] = "banned"] /\ session' = Revoked(u)
         \/ status' = [status EXCEPT ![u] = "active"] /\ session' = session
  BY DEF Ban, Unban
<1>2. /\ status' \in [Users -> {"none", "active", "banned"}]
      /\ \A v \in Users : Exists(v) <=> status'[v] # "none"
  BY <1>1 DEF AccountInv, TypeOK, Exists
<1>3. /\ session' \in [SessionIds -> SessionRow]
      /\ \A s \in SessionIds :
           \/ session'[s].left = 0
           \/ /\ session'[s].user \in Users
              /\ session'[s].hash = hash'[session'[s].user]
              /\ status'[session'[s].user] = "active"
  <2>1. CASE status' = [status EXCEPT ![u] = "banned"] /\ session' = Revoked(u)
    <3>1. /\ session' \in [SessionIds -> SessionRow]
          /\ \A s \in SessionIds : \/ session'[s] = NoSession
                                   \/ session'[s] = session[s] /\ session[s].user # u
      BY <2>1, SessionsNow, RevokedLeavesOthers
    <3>2. ASSUME NEW s \in SessionIds, session'[s] # NoSession, session'[s].left # 0
          PROVE  /\ session'[s].user \in Users
                 /\ session'[s].hash = hash'[session'[s].user]
                 /\ status'[session'[s].user] = "active"
      BY <1>1, <2>1, <3>1, <3>2, SessionsNow DEF AccountInv, TypeOK
    <3> QED
      BY <3>1, <3>2 DEF NoSession
  <2>2. CASE status' = [status EXCEPT ![u] = "active"] /\ session' = session
    BY <1>1, <2>2, SessionsNow DEF AccountInv, TypeOK
  <2> QED
    BY <1>1, <2>1, <2>2
<1>4. SessionsAreCurrent' /\ \A s \in SessionIds : Live(s)' => session'[s].user \in Users
  BY <1>3, CurrentAfter
<1>5. TypeOK'
  BY <1>1, <1>2, <1>3 DEF AccountInv, TypeOK, SessionRow, invites
<1>6. SlotsMatch'
  BY <1>1, SlotsUnchanged DEF AccountInv
<1>7. ASSUME NEW v \in Users, status'[v] = "none" PROVE ~mustChange'[v]
  BY <1>1, <1>2, <1>7 DEF AccountInv, Grounded
<1>8. Grounded'
  BY <1>1, <1>2, <1>4, <1>7 DEF AccountInv, Grounded, Exists
<1> QED
  BY <1>4, <1>5, <1>6, <1>8 DEF AccountInv

\* Everything else leaves accounts and work alone, and each session lives at most on.
LEMMA RestKeeps ==
  ASSUME AccountInv, UNCHANGED account,
         UNCHANGED <<work, activeWork, nextHash>> \/ DropWork,
         open' \in [Invites -> BOOLEAN], registrationEnabled' \in BOOLEAN,
         UNCHANGED <<uses, redeemed>>,
         failure' \in [Users -> [count : 0..MaxFailures, age : 0..Window, blockedFor : 0..Window]],
         session' \in [SessionIds -> SessionRow],
         \A s \in SessionIds :
           \/ session'[s].left = 0
           \/ /\ session[s].left # 0
              /\ session'[s].user = session[s].user /\ session'[s].hash = session[s].hash
  PROVE  AccountInv'
<1>1. ASSUME NEW s \in SessionIds
      PROVE  \/ session'[s].left = 0
             \/ /\ session'[s].user \in Users
                /\ session'[s].hash = hash'[session'[s].user]
                /\ status'[session'[s].user] = "active"
  BY SessionsNow DEF account
<1>2. SessionsAreCurrent' /\ \A s \in SessionIds : Live(s)' => session'[s].user \in Users
  BY <1>1, CurrentAfter
<1>3. WorkInv'
  <2>1. CASE UNCHANGED <<work, activeWork, nextHash>>
    <3>1. SlotsMatch'
      BY <2>1, SlotsUnchanged DEF AccountInv
    <3> QED
      BY <2>1, <3>1 DEF AccountInv, TypeOK, Grounded, Exists, account, WorkInv, WorkRow,
                        Operation, Started
  <2>2. CASE DropWork
    <3>1. SlotsMatch' /\ activeWork' \in 0..MaxPasswordWork
      BY <2>2, DropFreesSlots
    <3>2. Idle \in WorkRow /\ Idle.op = "none"
      BY Limits DEF Idle, WorkRow, Operation
    <3> QED
      BY <2>2, <3>1, <3>2 DEF AccountInv, TypeOK, DropWork, WorkInv
  <2> QED
    BY <2>1, <2>2
<1>4. TypeOK' /\ SlotsMatch'
  BY <1>3 DEF AccountInv, TypeOK, SessionRow, account, WorkInv, WorkRow, Operation, Started
<1>5. ASSUME NEW v \in Users, status'[v] = "none" PROVE ~mustChange'[v]
  BY <1>5 DEF AccountInv, Grounded, Exists, account
<1>6. Grounded'
  BY <1>2, <1>3, <1>5 DEF Grounded, Exists, WorkInv
<1> QED
  BY <1>2, <1>4, <1>6 DEF AccountInv

\* The requests that hash nothing, the clock and the crash.
LEMMA OthersKeep ==
  ASSUME AccountInv,
         \/ \E s \in SessionIds : Logout(s)
         \/ \E i \in Invites : CloseInvite(i)
         \/ SetRegistration \/ Tick \/ Crash
  PROVE  AccountInv'
<1>1. /\ session \in [SessionIds -> SessionRow] /\ open \in [Invites -> BOOLEAN]
      /\ registrationEnabled \in BOOLEAN
      /\ failure \in [Users -> [count : 0..MaxFailures, age : 0..Window, blockedFor : 0..Window]]
  BY SessionsNow DEF AccountInv, TypeOK
<1>2. NoSession \in SessionRow /\ NoSession.left = 0
  BY NoSessionIsARow DEF NoSession
<1>3. ASSUME NEW s \in SessionIds, Logout(s) PROVE AccountInv'
  <2>1. /\ session' \in [SessionIds -> SessionRow]
        /\ \A t \in SessionIds : session'[t] = NoSession \/ session'[t] = session[t]
    BY <1>1, <1>2, <1>3 DEF Logout
  <2> QED
    BY <1>1, <1>2, <1>3, <2>1, RestKeeps DEF Logout, invites
<1>4. ASSUME NEW i \in Invites, CloseInvite(i) PROVE AccountInv'
  <2>1. open' \in [Invites -> BOOLEAN]
    BY <1>1, <1>4 DEF CloseInvite
  <2> QED
    BY <1>1, <1>4, <2>1, RestKeeps DEF CloseInvite
<1>5. CASE SetRegistration
  BY <1>1, <1>5, RestKeeps DEF SetRegistration, invites
<1>6. CASE Tick
  <2>1. ASSUME NEW s \in SessionIds
        PROVE  /\ session'[s] \in SessionRow
               /\ \/ session'[s].left = 0
                  \/ /\ session[s].left # 0
                     /\ session'[s].user = session[s].user /\ session'[s].hash = session[s].hash
    <3>1. CASE session[s].left > 1
      <4>1. session'[s] = [session[s] EXCEPT !.left = session[s].left - 1]
        BY <1>6, <3>1 DEF Tick
      <4>2. session[s] \in SessionRow
        BY <1>1
      <4> QED
        BY <3>1, <4>1, <4>2, Limits DEF SessionRow
    <3>2. CASE ~(session[s].left > 1)
      <4>1. session'[s] = NoSession
        BY <1>6, <3>2 DEF Tick
      <4> QED
        BY <1>2, <4>1
    <3> QED
      BY <3>1, <3>2
  <2>2. ASSUME NEW u \in Users
        PROVE  failure'[u] \in [count : 0..MaxFailures, age : 0..Window, blockedFor : 0..Window]
    <3> DEFINE f == failure[u]
               age == IF f.age < Window THEN f.age + 1 ELSE Window
    <3>1. failure'[u] = [f EXCEPT !.age = age, !.blockedFor = Sub(f.blockedFor)]
      BY <1>6 DEF Tick
    <3>2. f \in [count : 0..MaxFailures, age : 0..Window, blockedFor : 0..Window]
      BY <1>1
    <3>3. age \in 0..Window /\ Sub(f.blockedFor) \in 0..Window
      BY <3>2, Limits DEF Sub
    <3> HIDE DEF f, age
    <3> QED
      BY <3>1, <3>2, <3>3
  <2>3. /\ session' \in [SessionIds -> SessionRow]
        /\ failure' \in [Users -> [count : 0..MaxFailures, age : 0..Window, blockedFor : 0..Window]]
    BY <1>6, <2>1, <2>2 DEF Tick
  <2> QED
    BY <1>1, <1>6, <2>1, <2>3, RestKeeps DEF Tick, invites
<1>7. CASE Crash
  BY <1>1, <1>7, RestKeeps DEF Crash, invites
<1> QED
  BY <1>3, <1>4, <1>5, <1>6, <1>7

\* The requests up to their await.
LEMMA StartsKeep ==
  ASSUME AccountInv, NEW r \in Requests,
         \/ StartBootstrap(r)
         \/ \E i \in Invites : StartRegister(r, i)
         \/ \E u \in Users : StartLogin(r, u) \/ StartReset(r, u)
         \/ \E s \in SessionIds : StartChange(r, s)
  PROVE  AccountInv'
<1>1. ASSUME NEW w, w \in StartedRow, BeginHashing(r, w),
             w.op \in {"login", "change", "reset"} => w.user \in Users,
             w.op \in {"change", "reset"} => Exists(w.user),
             UNCHANGED <<account, session, failure, invites, registrationEnabled>>
      PROVE  AccountInv'
  BY <1>1, BeginHashingKeeps
<1>2. /\ 0 \in 0..MaxHash /\ hash \in [Users -> 0..MaxHash]
      /\ Nobody \in Users \cup {Nobody}
  BY Limits DEF AccountInv, TypeOK
<1>3. CASE StartBootstrap(r)
  <2> DEFINE w == [Idle EXCEPT !.op = "bootstrap"]
  <2>1. w \in StartedRow /\ w.op = "bootstrap"
    BY <1>2 DEF Idle, StartedRow, Operation, Started
  <2>2. /\ BeginHashing(r, w)
        /\ UNCHANGED <<account, session, failure, invites, registrationEnabled>>
    BY <1>3 DEF StartBootstrap
  <2> HIDE DEF w
  <2> QED
    BY <1>1, <2>1, <2>2
<1>4. ASSUME NEW i \in Invites, StartRegister(r, i) PROVE AccountInv'
  <2> DEFINE w == [Idle EXCEPT !.op = "register", !.invite = {i}]
  <2>1. w \in StartedRow /\ w.op = "register"
    BY <1>2 DEF Idle, StartedRow, Operation, Started
  <2>2. /\ BeginHashing(r, w)
        /\ UNCHANGED <<account, session, failure, invites, registrationEnabled>>
    BY <1>4 DEF StartRegister
  <2> HIDE DEF w
  <2> QED
    BY <1>1, <2>1, <2>2
<1>5. ASSUME NEW u \in Users, StartLogin(r, u) PROVE AccountInv'
  <2> DEFINE w == [Idle EXCEPT !.op = "login", !.user = u, !.hash = hash[u],
                               !.active = (status[u] = "active")]
  <2>1. w \in StartedRow /\ w.op = "login" /\ w.user = u
    BY <1>2 DEF Idle, StartedRow, Operation, Started
  <2>2. /\ Begin(r, w) /\ nextHash' = nextHash
        /\ UNCHANGED <<account, session, failure, invites, registrationEnabled>>
    BY <1>5 DEF StartLogin
  <2> HIDE DEF w
  <2>3. nextHash' \in 0..MaxHash
    BY <2>2 DEF AccountInv, TypeOK
  <2> QED
    BY <2>1, <2>2, <2>3, BeginKeeps
<1>6. ASSUME NEW u \in Users, StartReset(r, u) PROVE AccountInv'
  <2> DEFINE w == [Idle EXCEPT !.op = "reset", !.user = u]
  <2>1. w \in StartedRow /\ w.op = "reset" /\ w.user = u
    BY <1>2 DEF Idle, StartedRow, Operation, Started
  <2>2. /\ BeginHashing(r, w) /\ Exists(u)
        /\ UNCHANGED <<account, session, failure, invites, registrationEnabled>>
    BY <1>6 DEF StartReset
  <2> HIDE DEF w
  <2> QED
    BY <1>1, <2>1, <2>2
<1>7. ASSUME NEW s \in SessionIds, StartChange(r, s) PROVE AccountInv'
  <2> DEFINE u == session[s].user
             w == [Idle EXCEPT !.op = "change", !.user = u, !.hash = hash[u]]
  <2>1. u \in Users /\ Exists(u)
    BY <1>7 DEF StartChange, Authenticates, AccountInv, Grounded, Exists
  <2>2. w \in StartedRow /\ w.op = "change" /\ w.user = u
    BY <1>2, <2>1 DEF Idle, StartedRow, Operation, Started
  <2>3. /\ BeginHashing(r, w)
        /\ UNCHANGED <<account, session, failure, invites, registrationEnabled>>
    BY <1>7 DEF StartChange
  <2> HIDE DEF u, w
  <2> QED
    BY <1>1, <2>1, <2>2, <2>3
<1> QED
  BY <1>3, <1>4, <1>5, <1>6, <1>7

\* Nothing happens.
LEMMA StutterKeeps == ASSUME AccountInv, UNCHANGED vars PROVE AccountInv'
<1> USE DEF vars, account, invites
<1>1. TypeOK'
  BY DEF AccountInv, TypeOK
<1>2. SlotsMatch'
  BY SlotsUnchanged DEF AccountInv
<1>3. Grounded' /\ SessionsAreCurrent'
  BY DEF AccountInv, Grounded, SessionsAreCurrent, Live, Exists
<1> QED
  BY <1>1, <1>2, <1>3 DEF AccountInv

\* Every step keeps the invariant of the accounts.
LEMMA AccountStep == AccountInv /\ [Next]_vars => AccountInv'
<1> SUFFICES ASSUME AccountInv, [Next]_vars PROVE AccountInv'
  OBVIOUS
<1>1. ASSUME NEW r \in Requests, NEW u \in Users, FinishJoin(r, u) \/ CrashAfterJoin(r, u)
      PROVE  AccountInv'
  BY <1>1, JoinKeeps DEF FinishJoin, CrashAfterJoin
<1>2. ASSUME NEW r \in Requests,
             Ends(r) \/ CrashAfterPassword(r) \/ CrashAfterLogin(r)
      PROVE  AccountInv'
  BY <1>1, <1>2, LoginKeeps, PasswordKeeps, RefusedKeeps DEF Ends
<1> QED
  BY <1>1, <1>2, StartsKeep, BanKeeps, OthersKeep, StutterKeeps DEF Next

\* The inductive invariant: types, slots, and what sessions and operations rest on.
THEOREM AccountInvariant == Spec => []AccountInv
<1> QED
  BY InitAccounts, AccountStep, PTL DEF Spec

\* Every variable keeps its type.
THEOREM AccessTypes == Spec => []TypeOK
<1>1. AccountInv => TypeOK
  BY DEF AccountInv
<1> QED
  BY <1>1, AccountInvariant, PTL

\* A slot for password work is neither lost nor freed twice, whatever fails.
THEOREM SlotsAreKept == Spec => []SlotsMatch
<1>1. AccountInv => SlotsMatch
  BY DEF AccountInv
<1> QED
  BY <1>1, AccountInvariant, PTL

\* No session outlives the password it was opened with or the ban of its account.
THEOREM SessionsStayCurrent == Spec => []SessionsAreCurrent
<1>1. AccountInv => SessionsAreCurrent
  BY DEF AccountInv
<1> QED
  BY <1>1, AccountInvariant, PTL

\* Only who knew the password of a reset ends it.
THEOREM ResetsStand == Spec => ResetStands
<1> DEFINE Change(u) == \E r \in Requests : /\ work[r].op = "change" /\ work[r].user = u
                                            /\ work[r].hash = hash[u]
           Step == \A u \in Users : mustChange[u] /\ ~mustChange'[u] => Change(u)
<1>1. AccountInv /\ [Next]_vars => [Step]_vars
  <2> SUFFICES ASSUME AccountInv, Next, NEW u \in Users, mustChange[u], ~mustChange'[u]
               PROVE  Change(u)
    OBVIOUS
  <2>1. ASSUME NEW r \in Requests, StoresPassword(r) PROVE Change(u)
    <3>1. /\ work[r].user \in Users /\ mustChange \in [Users -> BOOLEAN]
          /\ work[r].op = "reset" \/ (work[r].op = "change" /\ Unchanged(r))
          /\ mustChange' = [mustChange EXCEPT ![work[r].user] = (work[r].op = "reset")]
      BY <2>1 DEF StoresPassword, AccountInv, Grounded, TypeOK
    <3>2. CASE work[r].user # u
      <4>1. mustChange'[u] = mustChange[u]
        BY <3>1, <3>2
      <4> QED
        BY <4>1
    <3>3. CASE work[r].user = u /\ work[r].op = "reset"
      <4>1. mustChange'[u] = TRUE
        BY <3>1, <3>3
      <4> QED
        BY <4>1
    <3>4. CASE work[r].user = u /\ work[r].op = "change" /\ Unchanged(r)
      BY <3>4 DEF Unchanged
    <3> QED
      BY <3>1, <3>2, <3>3, <3>4
  <2>2. ASSUME NEW r \in Requests, NEW v \in Users, Joins(r, v) PROVE FALSE
    <3>1. status[v] = "none" /\ mustChange' = [mustChange EXCEPT ![v] = FALSE]
      BY <2>2, JoinTypes
    <3>2. u # v
      BY <3>1 DEF AccountInv, Grounded, Exists
    <3>3. mustChange'[u] = mustChange[u]
      BY <3>1, <3>2 DEF AccountInv, TypeOK
    <3> QED
      BY <3>3
  <2>3. CASE mustChange' = mustChange
    BY <2>3
  <2> QED
    BY <2>1, <2>2, <2>3
    DEF Next, Ends, FinishJoin, CrashAfterJoin, FinishPassword, CrashAfterPassword,
        CrashAfterLogin, FailLogin, FinishLogin, Refused, StartBootstrap, StartRegister,
        StartLogin, StartReset, StartChange, Ban, Unban, Logout, CloseInvite,
        SetRegistration, Tick, Crash, account
<1> QED
  BY <1>1, AccountInvariant, PTL DEF Spec, ResetStands

-----------------------------------------------------------------------------
(* The lockout. *)

\* The guesses at the password of u that are being verified.
Guessing(u) == {r \in Requests : work[r].op = "login" /\ work[r].user = u}

\* While u is locked out, those are the only failures that can still be added; a
\* lockout lasts exactly as long as its failures are remembered.
Lockout(u) ==
  /\ failure[u].blockedFor > 0 =>
       /\ failure[u].age + failure[u].blockedFor = Window
       /\ failure[u].count >= FailureLimit
       /\ failure[u].count + Cardinality(Guessing(u)) <= FailureLimit - 1 + MaxPasswordWork
  /\ failure[u].blockedFor = 0 /\ failure[u].age < Window => failure[u].count <= FailureLimit - 1
  /\ failure[u].count <= FailureLimit - 1 + MaxPasswordWork

FailureRow == [count : 0..MaxFailures, age : 0..Window, blockedFor : 0..Window]

\* No more guesses are under way than there are requests.
LEMMA GuessingFinite ==
  ASSUME NEW u \in Users
  PROVE  IsFiniteSet(Guessing(u)) /\ Cardinality(Guessing(u)) \in Nat
<1>1. Guessing(u) \subseteq Requests
  BY DEF Guessing
<1> QED
  BY <1>1, AccessAssumption, FS_Subset, FS_CardinalityType

\* There are no more guesses than slots.
LEMMA GuessingFitsSlots ==
  ASSUME AccountInv, NEW u \in Users
  PROVE  Cardinality(Guessing(u)) <= MaxPasswordWork
<1>1. Guessing(u) \in SUBSET Busy
  BY DEF Guessing, Busy
<1>2. Cardinality(Guessing(u)) <= Cardinality(Busy)
  BY <1>1, BusyFinite, FS_Subset
<1>3. Cardinality(Busy) <= MaxPasswordWork
  BY Limits DEF AccountInv, TypeOK, SlotsMatch
<1> QED
  BY <1>2, <1>3, GuessingFinite, BusyFinite, Limits

\* A step that adds no failure and no guess, or no guess while locked out.
LEMMA LockoutUntouched ==
  ASSUME AccountInv, NEW u \in Users, Lockout(u), failure'[u] = failure[u],
         Guessing(u)' \subseteq Guessing(u) \/ failure[u].blockedFor = 0
  PROVE  Lockout(u)'
<1>1. failure[u] \in FailureRow
  BY DEF AccountInv, TypeOK, FailureRow
<1>2. CASE failure[u].blockedFor = 0
  BY <1>1, <1>2 DEF Lockout, FailureRow
<1>3. CASE Guessing(u)' \subseteq Guessing(u)
  <2>1. Cardinality(Guessing(u)') <= Cardinality(Guessing(u)) /\ Cardinality(Guessing(u)') \in Nat
    BY <1>3, GuessingFinite, FS_Subset, FS_CardinalityType
  <2> QED
    BY <1>1, <2>1, GuessingFinite, Limits DEF Lockout, FailureRow
<1> QED
  BY <1>2, <1>3

\* A failed guess is one guess less and one failure more.
LEMMA LockoutFails ==
  ASSUME AccountInv, NEW r \in Requests, FailLogin(r), NEW u \in Users, u = work[r].user, Lockout(u)
  PROVE  Lockout(u)'
<1> DEFINE g == Cardinality(Guessing(u))
           f == failure[u]
           n == IF f.age < Window THEN f.count + 1 ELSE 1
<1>1. f \in FailureRow /\ g \in Nat /\ g <= MaxPasswordWork
  BY GuessingFinite, GuessingFitsSlots DEF AccountInv, TypeOK, FailureRow
<1>2. Cardinality(Guessing(u)') = g - 1 /\ g - 1 \in Nat
  <2>1. Guessing(u)' = Guessing(u) \ {r} /\ r \in Guessing(u)
    BY DEF FailLogin, Release, Guessing, Idle, AccountInv, TypeOK
  <2>2. Cardinality(Guessing(u) \ {r}) = g - 1 /\ Cardinality(Guessing(u) \ {r}) \in Nat
    BY <2>1, GuessingFinite, FS_RemoveElement, FS_CardinalityType
  <2> QED
    BY <2>1, <2>2
<1>3. failure'[u] = AfterFailure(u)
  BY DEF FailLogin, AccountInv, TypeOK
<1>4. /\ f.blockedFor > 0 => /\ f.age + f.blockedFor = Window /\ f.count >= FailureLimit
                             /\ f.count + g <= FailureLimit - 1 + MaxPasswordWork
      /\ f.blockedFor = 0 /\ f.age < Window => f.count <= FailureLimit - 1
      /\ f.count <= FailureLimit - 1 + MaxPasswordWork
  BY DEF Lockout
<1>5. AfterFailure(u) = [count |-> IF n > MaxFailures THEN MaxFailures ELSE n, age |-> 0,
                         blockedFor |-> IF n >= FailureLimit THEN Window ELSE 0]
  BY DEF AfterFailure
<1> HIDE DEF f, g
<1>6. /\ n \in Nat /\ n <= FailureLimit - 1 + MaxPasswordWork
      /\ n + (g - 1) <= FailureLimit - 1 + MaxPasswordWork
  <2>1. g >= 1
    BY <1>1, <1>2
  <2>2. f.count \in Nat /\ f.age \in Nat /\ f.blockedFor \in Nat
    BY <1>1 DEF FailureRow
  <2>3. CASE f.age < Window /\ f.blockedFor > 0
    BY <1>1, <1>4, <2>1, <2>2, <2>3, Limits
  <2>4. CASE f.age < Window /\ f.blockedFor = 0
    BY <1>1, <1>4, <2>1, <2>2, <2>4, Limits
  <2>5. CASE ~(f.age < Window)
    BY <1>1, <2>1, <2>2, <2>5, Limits
  <2> QED
    BY <2>2, <2>3, <2>4, <2>5
<1> HIDE DEF n
<1>7. n <= MaxFailures
  BY <1>6, Limits
<1>8. /\ failure'[u].count = n /\ failure'[u].age = 0
      /\ failure'[u].blockedFor = IF n >= FailureLimit THEN Window ELSE 0
  BY <1>3, <1>5, <1>6, <1>7, Limits
<1> QED
  BY <1>1, <1>2, <1>6, <1>8, Limits DEF Lockout

\* Nothing is remembered.
LEMMA LockoutCleared ==
  ASSUME NEW u \in Users, failure'[u] = NoFailure
  PROVE  Lockout(u)'
BY Limits DEF Lockout, NoFailure

\* As time passes a lockout keeps its bound.
LEMMA LockoutTicks ==
  ASSUME AccountInv, NEW u \in Users, Lockout(u), Tick
  PROVE  Lockout(u)'
<1> DEFINE f == failure[u]
           age == IF f.age < Window THEN f.age + 1 ELSE Window
<1>1. /\ failure'[u] = [f EXCEPT !.age = age, !.blockedFor = Sub(f.blockedFor)]
      /\ Guessing(u)' = Guessing(u)
  BY DEF Tick, Guessing
<1>2. f \in FailureRow /\ Cardinality(Guessing(u)) \in Nat
  BY GuessingFinite DEF AccountInv, TypeOK, FailureRow
<1>3. failure'[u].age = age /\ failure'[u].blockedFor = Sub(f.blockedFor) /\ failure'[u].count = f.count
  BY <1>1, <1>2 DEF FailureRow
<1>4. /\ f.blockedFor > 0 => /\ f.age + f.blockedFor = Window /\ f.count >= FailureLimit
                             /\ f.count + Cardinality(Guessing(u)) <= FailureLimit - 1 + MaxPasswordWork
      /\ f.blockedFor = 0 /\ f.age < Window => f.count <= FailureLimit - 1
      /\ f.count <= FailureLimit - 1 + MaxPasswordWork
  BY DEF Lockout
<1>5. f.count \in Nat /\ f.age \in 0..Window /\ f.blockedFor \in 0..Window
  BY <1>2, Limits DEF FailureRow
<1> HIDE DEF f
<1> QED
  BY <1>1, <1>2, <1>3, <1>4, <1>5, Limits DEF Lockout, Sub

\* What a step does to the lockout of u.
LEMMA LockoutStep ==
  ASSUME AccountInv, NEW u \in Users, Lockout(u), [Next]_vars
  PROVE  Lockout(u)'
<1>1. ASSUME failure' = failure, \A r \in Requests : work'[r] = work[r] \/ work'[r].op # "login"
      PROVE  Lockout(u)'
  <2>1. Guessing(u)' \subseteq Guessing(u)
    BY <1>1 DEF Guessing
  <2> QED
    BY <1>1, <2>1, LockoutUntouched
<1>2. Idle.op # "login" /\ work \in [Requests -> WorkRow]
  BY DEF Idle, AccountInv, TypeOK, WorkRow, Operation, Started
<1>3. ASSUME NEW r \in Requests, Release(r) PROVE \A q \in Requests : work'[q] = work[q] \/ work'[q].op # "login"
  BY <1>2, <1>3 DEF Release
<1>4. ASSUME DropWork PROVE \A q \in Requests : work'[q] = work[q] \/ work'[q].op # "login"
  BY <1>2, <1>4 DEF DropWork
<1>5. ASSUME NEW r \in Requests, NEW v \in Users, StartLogin(r, v) PROVE Lockout(u)'
  <2>1. failure' = failure /\ failure[v].blockedFor = 0
    BY <1>5 DEF StartLogin, Throttled, AccountInv, TypeOK
  <2>2. \A q \in Requests : work'[q] = work[q] \/ work'[q].user = v
    BY <1>2, <1>5 DEF StartLogin, Begin, Idle
  <2>3. Guessing(u)' \subseteq Guessing(u) \/ u = v
    BY <2>2 DEF Guessing
  <2> QED
    BY <2>1, <2>3, LockoutUntouched
<1>6. ASSUME NEW r \in Requests,
             \/ StartBootstrap(r)
             \/ \E i \in Invites : StartRegister(r, i)
             \/ \E v \in Users : StartReset(r, v)
             \/ \E s \in SessionIds : StartChange(r, s)
      PROVE  Lockout(u)'
  <2>1. ASSUME NEW w, BeginHashing(r, w), w.op # "login", failure' = failure
        PROVE  Lockout(u)'
    <3>1. work' = [work EXCEPT ![r] = [w EXCEPT !.new = nextHash + 1]]
      BY <2>1 DEF BeginHashing, Begin
    <3>2. work'[r].op # "login" \/ work'[r] = work[r]
      BY <1>2, <2>1, <3>1
    <3> QED
      BY <1>1, <1>2, <2>1, <3>1, <3>2
  <2>2. CASE StartBootstrap(r)
    <3>1. [Idle EXCEPT !.op = "bootstrap"].op # "login"
      BY DEF Idle
    <3> QED
      BY <2>1, <2>2, <3>1 DEF StartBootstrap
  <2>3. ASSUME NEW i \in Invites, StartRegister(r, i) PROVE Lockout(u)'
    <3>1. [Idle EXCEPT !.op = "register", !.invite = {i}].op # "login"
      BY DEF Idle
    <3> QED
      BY <2>1, <2>3, <3>1 DEF StartRegister
  <2>4. ASSUME NEW v \in Users, StartReset(r, v) PROVE Lockout(u)'
    <3>1. [Idle EXCEPT !.op = "reset", !.user = v].op # "login"
      BY DEF Idle
    <3> QED
      BY <2>1, <2>4, <3>1 DEF StartReset
  <2>5. ASSUME NEW s \in SessionIds, StartChange(r, s) PROVE Lockout(u)'
    <3>1. [Idle EXCEPT !.op = "change", !.user = session[s].user,
                       !.hash = hash[session[s].user]].op # "login"
      BY DEF Idle
    <3> QED
      BY <2>1, <2>5, <3>1 DEF StartChange
  <2> QED
    BY <1>6, <2>2, <2>3, <2>4, <2>5
<1>7. ASSUME NEW r \in Requests, FailLogin(r) PROVE Lockout(u)'
  <2>1. CASE u = work[r].user
    BY <1>7, <2>1, LockoutFails
  <2>2. CASE u # work[r].user
    <3>1. failure'[u] = failure[u]
      BY <1>7, <2>2 DEF FailLogin, AccountInv, TypeOK
    <3>2. Guessing(u)' \subseteq Guessing(u)
      BY <1>3, <1>7 DEF FailLogin, Guessing
    <3> QED
      BY <3>1, <3>2, LockoutUntouched
  <2> QED
    BY <2>1, <2>2
<1>8. ASSUME NEW r \in Requests, FinishLogin(r) \/ CrashAfterLogin(r) PROVE Lockout(u)'
  <2>1. failure' = [failure EXCEPT ![work[r].user] = NoFailure]
    BY <1>8 DEF FinishLogin, CrashAfterLogin
  <2>2. CASE u = work[r].user
    BY <2>1, <2>2, LockoutCleared DEF AccountInv, TypeOK
  <2>3. CASE u # work[r].user
    <3>1. failure'[u] = failure[u]
      BY <2>1, <2>3 DEF AccountInv, TypeOK
    <3>2. Guessing(u)' \subseteq Guessing(u)
      BY <1>3, <1>4, <1>8 DEF FinishLogin, CrashAfterLogin, Guessing
    <3> QED
      BY <3>1, <3>2, LockoutUntouched
  <2> QED
    BY <2>2, <2>3
<1>9. ASSUME NEW r \in Requests,
             \/ \E v \in Users : FinishJoin(r, v) \/ CrashAfterJoin(r, v)
             \/ FinishPassword(r) \/ CrashAfterPassword(r) \/ Refused(r)
      PROVE  Lockout(u)'
  BY <1>1, <1>3, <1>4, <1>9
  DEF FinishJoin, CrashAfterJoin, FinishPassword, CrashAfterPassword, Refused
<1>10. CASE Crash
  BY <1>1, <1>4, <1>10 DEF Crash
<1>11. CASE \/ \E v \in Users : Ban(v) \/ Unban(v)
            \/ \E s \in SessionIds : Logout(s)
            \/ \E i \in Invites : CloseInvite(i)
            \/ SetRegistration \/ UNCHANGED vars
  <2>1. failure' = failure /\ work' = work
    BY <1>11 DEF Ban, Unban, Logout, CloseInvite, SetRegistration, vars
  <2> QED
    BY <1>1, <2>1
<1>12. CASE Tick
  BY <1>12, LockoutTicks
<1> QED
  BY <1>5, <1>6, <1>7, <1>8, <1>9, <1>10, <1>11, <1>12 DEF Next, Ends

\* Only guesses that were being verified already are evaluated past the limit.
THEOREM GuessesAreBounded == Spec => []GuessesBounded
<1> DEFINE Lockouts == \A u \in Users : Lockout(u)
<1>1. Init => Lockouts
  BY LockoutCleared, Limits DEF Init, Lockout, NoFailure
<1>2. AccountInv /\ Lockouts /\ [Next]_vars => Lockouts'
  BY LockoutStep
<1>3. Lockouts => GuessesBounded
  BY DEF Lockout, GuessesBounded
<1> HIDE DEF Lockouts
<1> QED
  BY <1>1, <1>2, <1>3, AccountInvariant, PTL DEF Spec

-----------------------------------------------------------------------------
(* Invitations and the administrator. *)

Guests(i)      == {u \in Users : <<i, u>> \in redeemed}
InvitesOf(u)   == {i \in Invites : <<i, u>> \in redeemed}
Administrators == {u \in Users : role[u] = "admin"}

\* Who redeemed an invitation or is the administrator exists, so that a new account is
\* neither.
MembersInv ==
  /\ \A i \in Invites : uses[i] = Cardinality(Guests(i)) /\ uses[i] <= MaxUses
  /\ \A u \in Users : /\ InvitesOf(u) = {} \/ \E i \in Invites : InvitesOf(u) = {i}
                      /\ ~Exists(u) => InvitesOf(u) = {} /\ role[u] # "admin"
  /\ \A u, v \in Administrators : u = v

\* Nobody has used an invitation at first.
LEMMA MembersInit == Init => MembersInv
<1> SUFFICES ASSUME Init PROVE MembersInv
  OBVIOUS
<1>1. /\ \A i \in Invites : Guests(i) = {} /\ uses[i] = 0
      /\ \A u \in Users : InvitesOf(u) = {} /\ role[u] = "none"
      /\ Administrators = {}
  BY DEF Init, Guests, InvitesOf, Administrators
<1> QED
  BY <1>1, FS_EmptySet, Limits DEF MembersInv

\* An account that joins uses its invitation once.
LEMMA MembersJoin ==
  ASSUME AccountInv, MembersInv, NEW r \in Requests, NEW u \in Users, Joins(r, u)
  PROVE  MembersInv'
<1>1. /\ status[u] = "none" /\ InvitesOf(u) = {} /\ role[u] # "admin"
      /\ \A v \in Users : v # u => (Exists(v)' <=> Exists(v))
      /\ status'[u] = "active"
  BY JoinTypes DEF MembersInv, Exists, AccountInv, TypeOK
<1>2. CASE BootstrapInserts(r, u)
  <2>1. /\ Administrators = {} /\ UNCHANGED <<open, uses, redeemed>>
        /\ role' = [role EXCEPT ![u] = "admin"]
    BY <1>2 DEF BootstrapInserts, NoAdministrator, Administrators, Insert, invites
  <2>2. /\ Administrators' = {u}
        /\ \A v \in Users : v # u => role'[v] = role[v]
    BY <2>1 DEF Administrators, AccountInv, TypeOK
  <2>3. /\ \A i \in Invites : Guests(i)' = Guests(i)
        /\ \A v \in Users : InvitesOf(v)' = InvitesOf(v)
    BY <2>1 DEF Guests, InvitesOf
  <2> QED
    BY <1>1, <2>1, <2>2, <2>3 DEF MembersInv, Exists
<1>3. CASE RegisterInserts(r, u)
  <2>1. PICK i \in Invites : /\ RegistrationOpen(i)
                             /\ uses' = [uses EXCEPT ![i] = @ + 1]
                             /\ redeemed' = redeemed \cup {<<i, u>>}
    BY <1>3 DEF RegisterInserts, AccountInv, TypeOK
  <2>2. role' = [role EXCEPT ![u] = "user"]
    BY <1>3 DEF RegisterInserts, Insert
  <2>3. /\ Administrators' = Administrators
        /\ \A v \in Users : v # u => role'[v] = role[v]
        /\ role'[u] = "user"
    BY <1>1, <2>2 DEF Administrators, AccountInv, TypeOK
  <2>4. /\ Guests(i)' = Guests(i) \cup {u} /\ u \notin Guests(i)
        /\ \A j \in Invites : j # i => Guests(j)' = Guests(j)
    BY <1>1, <2>1 DEF Guests, InvitesOf
  <2>5. /\ InvitesOf(u)' = {i}
        /\ \A v \in Users : v # u => InvitesOf(v)' = InvitesOf(v)
    BY <1>1, <2>1 DEF InvitesOf
  <2>6. Cardinality(Guests(i)') = Cardinality(Guests(i)) + 1
    <3>1. Guests(i) \subseteq Users
      BY DEF Guests
    <3>2. IsFiniteSet(Guests(i))
      BY <3>1, AccessAssumption, FS_Subset
    <3> QED
      BY <2>4, <3>2, FS_AddElement
  <2>7. /\ uses'[i] = uses[i] + 1 /\ uses'[i] <= MaxUses
        /\ \A j \in Invites : j # i => uses'[j] = uses[j]
    BY <2>1, Limits DEF RegistrationOpen, AccountInv, TypeOK
  <2>8. ASSUME NEW j \in Invites PROVE uses'[j] = Cardinality(Guests(j)') /\ uses'[j] <= MaxUses
    BY <2>4, <2>6, <2>7 DEF MembersInv
  <2>9. ASSUME NEW v \in Users
        PROVE  /\ InvitesOf(v)' = {} \/ \E j \in Invites : InvitesOf(v)' = {j}
               /\ status'[v] = "none" => InvitesOf(v)' = {} /\ role'[v] # "admin"
    BY <1>1, <2>3, <2>5 DEF MembersInv, Exists
  <2> QED
    BY <2>3, <2>8, <2>9 DEF MembersInv, Exists
<1> QED
  BY <1>2, <1>3 DEF Joins

\* Every step keeps the invariant of the invitations.
LEMMA MembersStep == AccountInv /\ MembersInv /\ [Next]_vars => MembersInv'
<1> SUFFICES ASSUME AccountInv, MembersInv, [Next]_vars PROVE MembersInv'
  OBVIOUS
<1>1. ASSUME UNCHANGED <<uses, redeemed, role>>,
             \A u \in Users : Exists(u)' <=> Exists(u)
      PROVE  MembersInv'
  BY <1>1 DEF MembersInv, Guests, InvitesOf, Administrators
<1>2. ASSUME UNCHANGED <<uses, redeemed, role, status>> PROVE MembersInv'
  BY <1>1, <1>2 DEF Exists
<1>3. ASSUME NEW u \in Users, Ban(u) \/ Unban(u) PROVE MembersInv'
  <2>1. UNCHANGED <<uses, redeemed, role>>
    BY <1>3 DEF Ban, Unban, invites
  <2>2. \A v \in Users : Exists(v)' <=> Exists(v)
    BY <1>3 DEF Ban, Unban, Exists, AccountInv, TypeOK
  <2> QED
    BY <1>1, <2>1, <2>2
<1>4. ASSUME NEW r \in Requests, NEW u \in Users, FinishJoin(r, u) \/ CrashAfterJoin(r, u)
      PROVE  MembersInv'
  BY <1>4, MembersJoin DEF FinishJoin, CrashAfterJoin
<1>5. ASSUME NEW r \in Requests,
             \/ StartBootstrap(r)
             \/ \E i \in Invites : StartRegister(r, i)
             \/ \E u \in Users : StartLogin(r, u) \/ StartReset(r, u)
             \/ \E s \in SessionIds : StartChange(r, s)
             \/ FailLogin(r) \/ FinishLogin(r) \/ FinishPassword(r) \/ Refused(r)
             \/ CrashAfterPassword(r) \/ CrashAfterLogin(r)
      PROVE  UNCHANGED <<uses, redeemed, role, status>>
  BY <1>5 DEF StartBootstrap, StartRegister, StartLogin, StartReset, StartChange, FailLogin,
              FinishLogin, FinishPassword, Refused, CrashAfterPassword, CrashAfterLogin,
              StoresPassword, account, invites
<1>6. ASSUME \/ \E s \in SessionIds : Logout(s)
             \/ \E i \in Invites : CloseInvite(i)
             \/ SetRegistration \/ Tick \/ Crash \/ UNCHANGED vars
      PROVE  UNCHANGED <<uses, redeemed, role, status>>
  BY <1>6 DEF Logout, CloseInvite, SetRegistration, Tick, Crash, account, invites, vars
<1> QED
  BY <1>2, <1>3, <1>4, <1>5, <1>6 DEF Next, Ends

\* The invariant of the invitations holds in every reachable state.
LEMMA MembersAlways == Spec => []MembersInv
<1> QED
  BY MembersInit, MembersStep, AccountInvariant, PTL DEF Spec

\* An invitation is never redeemed more often than it may be, however registrations
\* overlap.
THEOREM InvitesAlwaysAddUp == Spec => []InvitesAddUp
<1>1. MembersInv => InvitesAddUp
  <2> SUFFICES ASSUME MembersInv PROVE InvitesAddUp
    OBVIOUS
  <2>1. ASSUME NEW u \in Users PROVE Cardinality({i \in Invites : <<i, u>> \in redeemed}) <= 1
    <3>1. CASE InvitesOf(u) = {}
      <4>1. Cardinality(InvitesOf(u)) = 0
        BY <3>1, FS_EmptySet
      <4> QED
        BY <4>1 DEF InvitesOf
    <3>2. ASSUME NEW i \in Invites, InvitesOf(u) = {i}
          PROVE  Cardinality({j \in Invites : <<j, u>> \in redeemed}) <= 1
      <4>1. Cardinality(InvitesOf(u)) = 1
        BY <3>2, FS_Singleton
      <4> QED
        BY <4>1 DEF InvitesOf
    <3> QED
      BY <3>1, <3>2 DEF MembersInv
  <2> QED
    BY <2>1 DEF MembersInv, InvitesAddUp, Guests
<1> QED
  BY <1>1, MembersAlways, PTL

\* There is never a second administrator.
THEOREM AdministratorIsUnique == Spec => []OneAdministrator
<1>1. MembersInv => OneAdministrator
  <2> SUFFICES ASSUME MembersInv PROVE Cardinality(Administrators) <= 1
    BY DEF OneAdministrator, Administrators
  <2>1. CASE Administrators = {}
    BY <2>1, FS_EmptySet
  <2>2. ASSUME NEW u \in Administrators PROVE Cardinality(Administrators) <= 1
    <3>1. Administrators = {u}
      BY <2>2 DEF MembersInv
    <3>2. Cardinality(Administrators) = 1
      BY <3>1, FS_Singleton
    <3> QED
      BY <3>2
  <2> QED
    BY <2>1, <2>2
<1> QED
  BY <1>1, MembersAlways, PTL
=============================================================================
