---------------------------- MODULE HostedAccess ----------------------------
(***************************************************************************)
(* Accounts of the hosted server: invitations, registration, sign-in and   *)
(* its lockout, password changes and resets, bans and sessions             *)
(* (hosted/auth.ts over hosted/control-store.ts).                          *)
(*                                                                         *)
(* Every operation that touches a password reads the database, then awaits *)
(* an Argon2 computation, and only then writes: StartX is the part before  *)
(* the await, the other actions of the operation the part after it.  What  *)
(* was read may be out of date by then.  A hash is a number, fresh for     *)
(* every computation, as its salt is.  Time is counted down: a step of     *)
(* Tick is a part of the 15 minutes a lockout lasts.                       *)
(***************************************************************************)
EXTENDS Integers, FiniteSets

CONSTANTS
  Users,            \* accounts that may come to exist
  Invites,
  Requests,         \* clients that ask for password work
  SessionIds,       \* bound: sessions that live at the same time
  Nobody,
  MaxUses,          \* registrations an invitation is good for
  MaxPasswordWork,  \* 2 in the code
  FailureLimit,     \* 5 in the code
  Window,           \* ticks in the 15 minutes of a lockout
  SessionLife,      \* ticks a session lives
  MaxHash,          \* bound: hashes ever computed
  MaxFailures       \* bound: failures are counted up to here

VARIABLES
  \* control database: users, sessions, auth_failures, invites and settings
  status, role, hash, mustChange,
  session,
  failure,
  open, uses, redeemed, registrationEnabled,
  \* memory of HostedAuthService
  work, activeWork,
  nextHash

account  == <<status, role, hash, mustChange>>
invites  == <<open, uses, redeemed>>
vars     == <<account, session, failure, invites, registrationEnabled,
              work, activeWork, nextHash>>

ASSUME AccessAssumption ==
  /\ Nobody \notin Users
  /\ {MaxUses, MaxPasswordWork, FailureLimit, Window, SessionLife, MaxHash}
       \subseteq Nat \ {0}
  /\ MaxFailures \in Nat /\ MaxFailures >= FailureLimit + MaxPasswordWork
  /\ IsFiniteSet(Users) /\ IsFiniteSet(Requests)

-----------------------------------------------------------------------------
NoSession == [user |-> Nobody, hash |-> 0, left |-> 0]
Idle      == [op |-> "none", user |-> Nobody, invite |-> {}, active |-> FALSE,
              hash |-> 0, new |-> 0]
NoFailure == [count |-> 0, age |-> Window, blockedFor |-> 0]

Busy    == {r \in Requests : work[r].op # "none"}
Live(s) == session[s].left > 0
Sub(n)  == IF n > 0 THEN n - 1 ELSE 0

Exists(u) == status[u] # "none"

\* authenticateSession(): a live session of an account that is active.
Authenticates(s) == Live(s) /\ status[session[s].user] = "active"

\* registrationInvite(): used before the hash is computed and again in the
\* transaction that creates the account.
RegistrationOpen(i) == registrationEnabled /\ open[i] /\ uses[i] < MaxUses

\* Bound: a session is left for every request under way.
Room == Cardinality({s \in SessionIds : Live(s)}) + Cardinality(Busy) < Cardinality(SessionIds)

\* passwordWork(): no third computation, and no queue for it.
HasSlot == activeWork < MaxPasswordWork

Begin(r, w) ==
  /\ work[r] = Idle /\ HasSlot /\ Room
  /\ work' = [work EXCEPT ![r] = w]
  /\ activeWork' = activeWork + 1

\* The operation will store a hash of its own.
BeginHashing(r, w) ==
  /\ nextHash < MaxHash /\ nextHash' = nextHash + 1
  /\ Begin(r, [w EXCEPT !.new = nextHash + 1])

\* The finally of passwordWork().
Release(r) ==
  /\ work' = [work EXCEPT ![r] = Idle]
  /\ activeWork' = activeWork - 1
  /\ UNCHANGED nextHash

\* Mutant of Revoked: the sessions of the account go on.
RevokesNone(u) == session

\* revokeUserSessions()
Revoked(u) == [s \in SessionIds |-> IF session[s].user = u THEN NoSession ELSE session[s]]

\* The row createSession() inserts; hash remembers what password the session was
\* opened with.
Opened(table, u, h) ==
  {[table EXCEPT ![s] = [user |-> u, hash |-> h, left |-> SessionLife]] :
     s \in {t \in SessionIds : table[t] = NoSession}}

\* insertUser()
Insert(u, r, h) ==
  /\ status[u] = "none"
  /\ status' = [status EXCEPT ![u] = "active"]
  /\ role' = [role EXCEPT ![u] = r]
  /\ hash' = [hash EXCEPT ![u] = h]
  /\ mustChange' = [mustChange EXCEPT ![u] = FALSE]

-----------------------------------------------------------------------------
\* bootstrap() and createAdministrator(): the only check is the one in the
\* transaction.
NoAdministrator == \A u \in Users : role[u] # "admin"

StartBootstrap(r) ==
  /\ BeginHashing(r, [Idle EXCEPT !.op = "bootstrap"])
  /\ UNCHANGED <<account, session, failure, invites, registrationEnabled>>

BootstrapInserts(r, u) ==
  /\ work[r].op = "bootstrap" /\ NoAdministrator
  /\ Insert(u, "admin", work[r].new) /\ UNCHANGED invites

\* register(): the invitation is looked at before the hash is computed ...
StartRegister(r, i) ==
  /\ RegistrationOpen(i)
  /\ BeginHashing(r, [Idle EXCEPT !.op = "register", !.invite = {i}])
  /\ UNCHANGED <<account, session, failure, invites, registrationEnabled>>

\* Mutant of RegisterInserts: what was found before the await still counts.
RegisterTrustsPreflight(r, u) ==
  /\ work[r].op = "register"
  /\ \E i \in work[r].invite :
       /\ uses' = [uses EXCEPT ![i] = @ + 1]
       /\ redeemed' = redeemed \cup {<<i, u>>}
  /\ Insert(u, "user", work[r].new) /\ UNCHANGED open

\* ... and again in the transaction of registerUser().
RegisterInserts(r, u) ==
  /\ work[r].op = "register"
  /\ \E i \in work[r].invite :
       /\ RegistrationOpen(i)
       /\ uses' = [uses EXCEPT ![i] = @ + 1]
       /\ redeemed' = redeemed \cup {<<i, u>>}
  /\ Insert(u, "user", work[r].new) /\ UNCHANGED open

Joins(r, u) == BootstrapInserts(r, u) \/ RegisterInserts(r, u)

\* The account exists, and createSession() follows in the same turn.
FinishJoin(r, u) ==
  /\ Joins(r, u)
  /\ session' \in Opened(session, u, work[r].new)
  /\ Release(r)
  /\ UNCHANGED <<failure, registrationEnabled>>

-----------------------------------------------------------------------------
Throttled(u) == failure[u].blockedFor > 0

\* Mutant of StartLogin: an account that is locked out is not turned away.
LoginUnthrottled(r, u) ==
  /\ Begin(r, [Idle EXCEPT !.op = "login", !.user = u, !.hash = hash[u],
                           !.active = (status[u] = "active")])
  /\ UNCHANGED <<account, session, failure, invites, registrationEnabled, nextHash>>

\* login(): the account is read, if the name has one, and the lockout looked up.
StartLogin(r, u) ==
  /\ ~Throttled(u)
  /\ Begin(r, [Idle EXCEPT !.op = "login", !.user = u, !.hash = hash[u],
                           !.active = (status[u] = "active")])
  /\ UNCHANGED <<account, session, failure, invites, registrationEnabled, nextHash>>

\* recordLoginFailure(): failures count on while less than the window has passed
\* since the last one.
AfterFailure(u) ==
  LET n == IF failure[u].age < Window THEN failure[u].count + 1 ELSE 1 IN
  [count      |-> IF n > MaxFailures THEN MaxFailures ELSE n,
   age        |-> 0,
   blockedFor |-> IF n >= FailureLimit THEN Window ELSE 0]

\* The password does not match, or the account was not active when it was read.
FailLogin(r) ==
  LET u == work[r].user IN
  /\ work[r].op = "login"
  /\ failure' = [failure EXCEPT ![u] = AfterFailure(u)]
  /\ Release(r)
  /\ UNCHANGED <<account, session, invites, registrationEnabled>>

\* Mutant of Unchanged: createSession() and setPasswordHash() get no expected hash.
Unasked(r) == TRUE

\* assertPasswordUnchanged() for the hash read before the await.
Unchanged(r) == hash[work[r].user] = work[r].hash

\* The password matches: failures are forgotten, and then createSession() looks at
\* the account as it is now.
FinishLogin(r) ==
  LET u == work[r].user IN
  /\ work[r].op = "login" /\ work[r].active
  /\ failure' = [failure EXCEPT ![u] = NoFailure]
  /\ IF status[u] = "active" /\ Unchanged(r)
       THEN session' \in Opened(session, u, work[r].hash)
       ELSE UNCHANGED session
  /\ Release(r)
  /\ UNCHANGED <<account, invites, registrationEnabled>>

-----------------------------------------------------------------------------
\* changePassword(): asked for with a session, as hosted/app.ts does.
StartChange(r, s) ==
  LET u == session[s].user IN
  /\ Authenticates(s)
  /\ BeginHashing(r, [Idle EXCEPT !.op = "change", !.user = u, !.hash = hash[u]])
  /\ UNCHANGED <<account, session, failure, invites, registrationEnabled>>

\* resetPassword() of an administrator expects no hash.
StartReset(r, u) ==
  /\ Exists(u)
  /\ BeginHashing(r, [Idle EXCEPT !.op = "reset", !.user = u])
  /\ UNCHANGED <<account, session, failure, invites, registrationEnabled>>

\* setPasswordHash() up to the sessions.  It does not look at the status of the
\* account.
StoresPassword(r) ==
  LET u == work[r].user IN
  /\ work[r].op = "reset" \/ (work[r].op = "change" /\ Unchanged(r))
  /\ hash' = [hash EXCEPT ![u] = work[r].new]
  /\ mustChange' = [mustChange EXCEPT ![u] = (work[r].op = "reset")]
  /\ UNCHANGED <<status, role>>

\* All sessions are revoked with the old password; who changed it gets a new one,
\* unless the account is banned by now.
FinishPassword(r) ==
  LET u == work[r].user IN
  /\ StoresPassword(r)
  /\ IF work[r].op = "change" /\ status[u] = "active"
       THEN session' \in Opened(Revoked(u), u, work[r].new)
       ELSE session' = Revoked(u)
  /\ Release(r)
  /\ UNCHANGED <<failure, invites, registrationEnabled>>

\* The operation ends with an error and writes nothing: the computation failed, the
\* current password is wrong, or a transaction refused.  A verification that fails
\* counts as a wrong password; only that of a name without an account may throw.
Refused(r) ==
  /\ work[r].op # "none"
  /\ work[r].op = "login" => work[r].hash = 0
  /\ Release(r)
  /\ UNCHANGED <<account, session, failure, invites, registrationEnabled>>

-----------------------------------------------------------------------------
\* banUser(): an administrator cannot be banned.
Ban(u) ==
  /\ Exists(u) /\ role[u] # "admin"
  /\ status' = [status EXCEPT ![u] = "banned"]
  /\ session' = Revoked(u)
  /\ UNCHANGED <<role, hash, mustChange, failure, invites, registrationEnabled,
                 work, activeWork, nextHash>>

Unban(u) ==
  /\ Exists(u)
  /\ status' = [status EXCEPT ![u] = "active"]
  /\ UNCHANGED <<role, hash, mustChange, session, failure, invites,
                 registrationEnabled, work, activeWork, nextHash>>

Logout(s) ==
  /\ Authenticates(s)
  /\ session' = [session EXCEPT ![s] = NoSession]
  /\ UNCHANGED <<account, failure, invites, registrationEnabled, work, activeWork, nextHash>>

\* revokeInvite(), or the invitation expires.
CloseInvite(i) ==
  /\ open' = [open EXCEPT ![i] = FALSE]
  /\ UNCHANGED <<account, session, failure, uses, redeemed, registrationEnabled,
                 work, activeWork, nextHash>>

SetRegistration ==
  /\ registrationEnabled' \in BOOLEAN
  /\ UNCHANGED <<account, session, failure, invites, work, activeWork, nextHash>>

-----------------------------------------------------------------------------
\* Time passes for sessions and lockouts alike.
Tick ==
  /\ session' = [s \in SessionIds |-> IF session[s].left > 1
                   THEN [session[s] EXCEPT !.left = @ - 1] ELSE NoSession]
  /\ failure' = [u \in Users |->
       [failure[u] EXCEPT !.age = IF @ < Window THEN @ + 1 ELSE Window,
                          !.blockedFor = Sub(@)]]
  /\ UNCHANGED <<account, invites, registrationEnabled, work, activeWork, nextHash>>

DropWork ==
  /\ work' = [r \in Requests |-> Idle]
  /\ activeWork' = 0
  /\ UNCHANGED nextHash

\* The process ends between two turns ...
Crash ==
  /\ DropWork
  /\ UNCHANGED <<account, session, failure, invites, registrationEnabled>>

\* ... or within one, after a transaction and before createSession().
CrashAfterJoin(r, u) ==
  /\ Joins(r, u) /\ DropWork
  /\ UNCHANGED <<session, failure, registrationEnabled>>

CrashAfterPassword(r) ==
  /\ StoresPassword(r) /\ session' = Revoked(work[r].user) /\ DropWork
  /\ UNCHANGED <<failure, invites, registrationEnabled>>

CrashAfterLogin(r) ==
  /\ work[r].op = "login" /\ work[r].active
  /\ failure' = [failure EXCEPT ![work[r].user] = NoFailure]
  /\ DropWork
  /\ UNCHANGED <<account, session, invites, registrationEnabled>>

-----------------------------------------------------------------------------
Init ==
  /\ status = [u \in Users |-> "none"] /\ role = [u \in Users |-> "none"]
  /\ hash = [u \in Users |-> 0] /\ mustChange = [u \in Users |-> FALSE]
  /\ session = [s \in SessionIds |-> NoSession]
  /\ failure = [u \in Users |-> NoFailure]
  /\ open = [i \in Invites |-> TRUE] /\ uses = [i \in Invites |-> 0]
  /\ redeemed = {} /\ registrationEnabled = FALSE
  /\ work = [r \in Requests |-> Idle] /\ activeWork = 0 /\ nextHash = 0

\* What follows an await.
Ends(r) ==
  \/ \E u \in Users : FinishJoin(r, u)
  \/ FailLogin(r) \/ FinishLogin(r) \/ FinishPassword(r) \/ Refused(r)

Next ==
  \/ \E r \in Requests :
       \/ StartBootstrap(r)
       \/ \E i \in Invites : StartRegister(r, i)
       \/ \E u \in Users : StartLogin(r, u) \/ StartReset(r, u)
       \/ \E s \in SessionIds : StartChange(r, s)
       \/ Ends(r)
       \/ \E u \in Users : CrashAfterJoin(r, u)
       \/ CrashAfterPassword(r) \/ CrashAfterLogin(r)
  \/ \E u \in Users : Ban(u) \/ Unban(u)
  \/ \E s \in SessionIds : Logout(s)
  \/ \E i \in Invites : CloseInvite(i)
  \/ SetRegistration \/ Tick \/ Crash

Spec == Init /\ [][Next]_vars

-----------------------------------------------------------------------------
TypeOK ==
  /\ status \in [Users -> {"none", "active", "banned"}]
  /\ role \in [Users -> {"none", "user", "admin"}]
  /\ hash \in [Users -> 0..MaxHash] /\ mustChange \in [Users -> BOOLEAN]
  /\ session \in [SessionIds -> [user : Users \cup {Nobody}, hash : 0..MaxHash,
                                 left : 0..SessionLife]]
  /\ failure \in [Users -> [count : 0..MaxFailures, age : 0..Window,
                            blockedFor : 0..Window]]
  /\ open \in [Invites -> BOOLEAN] /\ uses \in [Invites -> 0..MaxUses]
  /\ redeemed \subseteq Invites \X Users /\ registrationEnabled \in BOOLEAN
  /\ work \in [Requests -> [op : {"none", "bootstrap", "register", "login", "change", "reset"},
                            user : Users \cup {Nobody}, invite : SUBSET Invites,
                            active : BOOLEAN, hash : 0..MaxHash, new : 0..MaxHash]]
  /\ activeWork \in 0..MaxPasswordWork /\ nextHash \in 0..MaxHash

\* A slot for password work is taken exactly while an operation is under way: none
\* is lost when an operation fails, and none is freed twice.
SlotsMatch == activeWork = Cardinality(Busy)

\* Every session that lives was opened with the password the account has now, and its
\* account is active: neither a sign-in that was verified against a password replaced
\* meanwhile, nor one that was under way when the account was banned, leaves a session.
SessionsAreCurrent ==
  \A s \in SessionIds : Live(s) =>
    /\ session[s].hash = hash[session[s].user]
    /\ status[session[s].user] = "active"

\* An invitation is redeemed as often as it was used and never more often than it may
\* be, and an account redeemed one at most, although registrations that will not all
\* succeed pass the first look together.
InvitesAddUp ==
  /\ \A i \in Invites :
       /\ uses[i] = Cardinality({u \in Users : <<i, u>> \in redeemed})
       /\ uses[i] <= MaxUses
  /\ \A u \in Users : Cardinality({i \in Invites : <<i, u>> \in redeemed}) <= 1

\* However many bootstraps hash at the same time, one administrator comes of them.
OneAdministrator == Cardinality({u \in Users : role[u] = "admin"}) <= 1

\* Guesses that were already being verified when the lockout began are the only ones
\* evaluated past the limit.
GuessesBounded ==
  \A u \in Users : failure[u].count <= FailureLimit - 1 + MaxPasswordWork

\* A reset by the administrator stands until its user changes the password, and knew
\* the one that was reset: a change that was under way with the old one does not undo it.
ResetStands ==
  [][\A u \in Users : mustChange[u] /\ ~mustChange'[u] =>
       \E r \in Requests : /\ work[r].op = "change" /\ work[r].user = u
                           /\ work[r].hash = hash[u]]_vars
=============================================================================
