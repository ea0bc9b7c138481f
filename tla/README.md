# A formal model of the ChatPLUS server

ChatPLUS keeps long-lived companion characters. Its server (`src/apps/server`) is a Node.js
process with SQLite databases; the *hosted* form serves many accounts from one process and
pays model providers on their behalf. This directory holds TLA+ models of the parts of that
server where order matters, the TLC runs that check them, and TLAPS proofs of the properties
that must not depend on the size of an instance.

All modules rest on one fact about the platform: the server is a single JavaScript thread.
Between two `await`s nothing else runs; at an `await` anything may. SQLite calls are
synchronous, each commit is durable at once, and a crash can come between any two commits.

## 1. Inventory

Paths are relative to `src/apps/server/src` unless they begin with `packages`.

| Component | State | Operations | Hard behaviour |
|---|---|---|---|
| Control store, `hosted/control-store.ts` | `control.sqlite`: users, wallets, attempts, ledger, settings, invites, sessions, operations, audit; `research.sqlite`: recorded answers | reserve, markAttemptSent, settle, release, markUnknown, reconcile, adjustBalance, setLimits, banUser, recordAttemptResponse, deleteResearch, registration, sessions, lockout | commits in two databases with a crash in between; administrators who act while a request is out |
| Model gateway, `hosted/model-gateway.ts` | queue, slot counters, controllers, paused flag, single flight map, diagnostic budget (memory only) | dispatch, acquire, drain, pause, abortUser, shutdown | waiting, cancelling, refusing after the grant, limits that change, bans between the queue and the controllers |
| Provider client, `packages/providers/src/managed-llm.ts` | none | a request with retries under new attempt numbers | a retry of something whose price is open |
| Character queue, `runtime/actor-queue.ts` | map of promises | runExclusive, activeActors | the microtask in which a promise of the chain resolves; the entry that is deleted |
| Tenant runtimes, `hosted/runtime-manager.ts` | map of runtimes | get/create, restore, disconnect, resume, quiesce, resumeAll, close | two of them under way on one account |
| Maintenance frame, `hosted/app.ts`, `hosted/backup.ts`, `hosted/admin-http.ts` | maintenance flag, count of active requests | ban, unban, registration, backup | deadlines, requests admitted before the flag, overlapping backups |
| Hourly scheduler, `runtime/hourly-scheduler.ts` | one timer, stopped flag | start, stop, tick | ticks that outlive a stop and a start |
| Task scheduler, `runtime/temporal-task-scheduler.ts` | chain of cycles, timers, passes | start, wake, requestAgentCatchUp, stop, dispose | a cycle added while another is awaited |
| Badges, `services/achievement-service.ts`, `services/achievement-wax-admin.ts` | one leased job per unlocked achievement | start, pause, wake, a job with retries; retry by the user, repaint, restore | requests that cost money and whose outcome is not known |
| Keepsakes, `services/keepsake-service.ts`, `services/keepsake-asset-store.ts` | stories, tasks, runs and assets in the database, files on the disk | enqueue, draw, commit, clean up, link to a reply, receive, scan for orphans | files and rows cannot change together; late workers; three parties in any order |
| Hosted operations, `hosted/business-http.ts` | operation rows, the set of live operations (memory) | begin, finish, replay | a client that repeats a request while it runs or after a crash |
| Accounts, `hosted/auth.ts`, `hosted/security.ts` | invites, sessions, failures | redeem, log in, revoke | two redemptions of a last use (argon2 is awaited in between), lockout |
| Conversation turns, `services/conversation-service.ts` | messages, turns, memories | commit of a turn under the character queue | the model call between two transactions |
| Correspondence, `services/correspondence-service.ts`, `services/temporal-catch-up-service.ts` | letters, due tasks, leases | send, deliver, generate a reply, catch up | due work done once after downtime; leases |
| Proactive messages, follow-ups, `services/proactive-*.ts`, `services/follow-up-*.ts` | tasks, candidates, generations, deliveries | propose, generate, deliver, cancel | stale candidates, delivery once |
| Life simulation, memory, continuity, diary | rows of the character's database | deterministic transformations inside one section of the character queue | content, not order |
| Clients, schemas, scripts | — | — | not part of the server's state |

Interactions. A request of a user goes through the HTTP surface (which counts it, unless
maintenance is on), into a section of the character queue, from there through the provider
client into the gateway: `dispatch` takes a slot, reserves money, marks the attempt sent,
sends, saves the answer, settles. Background workers of every account do the same without
an HTTP request. Administrators change money, limits and accounts from the side, and a
backup stops everything first. What makes each part correct:

- *Billing*: a request leaves at most once, is charged at most once and only with its answer
  saved, money comes back only for what never left, wallet rows agree with attempt rows, and no day costs
  more than the loosest of the limits in force on it (a limit that is lowered takes nothing back).
- *Admission*: no slot is lost or freed twice, no call waits for a wake-up that does not
  come, the order of arrival is kept where the code keeps it, a ban reaches every call.
- *Character queue*: sections exclude each other, in order of arrival, and the number of
  busy characters is right.
- *Maintenance*: files are copied in a quiet state, everything comes back afterwards.
- *Accounts*: no session outlives its password or a ban, a reset is not undone by a change that
  was under way, the lockout holds against guesses made at the same time, an invitation is
  good for as many accounts as it says, and there is one administrator.
- *Operations and turns*: a message has one turn and one response however often it is repeated,
  for the input it first came with, and the three databases agree about it.

- *Correspondence*: a letter is answered once, whatever leases ran out and processes died; what is
  still to happen to it has a task; nothing happens before its time, or out of the order of time.
- *Proactive messages*: an occasion is used once and not after it is over, the user is not written
  to more often than the budget says, and never in the middle of a turn.
- *Keepsakes*: a finished keepsake has its picture, its run and its task, whoever comes late; it is the
  user's when the letter it came with is open; a file that a row refers to is not taken away.
- *Badges*: a request that may have been accepted is not sent again unasked, and keeps its identifier
  when the user orders it again. It does so until the next answer only: a refusal of the repetition overwrites
  the error of the first request, and the order after that takes a new identifier, although nobody knows yet
  what became of the first (`services/achievement-service.ts:326`).

## 2. Modules

| Module | Models | Composition |
|---|---|---|
| `HostedLedger` | the abstract promise of the billing: freeze, leave, charge once or give back | abstract specification |
| `MessagePromise` | the abstract promise of a chat message: one input, one reply or refusal, and every client is told that one | abstract specification |
| `LetterPromise` | the abstract promise of a correspondence: on time, in order, one reply, counted from the arrival of the letter | abstract specification |
| `HostedBilling` | life of an attempt through `dispatchOnce`, the control store's commits, retries, administrators, midnight, crashes | implements `HostedLedger` by the instance `Ledger` |
| `GatewayAdmission` | `acquire`, `drain`, `release`, `pause`, `abortUser`, `shutdown` | stands for `queued` -> `granted` of a call in `HostedBilling` |
| `ActorQueue` | `runExclusive`, `activeActors` | `HostedMaintenance` uses the meaning of `activeActors` that is shown here |
| `HostedMaintenance` | the workers of the accounts, registration, ban, unban, backup | |
| `HostedAccess` | `hosted/auth.ts` with its rows: invitations, registration, sign-in, lockout, passwords, bans, sessions | |
| `HostedOperations` | a message, its operation row, its turn and its saved answer, across repetitions, failures and restarts | implements `MessagePromise` by the instance `Promise`; takes the exclusion of sections from `ActorQueue` and the saved answer from `HostedBilling` |
| `Letters` | a letter and its reply: rows, temporal tasks, runs of the model, and the passes of several processes on them | implements `LetterPromise` by the instance `Promise`; the cycles of `HostedMaintenance` are these passes |
| `Proactive` | messages the characters send unasked: occasions, tasks, runs, the user's turns | likewise |
| `Keepsakes` | a keepsake from its source to the picture on the disk, its letter, and the files nobody refers to | its tasks are claimed like those of `Letters`, from the same table |
| `Badges` | the jobs of the badge worker and their requests | the inside of a badge cycle of `HostedMaintenance` |
| `*Proofs` | the theorems of the module they are named after; `HostedMaintenanceProofs` also those of `ActorQueue`, `PaidCallsProofs` those of `GatewayAdmission` and `Badges` | extend it |
| `MC*` | instances for TLC | extend it |

`ActorQueue` and `Badges` name their specifications `QueueSpec` and `BadgesSpec`, because their proofs
stand beside those of a neighbour that has a `Spec`.

Operators whose comment begins with "Mutant of" are deliberately wrong variants of a
definition. No specification uses them: each one stands for a plausible bug and is there to
show that the property it is paired with in `PROJECT.json` would notice it.

### HostedBilling

An *attempt* is a pair of a logical call and a retry number, as in the `attemptId` of the
gateway. `status`, `cost`, `createdOn` and `wallet` are the rows of the control database,
`saved` the response in the research database (`Purged` once deleted), `reconciled` and
`credited` are read off the audit and the ledger. `pc` and `try` are where `dispatchOnce`
stands, and vanish in a crash. `cpu` names the call that is between two awaits: commits
within such a stretch are separate steps for `Crash` and for nobody else. `wire` counts how
often the request left. `limits` is the row of settings that `setLimits` replaces at any time: whether calls are
enabled, and what an account and the server may spend in a day; `reserve` reads it afresh. `inForce`
is a history variable that no action reads: the settings in force at some time since midnight.

| Action | Code |
|---|---|
| `Dispatch`, `Redispatch` (`Lookup`) | head of `dispatchOnce`: replay a saved answer, refuse, or wait for a slot; the retry loop of the client |
| `Reserve`, `Refused`, `NotAdmitted` | `reserve` with funds and daily limits; every exit before it |
| `MarkSent`, `AbortBeforeSend`, `Transmit` | `markAttemptSent`, the `catch` before the request, the request |
| `Receive`, `Settle`, `TransportFailed` | the answer is saved, then charged; the `catch` after the request |
| `Reconcile`, `AdjustBalance`, `BanUser`, `SetLimits`, `DeleteResearch` | the administrators' routes and the retention timer |
| `Midnight`, `Crash` | the clock and the process |

Prices are abstract: an answer comes with usage that can be priced (at a fee from `Fees`) or
not, and may have been accepted or rejected by the provider. A call with the user's own key
(`OwnKey`) reserves and pays nothing, but goes through the same rows.

### GatewayAdmission

`queue`, `paused`, `active`, `activeImages`, `activeUsers` are the fields of the gateway;
`stage` is where a caller is. `drain` and `abortUser` are loops without an `await`, so a turn of
the loop is a step, and `draining` and `evicting` keep everybody else out until it ends. A
granted call goes on in a later microtask: in stage `granted` it holds a slot, but is in
neither the queue nor the map of controllers. A caller whose call has ended comes back, so
that runs are unbounded.

### ActorQueue

Tasks are calls of `runExclusive`. `tails` is the map, with the task standing for the promise
it chained; `settled` are the tasks whose chained promise is resolved, which happens in a
microtask after the task released it. Those later microtasks are the reason for the module:
the map forgets an actor when the *task* ends, not when the promise resolves.

### HostedMaintenance

Every account has three workers: the scheduler of letters, that of proactive messages, and
the badge worker; `pending` counts the cycles in a worker's chain. The hourly scheduler has
`timer` (the one it can still clear), `orphans` (timers it overwrote) and `ticking`. `job`
says what a request or a backup does to which account and what it awaits, `phase` and `pos`
where a backup is: `stop` - `settle` - `drain` - `stopAgain` - `settleAgain` - `snapshot` -
`resume`.

`Ready`, `Turn`, `Calm` and `GoesFirst` fix the order of continuations: whoever has what it
awaited goes on before a timer or a new request does, and when a cycle ends that both a
`resume` and a `disconnect` awaited, the `resume` goes first, because it awaits the promise
of the cycle itself while `dispose` awaits promises derived from it.

### HostedAccess

Every operation on a password reads rows, awaits an Argon2 computation (`passwordWork`, two at a
time, no queue) and writes rows. `work` holds what an operation read before its await,
`activeWork` the counter. A hash is a number, fresh for every computation; the `hash` of a
session remembers the password it was opened with, which the code does not store. Time is
counted down: a lockout is `blockedFor` ticks, a session lives `left` ticks.

| Action | Code |
|---|---|
| `StartBootstrap`, `StartRegister`, `FinishJoin` | `bootstrap`, `register`: the look at the invitation before the hash, the transaction with its own look after it, and the first session |
| `StartLogin`, `FailLogin`, `FinishLogin` | `login`: `loginThrottled`; `recordLoginFailure`; `clearLoginFailures` and `createSession`, which compares the hash and the status again |
| `StartChange`, `StartReset`, `FinishPassword` | `changePassword` and `resetPassword` over `setPasswordHash` |
| `Refused` | every exit with an error, through the `finally` of `passwordWork` |
| `Ban`, `Unban`, `Logout`, `CloseInvite`, `SetRegistration`, `Tick` | administrators, users and the clock |
| `Crash`, `CrashAfterJoin`, `CrashAfterPassword`, `CrashAfterLogin` | the process ends between turns, or between two commits of one |

One listener is modelled. The code counts failures for each listener separately, and a sign-in
of an administrator at the users' listener, or the reverse, counts as one for a name without
an account. Limits per address (`hosted/security.ts`) are left out. A change of the password of
an account that was banned meanwhile stores the password and opens no session, as in the code.

### HostedOperations

Three databases are written one after the other: `saved` (what the provider answered, see
`HostedBilling`), `turn` (the account's own database), `op` (the operation rows). `live` is
`liveOperations`, `at` where a request stands, `told` the turns that clients got, which only
the properties read. The model calls of a turn are one answer: `good`, or `bad` if the reply
made of it will be found incomplete or beside its goal; `fallback` is the reply without a model.
What the server makes of an answer is a function of the answer, so that a turn records
which one it was made of.

| Action | Code |
|---|---|
| `Begin`, `Repeat` | the wildcard handler of `hosted/business-http.ts` with `beginOperation`: a new or recoverable message is handled, an ended one answered from its row; a different input and a live one are refused with 409, which changes nothing |
| `Enter` | `chat()` in the section of the character: replay of a stored turn |
| `Think`, `FallBack` | the model calls: the saved answer again, a new one, or none |
| `Commit`, `Leave` | the transaction of `services/turn-commit-service.ts` with its look for a duplicate, and what follows it |
| `Reject`, `Incomplete`, `Break` | 4xx; the 502 of an incomplete reply, sent as 500; anything else thrown, 500 |
| `Answered`, `Rejected`, `Broken`, `Unstored` | the hook `onSend`: complete, fail, leave running; the write of the row throws |
| `Crash` | the process: requests and `liveOperations` are gone |

For `MessagePromise` the input of a message is that of its operation row, its reply is its turn, and its
verdict the status of the row. The requests, the saved answer and all failures are invisible there.

### Letters

`letter`, `transit` and `reply` are the rows of a letter and of its reply; `task` is the table
`temporal_tasks`, where a letter has an arrival (`Out`), a generation for each epoch (`Gen`) and
the arrival of its reply (`Back`); `run` is `letter_generation_runs`. These survive a crash. `pass`
is what a process has in memory: the time its pass observed, the task it claimed, and the token of
the claim, which is the number of the attempt. `outrun` says that the character's runtime
state is newer than the arrival of a letter that has not been read.

| Action | Code |
|---|---|
| `Seal`, `AskAgain`, `OpenReply` | `sealLetter`, `enqueueReplyGenerationRetry`, `openLetter`: the user |
| `Begin`, `Find`, `Rest` | `catchUpAgent` and its loop: the earliest due task, or the end of the pass |
| `Claim`, `Sweep`, `Raced` | `claimDueTask`: a lease of its own; the last attempt was lost with its owner; another was faster |
| `Arrive`, `ReplyArrives`, `ArrivalFails` | the deterministic steps: `freezeOutboundArrival`, `markDelivered`, what they throw |
| `CannotStart`, `Preflight`, `RunUnavailable` | `letter-reply-generation-service.ts` before the model: no claim on the run yet, `claimGenerationRun`, a run that another owns or that is spent |
| `Commit`, `FailRun` | after the model: `commitGenerationRun`, `failClaimedRun` |
| `Finish`, `Retry` | `completeTask`, `retryTask`, which compare the token |
| `Chat` | a turn of the user in the chat, which advances the runtime state to the present |
| `Tick`, `Crash` | the clock; a pass is lost |

Times are relative to the present and not told apart below `-Horizon`. Drafts, pages of the mailbox, cryptography and what a snapshot contains are left out, and so is the advance of
the character's life to the time of a task, which comes before the task is claimed. When it throws, the code leaves the task untouched for the next pass; for
safety that is a pass that has not gone on yet, but `EveryTaskEnds` is shown for the case that the advance
succeeds, and in an instance with one process and one attempt. `Seen(p)`
is the time of the whole pass, as in the code, where the lease of a task is counted from that
time and not from the moment of the claim: a slow pass may claim with a lease that has run out.

For `LetterPromise` a letter arrives when the task of its arrival is due, and is given up with that
task; the reply arrives when the task of its return is due. Tasks, leases, tokens, epochs and passes are invisible
there, so that whatever they do is one of its steps: read, give up, answer, deliver, open, or time.

### Proactive

The mode `on` of `PROACTIVE_MODE`. `source` are the occasions (follow-ups and candidates of activity) and
the decisions on them, `task` the temporal task each gets once, `run` the model's run under way, `sent`
the messages in the order of their commits, with the time since; `turn` the user's turns, in the memory of
one process and as a lease in the database; `pass` a process's cycle.

| Action | Code |
|---|---|
| `Appear`, `BeginTurn`, `Say`, `EndTurn` | an occasion; `withUserTurn` of `conversation-activity-tracker.ts` around the commit of a chat turn |
| `Take`, `Rest` | `claimNext` after `synchronize`; nothing is due |
| `NotReady`, `Ask`, `Refuse` | `deliverNext` and `preflightClaim`: the run begins, with what it saw of the user |
| `Send`, `Decline`, `Discard` | `commitGeneration`, `declineGeneration`, `finishWithoutCommit` after the checks of `evaluateProactivePostflight` |
| `Finish` | `finish` of `proactive-task-repository.ts`, which compares the token |
| `Tick`, `Crash` | the clock; a process's memory is lost, the leases in the database are not |

What depends on the character alone (quiet hours, closeness, its daily cap) may refuse or discard at any
time. Notifications after the commit, follow-ups that are put off, the modes `shadow` and `off`, and what
makes an occasion are left out.

### Keepsakes

`keep`, `gifted`, `link`, `task`, `run` and `image` are the rows of a keepsake, `reply` that of the letter it
comes with, `files` the disk. `notice` is what the commit of a reply leaves to a microtask; `work` is where a
call of `processTask` stands, with the file it has in hand and whether it made it; `scan` is the developer's
scan. Files are named by their content, so that two drawings may be one file. `contested` only records, at a commit, that
somebody was about to take the file away, or had done so since it was read back.

| Action | Code |
|---|---|
| `CommitReply`, `EnqueueNotice`, `LinkToReply`, `OpenReply` | `#notifyReplyCommitted` and `enqueueLetterKeepsakeNonBlocking` in their two transactions; `receiveForOpenedLetter` in the transaction that opens the letter |
| `EnqueueSource` | `enqueueSource`, as the developer's routes call it |
| `Claim`, `Exhaust` | `claimDueTask`: a claim; a task whose attempts are spent |
| `MarkGenerating`, `Draw`, `Write`, `Verify` | `markGenerating`, `#render`, and `persist` with its look at the disk, its rename and its reading back |
| `Commit`, `Replay`, `CommitFails` | `commitGeneration`: done; found done; refused by the claim, the run or the unique key of a file |
| `Clean`, `Unlink`, `Record` | `removeIfCreated` and `remove`, an await apart (a `persist` that fails to read back removes without asking); `recordFailure` |
| `Scan`, `ListFiles`, `RemoveOrphan` | `scanOrphanAssets`: the rows, the directory, the files one by one |
| `Lapse`, `Crash` | a lease runs out; the process ends |

A picture and its thumbnail are one file, a claim token is the worker that holds it, and due times are left
out: a task may be claimed as soon as it waits. Which source deserves a keepsake, the story and its
specification, the cabinet and sharing are left out too, and so is a second kind of keepsake for one source,
which the developer's routes can ask for.

### Badges

`job` is `achievement_badge_jobs`, `shown` whether a picture is stored, `work` where `processNext` of a service
stands. `keys` counts the request ids given out; `calls`, `open` and `doubt` only record: the requests since
the last order, those of them that were not refused for the moment, and the id of a failed request that
nobody knows the outcome of (forgotten at the next recorded answer to it, whatever that is, as the row
forgets it: `Settle`).

| Action | Code |
|---|---|
| `ExpireLost`, `Claim`, `NothingToDo` | `processNext` up to the claim, in a transaction each |
| `Send`, `Answer` | the request; 429 and 503, other refusals, time-out or lost connection, in `packages/providers/src/achievement-images.ts` |
| `Unusable`, `Commit`, `Fail` (`Settle`) | a picture of no use; both ends of `processNext`, with `expireClaim` before them |
| `RetryBadge`, `Redraw`, `Restore` | the user's retry; `enqueue` and `restore` of `achievement-wax-admin.ts` |
| `Wait`, `Lapse`, `Crash` | the delay of a retry, the lease, the process |

Drawing is enabled and the provider is the user's own (the hosted form goes through the gateway and keeps more
ids). A service sends in the turn in which it claims, so that no lease runs out in between. The picture's files
are handled by the store of `Keepsakes`. `Redraw` takes any set of badges, as the administrator's list of ids does.

## 3. Runs

Numbers are distinct states and seconds with two workers.

| Run | Instance | Shows |
|---|---|---|
| `billing_crash` (170k, 65 s) | one account, one call with a retry, two crashes, money added and taken, calls switched off and on | `SentOnce`, `ChargedAnswerWasSaved`, `FinalIsFinal`, `CallsEnd`, `SentIsResolved`, and that it implements `HostedLedger` |
| `billing_money` (2.6M, 131 s) | two accounts, two calls and one, two settings of tight limits exchanged at any time, a midnight | `WalletMatchesAttempts`, `DailyBudgetHeld` |
| `admission_slots` (12k, 24 s) | two accounts, two text and two picture callers, three settings | `SlotsMatch`, `NoLostWakeup`, `BannedIsAborted`, `TextIsServed` |
| `actor_queue` (24k, 15 s) | two characters, four tasks and one | `OneAtATime`, `EveryTaskEnds` |
| `maintenance` (570k, 80 s) | an account, a second that may register, one request, two backups | `QuietDuringBackup`, `HourGoesOn`, `BannedIsQuiet` |
| `access` (352k, 37 s) | two accounts, one invitation for one, two operations at a time, two sessions | `SessionsAreCurrent`, `GuessesBounded`, `ResetStands`, `InvitesAddUp` |
| `operations` (64k, 29 s) | two requests, two messages, two inputs, two failures, two restarts | `OneHandler`, `ToldIsStored`, `RowsAgree`, `PaidIsResolved`, and that it implements `MessagePromise` |
| `letters` (817k, 40 s) | one letter, two processes, two attempts, one retry by the user, one crash | `AnsweredOnce`, `NothingForgotten` |
| `letters_live` (109k, 66 s) | two letters, one process, one attempt, one crash | `ReadInOrder`, `EveryTaskEnds`, and that it implements `LetterPromise` |
| `proactive` (2.3M, 140 s) | two characters with an occasion each, two processes, one turn of the user, one crash | `QuotasHeld`, `SentOnce`, `NeverInterrupts` |
| `keepsakes` (3.3M, 125 s) | a letter and another source, two workers, two attempts, a scan or a crash; pictures that may coincide | `CommitIsWhole`, `GiftFollowsOpening`, `PictureKept` |
| `badges` (6.1M, 143 s) | two badges of either version, two services, two attempts, one order, one crash | `NoSecondCharge`, `TwoRetriesAtMost`, `DoubtKeepsItsKey` |

Bounds, and why they suffice:

- `MaxCrashes` 2 in `billing_crash`: one crash anywhere in a call, one more anywhere in its
  repetition; after a crash nothing but the rows is left, so a third meets no new situation.
  `Tries` 2 has a first attempt, a retry, and an exhausted retry. `TopUps` {-2, 2} up to
  `MaxBalance` 6: both signs, and wallets that run dry. `Fees` {1, 3}: below and above.
- `billing_money` has one fee, 2, and reservations of 3, 2 and 1, so that prices below, at and
  above the reservation occur with few states; an account may spend 3 and all together 4 in a
  day, or 2 and 3 after the other setting (`Tight`), which forbids what may already be frozen or charged; and `MaxDay` 1 has one midnight. It has no crash: a crash changes no wallet.
- Calls with a user's own key (`OwnKey`) are in the module and in the proofs; the instances
  have none, because such a call touches no wallet.
- The settings of `admission_slots` shrink and grow the global and the account limit and the
  queue, and switch calls off, each with more callers than slots.
- Four tasks of one character: one running, one whose promise is not resolved yet, one behind
  it, and one that finds an empty map.
- `MaxLoops` 1: one lost timer beside the kept one; for more, `HourGoesOn` has a proof. A timer held by the scheduler does not fire while a lost timer or a tick exists at
  that bound.
- In `HostedMaintenance` an account has at most one runtime, and nobody is banned while the
  account is being created (an administrator would have to name an account that has just
  appeared, within the start of its schedulers).
- `access`: `FailureLimit` is 2 instead of 5, so that the limit is reached, and passed by
  the guesses under way. `Window` and `SessionLife` are one tick: a tick is then the whole 15 minutes.
  `MaxHash` 3: an account, a change or reset, and one computed at the same time. `MaxFailures` is a
  saturation point above the bound that `GuessesBounded` states. `Room` keeps a session identifier
  free for every operation under way.
- `operations`: two requests are the original and its repetition, or two messages that wait for
  one section; two failures and two restarts hit a handler and its repetition in every stage.

- `letters`: an attempt and its repetition, an epoch and the next one, a process that is late and
  one that takes over. `Lease`, the longest transit and the horizon are one tick, the shortest back-off too:
  a lease lasts, ends now, or ended before. The proofs hold for all values.
- `proactive`: the user's budget is one message in a tick, so that the second character meets it, and a
  source lives two ticks. `MaxFailures` and `MaxUnanswered` are 1; `MaxAttempts` 2 has a lost attempt and its
  repetition. The two characters, with their occasions, are exchanged by the symmetry, and so are the processes.
- `keepsakes`: two attempts are one and its repetition; two workers are one that is late and its successor.
  `MaxMishaps` 1: a scan for orphans or a crash, at any moment; a lease runs out at any moment too, so that every
  late step happens. `PictureKept` excepts the `contested` pictures, which the code can lose (section 5).
- `badges`: two attempts instead of three; an order of the user and a crash hit a request in every stage.

`CHECK_DEADLOCK FALSE` appears in `MCActorQueue.cfg` and in `MCKeepsakes.cfg`: when all
tasks are done those systems have stopped. Everywhere else TLC also shows that somebody can always move.

Fairness. The event loop comes to every callback that is due, and every provider request ends
because the gateway's transports have a timeout; that is strong fairness of a call's own
steps where another call or an administrator may be served in between (`Idle`, `Turn`), and weak
fairness of the loops that run without an await. Nothing obliges anyone to call, cancel, ban,
adjust, delete, make a backup, or crash.
In `HostedOperations` handlers go on, because the section is given in order of arrival (proved of
`ActorQueue`), and a client that got no answer repeats its message under the same identifier,
which is what the web client does with an unchanged text (`apps/web/src/lib/chatSend.ts`). The client
may stop in reality: `PaidIsResolved` says what it gets if it does not. `HostedAccess`, `HostedMaintenance`,
`Proactive`, `Keepsakes` and `Badges` are checked without fairness, for safety alone. In `Letters` the scheduler
begins passes again and again (its timer), a pass goes on (a transaction does not wait for long, and the
call of the model has a timeout), and time passes; nobody is obliged to seal, open or ask again.

## 4. Proofs

All with TLAPS, for every value of the constants that satisfies the named assumptions
(`BillingAssumption`, `AdmissionAssumption`, `QueueAssumption`, `MaintenanceAssumption`,
`AccessAssumption`, `OperationAssumption`, `LettersAssumption`, `ProactiveAssumption`, `KeepsakesAssumption`,
`BadgesAssumption`); none needs the fairness. They say that bounds are natural numbers and that the model values differ;
`MaintenanceAssumption` also that the boot restores each account once (they are the rows of a table with a
primary key). Every invariant and action property of every run has a theorem, and so have the three refinements.

- `HostedBillingProofs`. The inductive invariant is `IInv`: types, solvency, `PhaseOf` (where a
  running call stands determines what its row says) and `RowOf` (what a row says about the
  world: nothing that is unsent has an answer, nothing with a retry number exists unless the
  attempt before it is settled). None of the safety properties is inductive without those two:
  that a request is not sent twice rests on `MarkSent` finding `reserved`, which rests on the
  row of a request that left never being `reserved` again, also after a crash has taken `pc`
  away. From `IInv` follow `TypeOK`, `Solvency`, `SentOnce`, `ReleasedNeverLeft`,
  `RetryOnlyAfterSettled`, `ChargedAnswerWasSaved`, the action property `FinalIsFinal`, and
  `BillingImplementsLedger`: each step is a step of `HostedLedger` or a stutter.
  For the money a second invariant, `MoneyInv`: only attempts with a row count (`Used`), and they are finitely many,
  although the calls of a module need not be; no row is dated after today; `WalletMatchesAttempts`;
  `DailyBudgetHeld`. Each step is first shown to be of one of four kinds (`RowStep`: it books, pays, frees or only
  marks one row) or to change no row (`NoRow`), which also serves the refinement. What a sum over a finite set
  becomes when one element or one summand changes is proved once (`SumOf` and the lemmas after it, by well-founded
  induction over finite subsets); with that, `reserve` compares the very sums that the step
  produces with the limits of the moment, which are among those of the day; new limits only add to these, and a
  midnight, which forgets all but the present ones, empties the day because no row is dated later.
- `PaidCallsProofs`, on the gateway: the inductive invariant `AdmissionInv` adds to the properties of the run
  that the two loops never run together, that a paused gateway has an empty queue, and that a
  drain is the only time when a queue may wait without an active call. The counters are related to
  the cardinality of the holders by lemmas on adding and removing one element. `OnePicture` (two
  pictures are never made at once) follows for all instances, and no run repeats it.
  On the badges: `BadgesInv` has types, `Held` (as long as the claim is its own, a worker's count is that of the row,
  nobody else's request is open, and a request that is still to leave is covered by an attempt),
  `Counted` (no more requests than attempts, and a job in the queue has one left and nothing open) and `Doubted`
  (a request of unknown outcome keeps its identifier in the row). `NoSecondCharge`, `TwoRetriesAtMost` and
  `DoubtKeepsItsKey` follow; what makes it inductive is that a worker whose claim lapsed learns of it before it writes.
- `HostedMaintenanceProofs`. `HourInv` (types of the hourly record with the bound on lost timers, and the property)
  gives `MaintenanceHourGoesOn`. `StopInv` is for the stops and starts. Its base says what a job knows (`Known`), where
  a backup stands in its walk over the accounts (`Walker`), that accounts and runtimes agree (`Directory`), that one
  backup at a time has closed the surfaces (`OneBackup`), and that no request is under way after the drain (`Drain`). For
  a banned account (`Banned`) whoever still starts one of its workers is ahead of a `disconnect` that will
  stop it. For a backup (`StopsAll`), the accounts its second walk has passed are off and stay so, because an
  earlier backup that is still waking accounts is ahead of the walk (`Before`, `Meets`): the two walks go in
  the same order, and await the same chains. `BackupsAreQuiet` and `BannedStaysQuiet` follow.
  On the character queue: the invariant relates the chain to the order of arrival: all that came before
  the task someone waits for are done once that task's promise is resolved, and the tail
  stands behind everybody who is not done. `ServedInOrder`, `OneAtATime` and `CountedWhileBusy` follow.
- `HostedAccessProofs`. `AccountInv` is types, `SlotsMatch`, `SessionsAreCurrent` and `Grounded`: what
  an operation read before its await, and every live session, names an account that exists. For the
  lockout, `Lockout(u)` says that the failures stay below the limit while a name is not locked out, and
  that once it is, the failures and the guesses still under way (`Guessing(u)`) together stay within the
  bound: each of them can add one, and no new one starts. They are at most `MaxPasswordWork`.
  For the invitations, `MembersInv` ties uses to redemptions and allows one for an account that exists.
- `HostedOperationsProofs`. `OperationInv` adds to types, `OneHandler` and `ToldIsStored` what a
  request knows in each stage (`Handling`: while it thinks there is no turn, once it has committed the turn is
  its own) and how the rows of a message agree (`Row`). A step writes the rows of one message only;
  `OneHandler` keeps them from all other requests, which is the lemma `OthersGoOn`, so that each
  action owes a proof for its own message alone (`OneMessageChanges`, `EndingKeeps`). `OperationsKeepThePromise` maps
  the steps to `MessagePromise`: a commit decides, because nobody else handles the message and its turn is missing;
  an answer and a repetition tell, because what they hold is the turn; a rejection refuses, because there is none.
- `LettersProofs`. `IInv` says row by row what a letter, its tasks and its runs know of each other (`OutRow`,
  `GenRow`, `AnswerRow`, `BackRow`, the chain of epochs `Chain`) and what a pass knows in each stage (`Claimed`,
  `Composes`, `Knows`). The argument for `LeasesAgree` and `AnsweredOnce`: the token of a run is that of the
  claim of its task, and both leases are counted from the same observed time, so that they end together (`RunHeld`)
  as long as the tokens agree; a claim with a newer token is only given once that lease has ended, and then the
  late pass finds `Current` or `Owns` false (`Apart`). `ReadInOrder` rests on `InOrder`, which compares what a
  pass claimed with all that was due at its time. An action is first shown to have an effect on few rows
  (`ClaimEffect` and so on), and then the effect to keep `IInv`. `LettersKeepThePromise` maps the same effects to
  `LetterPromise`: only an arrival, a loss of its task, a commit, a return, the user and the clock are seen;
  that a letter comes first is `InOrder`, and that nothing is early is what a pass knows of its task.
- `ProactiveProofs`. The types contain that a process that is at work has a task. `SentOnce` and `DeclinedIsFinal`
  need that a run under way belongs to a pass or to nobody, and that messages and the states of their sources agree;
  `QuotasHeld` relates the order of commits to the ages, so that what is recent is a tail of `sent`.
- `KeepsakesProofs`. `KeepsakesInv` is types, the four rows of a keepsake together (`Whole`), `GiftFollowsOpening`, and
  `FilesInv`: what a worker knows of its file (`Knows`), that a worker that may take away or replace a file carries none that an
  uncontested keepsake records (`Safe`), and that such a file is on the disk, not in the list of a scan and among the
  references the scan has read (`Stays`). `PictureKept` is the visible part of that.

Some theorems state properties that no run repeats: the `TypeOK` of every module, `Solvency`, `ReleasedNeverLeft` and
`RetryOnlyAfterSettled`, `FirstComeFirstServed`, `ServedInOrder`, `NothingEarly` and `LeasesAgree`, `DeclinedIsFinal` and
`ClaimsAreKept`, `QueueHoldsTheWaiting`, `OnePicture`, `CountedWhileBusy`, `SlotsMatch` of `HostedAccess`,
`OneAdministrator`, `OneReplyForAll`, and the invariant of `Letters`.

Only model-checked: the liveness properties, `CallsEnd`, `SentIsResolved`, `TextIsServed`, `EveryTaskEnds` (of the character
queue and of the letters) and `PaidIsResolved`. They hold under fairness, which is about `ENABLED`, and that is beyond the
prover.

## 5. What was found

These disagreements between the code and what is said of it were met while modelling. The models have the
behaviour, and no run asserts the opposite:

- **A message can fail in the same way for ever.** If the reply is found incomplete
  after the repairs (`services/turn-decision-service.ts:442`) or beside its goal, the client gets a 500 and is asked to
  retry. The repetition takes the saved answers of the first run call by call and comes to the same
  end, each time, although `hosted/business-http.ts:108` calls such an operation recoverable.
  A changed text is a new message and is not affected; nothing is charged twice.
- **A picture can be lost while it is committed.** `services/keepsake-service.ts:634` reads the referenced keys once; the walk over the directory awaits, and a file
  that is written and committed meanwhile is on the disk and not among the keys. `docs/ROLLOUT.md:16` calls
  keepsakes "可持久回看" (lasting, to be looked at again). A worker that outlives its lease can do the same to its
  successor: `persist` removes what it wrote without asking the rows (`services/keepsake-asset-store.ts:98`), and
  `removeIfCreated` asks them an await before. These are the `contested` pictures of `Keepsakes`.
- **A reply shows a keepsake that is not ready.** `listReadyKeepsakeIdsForLetter`
  (`repositories/keepsake-repository.ts:897`) asks whether the keepsake was received only. `docs/ROLLOUT.md:69` says that
  only objects that are `ready` appear in a reply, as does `db/migrations/020_keepsakes.sql:224`; since migration 037 the
  keepsake is given before its picture is there, so it is the documents that are behind.
- **A keepsake can be 'generating' for ever.** When the process dies in the last attempt, the next
  claim turns the task into a dead letter (`repositories/correspondence-repository.ts:2179`) and fails the run of a
  letter in the same place, but nothing fails the run and the status of a keepsake, although
  `db/migrations/037_keepsake_retry_receipt.sql:2` says that a terminal failure remains failed.

- **Rows of an interrupted process are not put up for review.** After a crash
  between `sent` and the answer the row stays `sent`. `recoverInterruptedAttempts()`
  (`hosted/control-store.ts:1343`), the statement that would turn it into `unknown`, has no caller,
  and the overview counts only `unknown` rows, although `docs/HOSTED.md:207` says that such
  results are shown for review. Nothing is sent or charged twice: the freeze stays.
- **A ban that waited can stop what an unban started.** `disconnect` (`hosted/runtime-manager.ts:225`) waits for
  a cycle, meanwhile the account is unbanned and a backup or the unban resumes it, then `disconnect` goes on
  to `achievements.pause()`. The active account stays without its badge worker, also after a
  backup, although `docs/HOSTED.md:239` says that a backup restores scheduling.
- **An hourly scheduler can lose a timer** (`runtime/hourly-scheduler.ts:117`). If a stop and a start fall into
  one tick, two timers exist and `stop()` knows only one. The other fires during a later backup's
  snapshot, although `hosted/backup.ts:143` says that jobs are drained. `HourGoesOn` shows that the opposite,
  an hour that stops coming, does not occur.
- **A letter can be overtaken by the state of its reader.** A chat turn first catches up on letters and then
  advances the character's runtime state to the present (`http/routes.ts:495`, `:530`,
  `services/turn-commit-service.ts:289`). A letter that comes due in between, or whose pass was blocked by
  another's lease, finds a state newer than its arrival; the snapshot of its arrival refuses that
  (`services/correspondence-snapshot-service.ts:625`) at every attempt, and the arrival ends as a dead letter.
  `docs/adr/0007-temporal-correspondence.md:103` orders effects by their effective time. In `Letters` these are `Chat`,
  `outrun` and `ArrivalFails`; `NothingForgotten` says that the letter is then given up in the open.
- **Some dead letters have no way back.** `docs/adr/0007-temporal-correspondence.md:282` promises a "visible,
  recoverable dead letter". The user's retry asks for a run that failed
  (`repositories/correspondence-repository.ts:1889`); where `preflight` threw before it claimed a run, there is none, and
  an arrival that was given up has no retry at all.
- **A scheduler may repeat its passes.** While the earliest task of a character is leased elsewhere, its
  due time makes the character a candidate again at once (`repositories/correspondence-repository.ts:2246`,
  `runtime/temporal-task-scheduler.ts:182`), until the limit of passes of the cycle.

## 6. Not modelled, and the plan

Data is abstract throughout: prompts, answers, prices per token, encryption, SQL text, the
contents of letters, memories and life simulation. Not modelled because it is I/O: collecting and
encrypting the files of a backup, restoring, HTTP parsing, static files. Clients and scripts
are outside. Three details of modelled parts are left out too: a call of `runExclusive` inside a section of the same
character, which would wait for itself for ever (`ActorQueue` has none, because no caller nests: a fact about the
callers that `services/correspondence-service.ts:297` and `services/temporal-catch-up-service.ts:158` warn of);
the advance of life before a letter's claim; and a second kind of keepsake for one source (section 2).

Planned, most important first:

1. `DiagnosticBudget`: the budget that is reserved before an await and given back over midnight.
2. `TemporalScheduler`: candidates, back-off and agent passes of one scheduler, which
   `HostedMaintenance` abstracts to a chain of cycles; to be shown to implement that chain.
3. `HostedOperations` in more detail: the single model calls of a turn under their attempt numbers,
   composed with `HostedBilling`; event streams that end when an account is banned.
4. Liveness of `Keepsakes`, `Badges` and `HostedMaintenance` (every task ends, every backup opens the surfaces again) on
   instances smaller than those of their runs.
5. Abstract specifications of `Keepsakes` and `Badges` (a source gets one picture; an order pays once) and of `ActorQueue`
   (a lock with a queue), to be implemented as `HostedOperations` and `Letters` implement theirs; and
   the composition of `ActorQueue` with the sections of `HostedOperations`, so that `SectionFree` is proved, not assumed.

The list of runs is kept short on purpose: a run of a new module should replace or join an
existing one that asks a neighbouring question.
