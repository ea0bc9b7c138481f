--------------------------- MODULE LettersProofs ---------------------------
(***************************************************************************)
(* Safety of Letters, for any number of letters, processes, attempts and   *)
(* crashes, and for every lease, transit and back-off.                     *)
(***************************************************************************)
EXTENDS Letters, FiniteSetTheorems, TLAPS

TaskRow == [status : Statuses, due : Int, attempt : 0..MaxAttempts, lease : Int]
RunRow  == [status : {"none", "generating", "retryable", "committed", "failed"},
            attempt : 0..MaxAttempts, token : 0..MaxAttempts, lease : Int]
PassRow == [stage : {"idle", "find", "claim", "work", "compose", "finish", "retry", "chat"},
            observed : (-Horizon)..0, task : Tasks \cup {<<>>}, token : 0..MaxAttempts,
            result : {"none", "retryable", "final"}, delay : Nat]

Shape ==
  /\ letter \in [Letters -> {"draft", "in_transit", "read"}]
  /\ transit \in [Letters -> Transits \cup {0}]
  /\ reply \in [Letters -> {"none", "in_transit", "delivered_unread", "read"}]
  /\ task \in [Tasks -> TaskRow]
  /\ run \in [Letters \X Epochs -> RunRow]
  /\ outrun \in [Letters -> BOOLEAN]
  /\ pass \in [Processes -> PassRow]
  /\ crashes \in 0..MaxCrashes

\* A row of a run that may be claimed once more has an attempt left.
Counted == \A x \in Letters \X Epochs :
  /\ run[x].status = "none" => run[x].attempt = 0
  /\ run[x].status = "retryable" => run[x].attempt < MaxAttempts
  /\ run[x].status = "generating" => run[x].attempt >= 1

Exists(t) == task[t].status # "none"

\* A letter and the task of its arrival; its answer, and the tasks and the runs that are to
\* write it; the reply, and the task of its arrival.
OutRow(l) ==
  /\ letter[l] = "draft" <=> ~Exists(Out(l))
  /\ letter[l] = "in_transit" => Pending(Out(l))
  /\ letter[l] = "read" => task[Out(l)].due <= 0

GenRow(l) ==
  /\ letter[l] = "read" <=> Exists(Gen(l, 0))
  /\ \A e \in Epochs : Exists(Gen(l, e)) => letter[l] = "read"
  /\ letter[l] = "read" /\ reply[l] = "none" => \E e \in Epochs : Pending(Gen(l, e))

Won(l, e) == run[<<l, e>>].status = "committed"

AnswerRow(l) ==
  /\ (\E e \in Epochs : Won(l, e)) <=> reply[l] # "none"
  /\ \A d, e \in Epochs : Won(l, d) /\ Won(l, e) => d = e

BackRow(l) ==
  /\ Exists(Back(l)) <=> reply[l] # "none"
  /\ reply[l] = "in_transit" => Pending(Back(l))
  /\ reply[l] \in {"delivered_unread", "read"} => task[Back(l)].due <= 0

\* The user asks again only for what has failed, and so on.
Failed(l, e)  == task[Gen(l, e)].status = "dead_letter" /\ run[<<l, e>>].status = "failed"
Started(l, e) == run[<<l, e>>].status # "none"
Chain(l) ==
  /\ \A d, e \in Epochs : d < e /\ Exists(Gen(l, e)) => Failed(l, d)
  /\ \A e \in Epochs : Started(l, e) => Exists(Gen(l, e))

Working(p) == pass[p].stage \in {"work", "compose", "finish", "retry"}

\* What a pass knows of its task.
Knows(p) ==
  /\ Working(p) \/ At(p, "claim") => T(p) \in Tasks /\ Exists(T(p))
  /\ At(p, "compose") => Kind(T(p)) = "generation"
  /\ At(p, "finish") => \/ Kind(T(p)) = "generation" /\ reply[Of(T(p))] # "none"
                        \/ Kind(T(p)) = "return" /\ reply[Of(T(p))] \in {"delivered_unread", "read"}
  /\ (Working(p) \/ At(p, "claim")) /\ Kind(T(p)) # "generation" => task[T(p)].due <= 0

\* The claims on a task t are told apart by their tokens: the lease of the owner's, of token k
\* at the time s, is that of the task; one that is lost is older than the next one, its own lease
\* is over, and a retry waits at least as long.
Mine(t, k) == task[t].status = "claimed" /\ task[t].attempt = k
Held(t, k, s) ==
  /\ k \in 1..(task[t].attempt)
  /\ Mine(t, k) => task[t].lease = s + Lease
  /\ ~Mine(t, k) => s + Lease <= 0
  /\ ~Mine(t, k) /\ Kind(t) = "generation" /\ task[t].status = "claimed"
       => s + Lease <= task[t].lease - Lease
  /\ Waiting(t) /\ Kind(t) = "generation" => s + Lease <= task[t].due

Claimed(p) == Working(p) => Held(T(p), pass[p].token, Seen(p))

Apart(p, q) ==
  Working(p) /\ Working(q) /\ T(p) = T(q) /\ pass[p].token = pass[q].token => p = q

\* The run of a pass that composes is its own while the claim of the task is, and only then.
Composes(p) ==
  /\ At(p, "compose") /\ Owns(p) => Current(p)
  /\ (At(p, "work") \/ At(p, "finish") \/ At(p, "retry")) /\ Kind(T(p)) = "generation" => ~Current(p)

Runs(l, e, k) == run[<<l, e>>].status = "generating" /\ run[<<l, e>>].token = k
RunHeld(l, e) ==
  /\ task[Gen(l, e)].status = "claimed" => task[Gen(l, e)].lease <= Lease
  /\ run[<<l, e>>].status = "generating" =>
       /\ run[<<l, e>>].token \in 1..(task[Gen(l, e)].attempt)
       /\ Mine(Gen(l, e), run[<<l, e>>].token) => run[<<l, e>>].lease = task[Gen(l, e)].lease
       /\ ~Mine(Gen(l, e), run[<<l, e>>].token) => run[<<l, e>>].lease <= 0

InOrder(p) ==
  (At(p, "claim") \/ At(p, "work")) /\ Kind(T(p)) = "outbound" =>
    \A l \in Letters : letter[l] = "in_transit" /\ task[Out(l)].due < task[T(p)].due
      => task[Out(l)].status = "dead_letter"

IInv ==
  /\ Shape /\ Counted
  /\ \A l \in Letters : OutRow(l) /\ GenRow(l) /\ AnswerRow(l) /\ BackRow(l)
  /\ \A l \in Letters : Chain(l)
  /\ \A p \in Processes : Knows(p)
  /\ \A p \in Processes : Claimed(p)
  /\ \A p, q \in Processes : Apart(p, q)
  /\ \A p \in Processes : Composes(p)
  /\ \A l \in Letters, e \in Epochs : RunHeld(l, e)
  /\ \A p \in Processes : InOrder(p)

-----------------------------------------------------------------------------
(* The constants and the tasks.                                            *)

\* What the assumption says of the constants, in the forms the proofs use.
LEMMA Constants ==
  /\ MaxAttempts \in Nat \ {0} /\ Lease \in Nat \ {0} /\ Horizon \in Nat
  /\ MaxEpoch \in Nat /\ MaxCrashes \in Nat /\ 0 \in Epochs
  /\ \A n \in Attempts : Backoff[n] \in Nat
  /\ \A d \in Transits : d \in Nat
  BY LettersAssumption DEF LettersAssumption, Epochs

\* A task is known by its kind, its letter and its epoch.
LEMMA TaskFacts ==
  /\ \A l \in Letters : /\ Out(l) \in Tasks /\ Kind(Out(l)) = "outbound" /\ Of(Out(l)) = l
                        /\ Back(l) \in Tasks /\ Kind(Back(l)) = "return" /\ Of(Back(l)) = l
  /\ \A l \in Letters, e \in Epochs :
       /\ Gen(l, e) \in Tasks /\ Kind(Gen(l, e)) = "generation"
       /\ Of(Gen(l, e)) = l /\ Epoch(Gen(l, e)) = e
  /\ \A t \in Tasks : /\ Of(t) \in Letters /\ t # <<>>
                      /\ \/ Kind(t) = "outbound" /\ t = Out(Of(t))
                         \/ Kind(t) = "return" /\ t = Back(Of(t))
                         \/ /\ Kind(t) = "generation" /\ t = Gen(Of(t), Epoch(t))
                            /\ Epoch(t) \in Epochs /\ <<Of(t), Epoch(t)>> \in Letters \X Epochs
<1>1. \A l \in Letters : /\ Out(l) \in Tasks /\ Kind(Out(l)) = "outbound" /\ Of(Out(l)) = l
                        /\ Back(l) \in Tasks /\ Kind(Back(l)) = "return" /\ Of(Back(l)) = l
  BY DEF Tasks, Out, Back, Kind, Of
<1>2. \A l \in Letters, e \in Epochs :
       /\ Gen(l, e) \in Tasks /\ Kind(Gen(l, e)) = "generation"
       /\ Of(Gen(l, e)) = l /\ Epoch(Gen(l, e)) = e
  BY DEF Tasks, Gen, Kind, Of, Epoch
<1>3. \A l \in Letters, e \in Epochs : Out(l) # <<>> /\ Back(l) # <<>> /\ Gen(l, e) # <<>>
  BY DEF Out, Back, Gen
<1>4. \A t \in Tasks : \E l \in Letters : t = Out(l) \/ t = Back(l) \/ \E e \in Epochs : t = Gen(l, e)
  BY DEF Tasks
<1>5. ASSUME NEW t \in Tasks
      PROVE  /\ Of(t) \in Letters /\ t # <<>>
             /\ \/ Kind(t) = "outbound" /\ t = Out(Of(t))
                \/ Kind(t) = "return" /\ t = Back(Of(t))
                \/ /\ Kind(t) = "generation" /\ t = Gen(Of(t), Epoch(t))
                   /\ Epoch(t) \in Epochs /\ <<Of(t), Epoch(t)>> \in Letters \X Epochs
  <2>1. PICK l \in Letters : t = Out(l) \/ t = Back(l) \/ \E e \in Epochs : t = Gen(l, e)
    BY <1>4
  <2>2. CASE t = Out(l) \/ t = Back(l)
    BY <1>1, <1>3, <2>2, Constants
  <2>3. ASSUME NEW e \in Epochs, t = Gen(l, e)
        PROVE  /\ Of(t) = l /\ Epoch(t) = e /\ Kind(t) = "generation" /\ t # <<>>
    BY <1>2, <1>3, <2>3
  <2> QED
    BY <2>1, <2>2, <2>3
<1> QED
  BY <1>1, <1>2, <1>5

\* Runs are known by the letter and the epoch.
LEMMA PairFacts ==
  /\ \A l \in Letters, e \in Epochs : <<l, e>> \in Letters \X Epochs
  /\ \A k, l, d, e : <<k, d>> = <<l, e>> => k = l /\ d = e
  OBVIOUS

-----------------------------------------------------------------------------
(* What a step does to a pass, a task and a run.                           *)

\* All passes but p stay; p goes on with its task, takes one, or drops it.
OthersRest(p) == pass' \in [Processes -> PassRow]
              /\ \A q \in Processes : q # p => pass'[q] = pass[q]
Moves(p, s) ==
  /\ OthersRest(p) /\ pass'[p].stage = s
  /\ pass'[p].observed = Seen(p) /\ pass'[p].task = T(p) /\ pass'[p].token = pass[p].token
TakesUp(p, t) ==
  /\ OthersRest(p) /\ pass'[p].stage = "claim" /\ pass'[p].observed = Seen(p) /\ pass'[p].task = t
Drops(p) == OthersRest(p) /\ pass'[p].stage \in {"idle", "find", "chat"}

TaskSet(t, s, due, n, lease) ==
  /\ task' \in [Tasks -> TaskRow]
  /\ task'[t].status = s /\ task'[t].due = due /\ task'[t].attempt = n /\ task'[t].lease = lease
  /\ \A u \in Tasks : u # t => task'[u] = task[u]
RunSet(x, s, n, k, lease) ==
  /\ run' \in [Letters \X Epochs -> RunRow]
  /\ run'[x].status = s /\ run'[x].attempt = n /\ run'[x].token = k /\ run'[x].lease = lease
  /\ \A y \in Letters \X Epochs : y # x => run'[y] = run[y]

\* Going back to the search or ending gives up the task a pass holds.
LEMMA DropsEffect ==
  ASSUME Shape, NEW p \in Processes,
         Again(p) \/ Ends(p) \/ (\E s \in {"find", "chat"} : pass' = [pass EXCEPT ![p] = Fresh(s, 0)])
  PROVE  Drops(p)
<1>1. \A at \in (-Horizon)..0, s \in {"idle", "find", "chat"} :
        Fresh(s, at) \in PassRow /\ Fresh(s, at).stage = s
  BY Constants DEF Fresh, PassRow
<1>2. Seen(p) \in (-Horizon)..0 /\ 0 \in (-Horizon)..0
  BY Constants DEF Shape, PassRow, Seen
<1>3. PICK s \in {"idle", "find", "chat"}, at \in (-Horizon)..0 : pass' = [pass EXCEPT ![p] = Fresh(s, at)]
  BY <1>2 DEF Again, Ends, Idle
<1> QED
  BY <1>1, <1>3 DEF Drops, OthersRest, Shape

\* Going on to a stage keeps the task and its token.
LEMMA GoesEffect ==
  ASSUME Shape, NEW p \in Processes, NEW s \in {"compose", "finish", "retry"}, Goes(p, s)
  PROVE  Moves(p, s)
  BY ZenonT(40) DEF Goes, Moves, OthersRest, Shape, PassRow, Seen, T

\* A refusal goes on to the stage that puts the task back.
LEMMA RefusedEffect ==
  ASSUME Shape, NEW p \in Processes, NEW result \in {"retryable", "final"}, NEW delay \in Nat,
         Refused(p, result, delay)
  PROVE  Moves(p, "retry")
<1> DEFINE first == [pass EXCEPT ![p].stage = "retry"]
           second == [first EXCEPT ![p].result = result]
<1>1. /\ first \in [Processes -> PassRow] /\ first[p].stage = "retry"
      /\ first[p].observed = Seen(p) /\ first[p].task = T(p) /\ first[p].token = pass[p].token
      /\ \A q \in Processes : q # p => first[q] = pass[q]
  BY ZenonT(40) DEF Shape, PassRow, Seen, T
<1>2. pass' = [second EXCEPT ![p].delay = delay]
  BY DEF Refused
<1> HIDE DEF first
<1>3. /\ second \in [Processes -> PassRow] /\ second[p].stage = "retry"
      /\ second[p].observed = Seen(p) /\ second[p].task = T(p) /\ second[p].token = pass[p].token
      /\ \A q \in Processes : q # p => second[q] = pass[q]
  BY <1>1 DEF PassRow
<1> HIDE DEF second
<1> QED
  BY <1>2, <1>3, ZenonT(40) DEF Moves, OthersRest, PassRow

\* The types of what a pass carries.
LEMMA PassFacts ==
  ASSUME Shape, NEW p \in Processes
  PROVE  Seen(p) \in (-Horizon)..0 /\ pass[p].token \in 0..MaxAttempts /\ pass[p].delay \in Nat
  BY ZenonT(40) DEF Shape, PassRow, Seen

\* The types of the fields of a task.
LEMMA TaskFieldTypes ==
  ASSUME Shape, NEW t \in Tasks
  PROVE  /\ task[t] \in TaskRow /\ task[t].due \in Int /\ task[t].attempt \in 0..MaxAttempts
         /\ task[t].lease \in Int /\ task[t].status \in Statuses
  BY DEF Shape, TaskRow

\* The types of the fields of a run.
LEMMA RunFieldTypes ==
  ASSUME Shape, NEW x \in Letters \X Epochs
  PROVE  /\ run[x] \in RunRow /\ run[x].attempt \in 0..MaxAttempts /\ run[x].token \in 0..MaxAttempts
         /\ run[x].lease \in Int
         /\ run[x].status \in {"none", "generating", "retryable", "committed", "failed"}
  BY DEF Shape, RunRow

\* A task that is left, or made.
LEMMA LeftEffect ==
  ASSUME Shape, NEW t \in Tasks, NEW s \in Statuses, NEW due \in Int,
         task' = [task EXCEPT ![t] = Left(t, s, due)]
  PROVE  TaskSet(t, s, due, task[t].attempt, 0)
<1>1. Left(t, s, due) \in TaskRow /\ Left(t, s, due).status = s /\ Left(t, s, due).due = due
      /\ Left(t, s, due).attempt = task[t].attempt /\ Left(t, s, due).lease = 0
  BY TaskFieldTypes DEF Left, TaskRow
<1> QED
  BY <1>1 DEF TaskSet, Shape

\* A new task is pending, with no attempt and no lease.
LEMMA NewTaskEffect ==
  ASSUME Shape, NEW t \in Tasks, NEW due \in Int, task' = [task EXCEPT ![t] = NewTask(due)]
  PROVE  TaskSet(t, "pending", due, 0, 0)
<1>1. NewTask(due) \in TaskRow /\ NewTask(due).status = "pending" /\ NewTask(due).due = due
      /\ NewTask(due).attempt = 0 /\ NewTask(due).lease = 0
  BY Constants DEF NewTask, TaskRow, Statuses
<1> QED
  BY <1>1 DEF TaskSet, Shape

\* A closed run keeps its attempt and loses its token and its lease.
LEMMA ClosedEffect ==
  ASSUME Shape, NEW x \in Letters \X Epochs, NEW s \in {"retryable", "committed", "failed"},
         run' = [run EXCEPT ![x] = Closed(@, s)]
  PROVE  RunSet(x, s, run[x].attempt, 0, 0)
<1> DEFINE c == Closed(run[x], s)
<1>1. c \in RunRow /\ c.status = s /\ c.attempt = run[x].attempt /\ c.token = 0 /\ c.lease = 0
  BY RunFieldTypes, Constants DEF Closed, RunRow
<1>2. run' = [run EXCEPT ![x] = c]
  OBVIOUS
<1> HIDE DEF c
<1> QED
  BY <1>1, <1>2 DEF RunSet, Shape

-----------------------------------------------------------------------------
(* What each step does, without its records.                               *)

FindEffect(p, t) ==
  /\ t \in Tasks /\ t \in Heads(p) /\ TakesUp(p, t)
  /\ UNCHANGED <<rows, task, run, crashes>>

\* The search writes no row.
LEMMA FindDoes == ASSUME Shape, NEW p \in Processes, Find(p) PROVE \E t \in Tasks : FindEffect(p, t)
<1>1. PICK t \in Heads(p) : pass' = [pass EXCEPT ![p].stage = "claim", ![p].task = t]
  BY DEF Find
<1>2. t \in Tasks
  BY DEF Heads, Candidates
<1> DEFINE first == [pass EXCEPT ![p].stage = "claim"]
<1>3. /\ first \in [Processes -> PassRow] /\ first[p].stage = "claim" /\ first[p].observed = Seen(p)
      /\ \A q \in Processes : q # p => first[q] = pass[q]
  BY ZenonT(40) DEF Shape, PassRow, Seen
<1>4. pass' = [first EXCEPT ![p].task = t]
  BY <1>1
<1> HIDE DEF first
<1>5. TakesUp(p, t)
  BY <1>2, <1>3, <1>4, ZenonT(40) DEF TakesUp, OthersRest, PassRow
<1> QED
  BY <1>2, <1>5 DEF Find, FindEffect

ClaimEffect(p, t) ==
  /\ At(p, "claim") /\ Free(t, Seen(p)) /\ task[t].due <= Seen(p) /\ task[t].attempt < MaxAttempts
  /\ TaskSet(t, "claimed", task[t].due, task[t].attempt + 1, Seen(p) + Lease)
  /\ OthersRest(p) /\ pass'[p].stage = "work" /\ pass'[p].observed = Seen(p)
  /\ pass'[p].task = t /\ pass'[p].token = task[t].attempt + 1
  /\ UNCHANGED <<rows, run, crashes>>

\* A claim writes the row of its task.
LEMMA ClaimDoes ==
  ASSUME Shape, NEW p \in Processes, T(p) \in Tasks, Claim(p) PROVE ClaimEffect(p, T(p))
<1> DEFINE t == T(p)
           n == task[t].attempt + 1
           c == [status |-> "claimed", due |-> task[t].due, attempt |-> n, lease |-> Seen(p) + Lease]
           first == [pass EXCEPT ![p].stage = "work"]
<1>1. n \in 0..MaxAttempts /\ Seen(p) + Lease \in Int
  BY TaskFieldTypes, PassFacts, Constants DEF Claim
<1>2. c \in TaskRow
  BY <1>1, TaskFieldTypes DEF TaskRow, Statuses
<1>3. task' = [task EXCEPT ![t] = c]
  BY DEF Claim
<1>4. TaskSet(t, "claimed", task[t].due, n, Seen(p) + Lease)
  BY <1>2, <1>3 DEF TaskSet, Shape
<1>5. /\ first \in [Processes -> PassRow] /\ first[p].stage = "work" /\ first[p].observed = Seen(p)
      /\ first[p].task = t /\ \A q \in Processes : q # p => first[q] = pass[q]
  BY ZenonT(40) DEF Shape, PassRow, Seen, T
<1>6. pass' = [first EXCEPT ![p].token = n]
  BY DEF Claim
<1> HIDE DEF first, n
<1>7. /\ OthersRest(p) /\ pass'[p].stage = "work" /\ pass'[p].observed = Seen(p)
      /\ pass'[p].task = t /\ pass'[p].token = n
  BY <1>1, <1>5, <1>6, ZenonT(40) DEF OthersRest, PassRow
<1> QED
  BY <1>4, <1>7 DEF Claim, ClaimEffect, n

SweepEffect(p, t) ==
  /\ At(p, "claim") /\ Free(t, Seen(p)) /\ task[t].attempt >= MaxAttempts
  /\ TaskSet(t, "dead_letter", task[t].due, task[t].attempt, 0)
  /\ run' \in [Letters \X Epochs -> RunRow]
  /\ \A x \in Letters \X Epochs :
       \/ run'[x] = run[x]
       \/ Kind(t) = "generation" /\ x[1] = Of(t) /\ run[x].status = "generating"
          /\ run'[x].status = "failed"
  /\ Drops(p) /\ UNCHANGED <<rows, crashes>>

\* The sweep of exhausted tasks writes the row of its task and of its run.
LEMMA SweepDoes ==
  ASSUME Shape, NEW p \in Processes, T(p) \in Tasks, Sweep(p) PROVE SweepEffect(p, T(p))
<1>1. TaskSet(T(p), "dead_letter", task[T(p)].due, task[T(p)].attempt, 0)
  BY LeftEffect, TaskFieldTypes DEF Sweep, Statuses
<1>2. \A x \in Letters \X Epochs : Closed(run[x], "failed") \in RunRow /\ Closed(run[x], "failed").status = "failed"
  BY RunFieldTypes, Constants DEF Closed, RunRow
<1>3. /\ run' \in [Letters \X Epochs -> RunRow]
      /\ \A x \in Letters \X Epochs :
           \/ run'[x] = run[x]
           \/ Kind(T(p)) = "generation" /\ x[1] = Of(T(p)) /\ run[x].status = "generating"
              /\ run'[x].status = "failed"
  BY <1>2 DEF Sweep, Spent, Shape
<1> QED
  BY <1>1, <1>3, DropsEffect DEF Sweep, SweepEffect

ArriveEffect(p, l) ==
  /\ l \in Letters /\ At(p, "work") /\ T(p) = Out(l) /\ (Owns(p) \/ task[Out(l)].status = "completed")
  /\ task' \in [Tasks -> TaskRow]
  /\ task'[Out(l)].status = "completed" /\ task'[Out(l)].due = task[Out(l)].due
  /\ task'[Out(l)].attempt = task[Out(l)].attempt
  /\ Exists(Gen(l, 0)) => task'[Gen(l, 0)] = task[Gen(l, 0)]
  /\ ~Exists(Gen(l, 0)) => /\ task'[Gen(l, 0)].status = "pending" /\ task'[Gen(l, 0)].attempt = 0
  /\ \A u \in Tasks : u # Out(l) /\ u # Gen(l, 0) => task'[u] = task[u]
  /\ letter' = [letter EXCEPT ![l] = "read"]
  /\ Drops(p) /\ UNCHANGED <<transit, reply, run, outrun, crashes>>

\* An arrival writes the letter and the tasks that follow from it.
LEMMA ArriveDoes ==
  ASSUME Shape, NEW p \in Processes, T(p) \in Tasks, Arrive(p) PROVE ArriveEffect(p, Of(T(p)))
<1> DEFINE l == Of(T(p))
           t == Out(l)
           g == Gen(l, 0)
           first == [task EXCEPT ![t] = Left(t, "completed", task[t].due)]
           new == IF task[g].status = "none" THEN NewTask(task[t].due) ELSE task[g]
<1>1. l \in Letters /\ T(p) = t /\ t \in Tasks /\ g \in Tasks /\ t # g
  BY TaskFacts, Constants DEF Arrive
<1>2. /\ Left(t, "completed", task[t].due) \in TaskRow
      /\ Left(t, "completed", task[t].due).status = "completed"
      /\ Left(t, "completed", task[t].due).due = task[t].due
      /\ Left(t, "completed", task[t].due).attempt = task[t].attempt
  BY <1>1, TaskFieldTypes DEF Left, TaskRow, Statuses
<1>3. new \in TaskRow /\ (Exists(g) => new = task[g])
      /\ (~Exists(g) => new.status = "pending" /\ new.attempt = 0)
  BY <1>1, TaskFieldTypes, Constants DEF NewTask, TaskRow, Statuses, Exists
<1>4. task' = [first EXCEPT ![g] = new]
  BY <1>1 DEF Arrive
<1>5. first \in [Tasks -> TaskRow] /\ first[t] = Left(t, "completed", task[t].due)
      /\ \A u \in Tasks : u # t => first[u] = task[u]
  BY <1>1, <1>2 DEF Shape
<1> HIDE DEF first, new
<1>6. task' \in [Tasks -> TaskRow] /\ task'[t] = first[t] /\ task'[g] = new
      /\ \A u \in Tasks : u # t /\ u # g => task'[u] = task[u]
  BY <1>1, <1>3, <1>4, <1>5
<1>7. Drops(p)
  BY DropsEffect DEF Arrive
<1>8. /\ task'[t].status = "completed" /\ task'[t].due = task[t].due
      /\ task'[t].attempt = task[t].attempt
  BY <1>2, <1>5, <1>6
<1> HIDE DEF t, g
<1> QED
  BY <1>1, <1>3, <1>6, <1>7, <1>8 DEF Arrive, ArriveEffect, t, g

DeliverEffect(p, l) ==
  /\ l \in Letters /\ At(p, "work") /\ T(p) = Back(l) /\ Kind(T(p)) = "return"
  /\ reply' = [reply EXCEPT ![l] = IF @ = "in_transit" THEN "delivered_unread" ELSE @]
  /\ Moves(p, "finish") /\ UNCHANGED <<letter, transit, task, run, outrun, crashes>>

\* The arrival of a reply writes the reply and goes on to finish its task.
LEMMA DeliverDoes ==
  ASSUME Shape, NEW p \in Processes, T(p) \in Tasks, ReplyArrives(p) PROVE DeliverEffect(p, Of(T(p)))
  BY TaskFacts, GoesEffect DEF ReplyArrives, DeliverEffect

\* A step that only gives the task back.
GiveUpEffect(p) == At(p, "work") /\ Moves(p, "retry") /\ UNCHANGED <<rows, task, run, crashes>>

\* An arrival that fails writes no row.
LEMMA ArrivalFailsDoes ==
  ASSUME Shape, NEW p \in Processes, ArrivalFails(p) PROVE GiveUpEffect(p)
<1> DEFINE first == [pass EXCEPT ![p].stage = "retry"]
<1>1. /\ first \in [Processes -> PassRow] /\ first[p].stage = "retry" /\ first[p].observed = Seen(p)
      /\ first[p].task = T(p) /\ first[p].token = pass[p].token
      /\ \A q \in Processes : q # p => first[q] = pass[q]
  BY ZenonT(40) DEF Shape, PassRow, Seen, T
<1>2. pass' = [first EXCEPT ![p].result = "retryable"]
  BY DEF ArrivalFails
<1> HIDE DEF first
<1>3. Moves(p, "retry")
  BY <1>1, <1>2, ZenonT(40) DEF Moves, OthersRest, PassRow
<1> QED
  BY <1>3 DEF ArrivalFails, GiveUpEffect

\* A task that cannot start writes no row.
LEMMA CannotStartDoes ==
  ASSUME Shape, NEW p \in Processes, CannotStart(p) PROVE GiveUpEffect(p)
<1>1. Backoff[1] \in Nat
  BY Constants DEF Attempts
<1>2. PICK result \in {"retryable", "final"} : Refused(p, result, Backoff[1])
  BY DEF CannotStart
<1> QED
  BY <1>1, <1>2, RefusedEffect DEF CannotStart, GiveUpEffect

PreflightEffect(p, t) ==
  /\ t \in Tasks /\ At(p, "work") /\ T(p) = t /\ Kind(t) = "generation" /\ RunId(t) \in Letters \X Epochs
  /\ Takes(p)
  /\ \E n \in 1..MaxAttempts : RunSet(RunId(t), "generating", n, pass[p].token, Seen(p) + Lease)
  /\ Moves(p, "compose") /\ UNCHANGED <<rows, task, crashes>>

\* The preflight writes the run of its task.
LEMMA PreflightDoes ==
  ASSUME Shape, Counted, NEW p \in Processes, T(p) \in Tasks, Preflight(p)
  PROVE  PreflightEffect(p, T(p))
<1> DEFINE x == RunId(T(p))
           n == run[x].attempt + 1
           r == [status |-> "generating", attempt |-> n, token |-> pass[p].token,
                 lease |-> Seen(p) + Lease]
<1>1. x \in Letters \X Epochs
  BY TaskFacts DEF Preflight, RunId
<1>2. run[x].attempt < MaxAttempts
  BY <1>1, RunFieldTypes, Constants DEF Preflight, Takes, Spent, Counted, RunOf
<1>3. n \in 1..MaxAttempts
  BY <1>1, <1>2, RunFieldTypes, Constants
<1>4. r \in RunRow
  BY <1>3, PassFacts, Constants DEF RunRow
<1>5. run' = [run EXCEPT ![x] = r]
  BY DEF Preflight
<1>6. RunSet(x, "generating", n, pass[p].token, Seen(p) + Lease)
  BY <1>1, <1>4, <1>5 DEF RunSet, Shape
<1>7. Moves(p, "compose")
  BY GoesEffect DEF Preflight
<1> HIDE DEF x, n
<1> QED
  BY <1>1, <1>3, <1>6, <1>7 DEF Preflight, PreflightEffect, x

UnavailableEffect(p, t) ==
  /\ t \in Tasks /\ At(p, "work") /\ T(p) = t /\ Kind(t) = "generation" /\ RunId(t) \in Letters \X Epochs
  /\ ~Answered(Of(t)) /\ ~Takes(p)
  /\ RunOf(t).status # "generating" \/ Spent(RunOf(t), Seen(p))
  /\ RunSet(RunId(t), "failed", RunOf(t).attempt, 0, 0)
  /\ Moves(p, "retry") /\ UNCHANGED <<rows, task, crashes>>

\* A run that cannot be taken is left alone, or failed if its attempts are spent.
LEMMA UnavailableDoes ==
  ASSUME Shape, NEW p \in Processes, T(p) \in Tasks, RunUnavailable(p)
  PROVE  GiveUpEffect(p) \/ UnavailableEffect(p, T(p))
<1> DEFINE r == RunOf(T(p))
<1>1. RunId(T(p)) \in Letters \X Epochs
  BY TaskFacts DEF RunUnavailable, RunId
<1>2. CASE r.status = "generating" /\ ~Spent(r, Seen(p))
  <2>1. r.lease \in Int /\ r.lease > Seen(p)
    BY <1>1, <1>2, RunFieldTypes, PassFacts, Constants DEF RunUnavailable, Takes, RunOf
  <2>2. r.lease - Seen(p) + 1 \in Nat
    BY <2>1, PassFacts, Constants
  <2>3. Refused(p, "retryable", r.lease - Seen(p) + 1) /\ UNCHANGED run
    BY <1>2 DEF RunUnavailable
  <2> QED
    BY <2>2, <2>3, RefusedEffect DEF RunUnavailable, GiveUpEffect
<1>3. CASE ~(r.status = "generating" /\ ~Spent(r, Seen(p)))
  <2>1. Refused(p, "final", 0) /\ run' = [run EXCEPT ![RunId(T(p))] = Closed(@, "failed")]
    BY <1>3 DEF RunUnavailable
  <2>2. RunSet(RunId(T(p)), "failed", RunOf(T(p)).attempt, 0, 0) /\ Moves(p, "retry")
    BY <1>1, <2>1, ClosedEffect, RefusedEffect DEF RunOf
  <2> QED
    BY <1>1, <1>3, <2>2 DEF RunUnavailable, UnavailableEffect
<1> QED
  BY <1>2, <1>3

CommitEffect(p, t, l) ==
  /\ t \in Tasks /\ T(p) = t /\ Kind(t) = "generation" /\ RunId(t) \in Letters \X Epochs
  /\ l = Of(t) /\ l \in Letters /\ At(p, "compose") /\ Current(p) /\ letter[l] = "read" /\ reply[l] = "none"
  /\ reply' = [reply EXCEPT ![l] = "in_transit"]
  /\ \E due \in Int : due = ReturnDue(l) /\ TaskSet(Back(l), "pending", due, 0, 0)
  /\ RunSet(RunId(t), "committed", RunOf(t).attempt, 0, 0)
  /\ Moves(p, "finish") /\ UNCHANGED <<letter, transit, outrun, crashes>>

\* A commit writes the run, the reply and the task of its return.
LEMMA CommitDoes ==
  ASSUME Shape, NEW p \in Processes, T(p) \in Tasks, Kind(T(p)) = "generation", Commit(p)
  PROVE  CommitEffect(p, T(p), Of(T(p)))
<1>1. RunId(T(p)) \in Letters \X Epochs /\ Of(T(p)) \in Letters /\ Out(Of(T(p))) \in Tasks
      /\ Back(Of(T(p))) \in Tasks
  BY TaskFacts DEF RunId
<1>2. RunSet(RunId(T(p)), "committed", RunOf(T(p)).attempt, 0, 0)
  BY <1>1, ClosedEffect DEF Commit, RunOf
<1> DEFINE due == ReturnDue(Of(T(p)))
<1>3. due \in Int
  BY <1>1, TaskFieldTypes, Constants DEF Shape, ReturnDue
<1>4. TaskSet(Back(Of(T(p))), "pending", due, 0, 0)
  BY <1>1, <1>3, NewTaskEffect DEF Commit
<1>5. Moves(p, "finish")
  BY GoesEffect DEF Commit
<1>6. \E d \in Int : d = ReturnDue(Of(T(p))) /\ TaskSet(Back(Of(T(p))), "pending", d, 0, 0)
  BY <1>3, <1>4
<1> HIDE DEF due
<1> QED
  BY <1>1, <1>2, <1>5, <1>6 DEF Commit, CommitEffect

FailEffect(p, t) ==
  /\ t \in Tasks /\ T(p) = t /\ Kind(t) = "generation" /\ RunId(t) \in Letters \X Epochs
  /\ At(p, "compose") /\ Current(p)
  /\ \E s \in {"failed", "retryable"} :
       /\ s = "retryable" => RunOf(t).attempt < MaxAttempts
       /\ RunSet(RunId(t), s, RunOf(t).attempt, 0, 0)
  /\ Moves(p, "retry") /\ UNCHANGED <<rows, task, crashes>>

\* A failure writes the run of its task.
LEMMA FailDoes ==
  ASSUME Shape, Counted, NEW p \in Processes, T(p) \in Tasks, Kind(T(p)) = "generation", FailRun(p)
  PROVE  FailEffect(p, T(p))
<1> DEFINE r == RunOf(T(p))
<1>1. RunId(T(p)) \in Letters \X Epochs
  BY TaskFacts DEF RunId
<1>2. PICK result \in {"retryable", "final"} :
        /\ run' = [run EXCEPT ![RunId(T(p))] =
                     Closed(@, IF result = "final" \/ r.attempt >= MaxAttempts
                               THEN "failed" ELSE "retryable")]
        /\ Refused(p, result, Backoff[r.attempt])
  BY DEF FailRun
<1>3. r.attempt \in 1..MaxAttempts
  BY <1>1, RunFieldTypes, Constants DEF FailRun, Current, Counted, RunOf
<1>4. Backoff[r.attempt] \in Nat
  BY <1>3, Constants DEF Attempts
<1>5. Moves(p, "retry")
  BY <1>2, <1>4, RefusedEffect
<1> DEFINE s == IF result = "final" \/ r.attempt >= MaxAttempts THEN "failed" ELSE "retryable"
<1>6. s \in {"failed", "retryable"} /\ (s = "retryable" => r.attempt < MaxAttempts)
  BY <1>3, Constants
<1>7. RunSet(RunId(T(p)), s, RunOf(T(p)).attempt, 0, 0)
  <2>1. run' = [run EXCEPT ![RunId(T(p))] = Closed(@, s)]
    BY <1>2
  <2> HIDE DEF s
  <2> QED
    BY <1>1, <1>6, <2>1, ClosedEffect DEF RunOf
<1> HIDE DEF s
<1> QED
  BY <1>1, <1>5, <1>6, <1>7 DEF FailRun, FailEffect

FinishEffect(p, t) ==
  /\ t \in Tasks /\ T(p) = t
  /\ \/ At(p, "finish")
     \/ At(p, "work") /\ Kind(t) = "generation" /\ Answered(Of(t))
     \/ At(p, "compose") /\ ~Current(p)
  /\ \/ /\ Owns(p) \/ task[t].status = "completed"
        /\ TaskSet(t, "completed", task[t].due, task[t].attempt, 0)
     \/ ~Owns(p) /\ UNCHANGED task
  /\ Drops(p) /\ UNCHANGED <<rows, run, crashes>>

\* Finishing completes the task, if it is still held.
LEMMA FinishDoes ==
  ASSUME Shape, NEW p \in Processes, T(p) \in Tasks, Finish(p) PROVE FinishEffect(p, T(p))
<1>1. Drops(p)
  BY DropsEffect DEF Finish
<1>2. ASSUME Owns(p) \/ task[T(p)].status = "completed"
      PROVE  TaskSet(T(p), "completed", task[T(p)].due, task[T(p)].attempt, 0)
  BY <1>2, LeftEffect, TaskFieldTypes DEF Finish, Statuses
<1> QED
  BY <1>1, <1>2 DEF Finish, FinishEffect

RetryEffect(p, t) ==
  /\ t \in Tasks /\ T(p) = t /\ At(p, "retry")
  /\ \/ ~Owns(p) /\ UNCHANGED task
     \/ /\ Owns(p)
        /\ \E s \in {"dead_letter", "retryable"}, due \in Int :
             /\ s = "retryable" /\ Kind(t) = "generation" => due >= Seen(p)
             /\ Kind(t) # "generation" => due = task[t].due
             /\ TaskSet(t, s, due, task[t].attempt, 0)
  /\ Drops(p) /\ UNCHANGED <<rows, run, crashes>>

\* A task that failed is put back or given up, if it is still held.
LEMMA RetryDoes ==
  ASSUME Shape, NEW p \in Processes, T(p) \in Tasks, Retry(p) PROVE RetryEffect(p, T(p))
<1> DEFINE t == T(p)
           dead == pass[p].result = "final" \/ task[t].attempt >= MaxAttempts
           s == IF dead THEN "dead_letter" ELSE "retryable"
           due == IF dead \/ Kind(t) # "generation" THEN task[t].due ELSE Seen(p) + pass[p].delay
<1>1. Drops(p)
  BY DropsEffect DEF Retry
<1>2. /\ s \in {"dead_letter", "retryable"} /\ due \in Int
      /\ s = "retryable" /\ Kind(t) = "generation" => due >= Seen(p)
      /\ Kind(t) # "generation" => due = task[t].due
  BY TaskFieldTypes, PassFacts, Constants
<1>3. ASSUME Owns(p) PROVE TaskSet(t, s, due, task[t].attempt, 0)
  <2>1. task' = [task EXCEPT ![t] = Left(t, s, due)]
    BY <1>3 DEF Retry
  <2>2. s \in Statuses
    BY <1>2 DEF Statuses
  <2> HIDE DEF s, due, t
  <2> QED
    BY <1>2, <2>1, <2>2, LeftEffect DEF t
<1> HIDE DEF s, due
<1> QED
  BY <1>1, <1>2, <1>3 DEF Retry, RetryEffect

\* A pass that begins, ends or goes back to look; a turn touches only what has been outrun.
RestEffect(p) ==
  /\ Drops(p) /\ UNCHANGED <<letter, transit, reply, task, run>>
  /\ outrun' \in [Letters -> BOOLEAN] /\ crashes' \in 0..MaxCrashes

\* The other stages of a pass, and a crash, write no task, run, letter or reply.
LEMMA RestDoes ==
  ASSUME Shape, NEW p \in Processes, Begin(p) \/ Rest(p) \/ Chat(p) \/ Raced(p) \/ Crash(p)
  PROVE  RestEffect(p)
<1>1. Drops(p)
  BY DropsEffect DEF Begin, Rest, Chat, Raced, Crash
<1>2. CASE Begin(p) \/ Rest(p) \/ Raced(p)
  BY <1>1, <1>2, Constants DEF Begin, Rest, Raced, rows, Shape, RestEffect
<1>3. CASE Chat(p)
  <2>1. outrun' \in [Letters -> BOOLEAN]
    BY <1>3 DEF Chat
  <2> QED
    BY <1>1, <1>3, <2>1, Constants DEF Chat, Shape, RestEffect
<1>4. CASE Crash(p)
  <2>1. crashes' \in 0..MaxCrashes
    BY <1>4, Constants DEF Crash, Shape
  <2> QED
    BY <1>1, <1>4, <2>1 DEF Crash, rows, Shape, RestEffect
<1> QED
  BY <1>2, <1>3, <1>4

SealEffect(l) ==
  /\ l \in Letters /\ letter[l] = "draft" /\ letter' = [letter EXCEPT ![l] = "in_transit"]
  /\ \E d \in Transits : TaskSet(Out(l), "pending", d, 0, 0) /\ transit' = [transit EXCEPT ![l] = d]
  /\ UNCHANGED <<reply, run, outrun, pass, crashes>>

\* Sealing writes a letter and the task of its arrival.
LEMMA SealDoes ==
  ASSUME Shape, NEW l \in Letters, NEW d \in Transits, Seal(l, d) PROVE SealEffect(l)
<1>1. Out(l) \in Tasks /\ d \in Int
  BY TaskFacts, Constants
<1>2. task' = [task EXCEPT ![Out(l)] = NewTask(d)]
  BY DEF Seal
<1>3. TaskSet(Out(l), "pending", d, 0, 0)
  BY <1>1, <1>2, NewTaskEffect
<1> QED
  BY <1>3 DEF Seal, SealEffect

AskEffect(l) ==
  /\ l \in Letters /\ letter[l] = "read" /\ reply[l] = "none"
  /\ \E e \in Epochs :
       /\ e + 1 \in Epochs /\ ~Exists(Gen(l, e + 1)) /\ TaskSet(Gen(l, e + 1), "pending", 0, 0, 0)
       /\ task[Gen(l, e)].status = "dead_letter" /\ run[<<l, e>>].status = "failed"
  /\ UNCHANGED <<rows, run, pass, crashes>>

\* Asking again opens the next epoch of a letter, with a task of its own.
LEMMA AskDoes == ASSUME Shape, NEW l \in Letters, AskAgain(l) PROVE AskEffect(l)
<1>1. PICK e \in Epochs : /\ e + 1 \in Epochs /\ ~Exists(Gen(l, e + 1))
                         /\ task[Gen(l, e)].status = "dead_letter" /\ run[<<l, e>>].status = "failed"
                         /\ task' = [task EXCEPT ![Gen(l, e + 1)] = NewTask(0)]
  BY DEF AskAgain, Exists
<1>3. letter[l] = "read" /\ reply[l] = "none" /\ UNCHANGED <<rows, run, pass, crashes>>
  BY DEF AskAgain
<1>2. TaskSet(Gen(l, e + 1), "pending", 0, 0, 0)
  <2>1. Gen(l, e + 1) \in Tasks /\ 0 \in Int
    BY <1>1, TaskFacts
  <2> QED
    BY <1>1, <2>1, NewTaskEffect
<1> QED
  BY <1>1, <1>2, <1>3 DEF AskEffect

OpenEffect(l) ==
  /\ l \in Letters /\ reply[l] = "delivered_unread" /\ reply' = [reply EXCEPT ![l] = "read"]
  /\ UNCHANGED <<letter, transit, outrun, task, run, pass, crashes>>

\* Opening a reply marks it read.
LEMMA OpenDoes == ASSUME NEW l \in Letters, OpenReply(l) PROVE OpenEffect(l)
  BY DEF OpenReply, OpenEffect

TickEffect ==
  /\ task' \in [Tasks -> TaskRow]
  /\ \A t \in Tasks :
       /\ task'[t].status = task[t].status /\ task'[t].attempt = task[t].attempt
       /\ task'[t].due = IF Ages(t) THEN Older(task[t].due) ELSE task[t].due
       /\ task'[t].lease = IF task[t].status = "claimed" THEN Older(task[t].lease) ELSE task[t].lease
  /\ run' \in [Letters \X Epochs -> RunRow]
  /\ \A x \in Letters \X Epochs :
       /\ run'[x].status = run[x].status /\ run'[x].attempt = run[x].attempt
       /\ run'[x].token = run[x].token
       /\ run'[x].lease = IF run[x].status = "generating" THEN Older(run[x].lease) ELSE run[x].lease
  /\ pass' \in [Processes -> PassRow]
  /\ \A p \in Processes :
       /\ pass'[p].stage = pass[p].stage /\ pass'[p].task = T(p) /\ pass'[p].token = pass[p].token
       /\ ~At(p, "idle") => Seen(p) > -Horizon /\ pass'[p].observed = Seen(p) - 1
  /\ UNCHANGED <<rows, crashes>>

\* Time moves the dues and the leases, all by the same amount.
LEMMA TickDoes == ASSUME Shape, Tick PROVE TickEffect
<1>1. ASSUME NEW t \in Tasks
      PROVE  /\ task'[t] \in TaskRow
             /\ task'[t].status = task[t].status /\ task'[t].attempt = task[t].attempt
             /\ task'[t].due = IF Ages(t) THEN Older(task[t].due) ELSE task[t].due
             /\ task'[t].lease = IF task[t].status = "claimed" THEN Older(task[t].lease)
                                 ELSE task[t].lease
  <2> DEFINE due == IF Ages(t) THEN Older(task[t].due) ELSE task[t].due
             lease == IF task[t].status = "claimed" THEN Older(task[t].lease) ELSE task[t].lease
             r == task[t]
             first == [r EXCEPT !.due = due]
  <2>1. r \in TaskRow /\ due \in Int /\ lease \in Int
    BY TaskFieldTypes, Constants DEF Older
  <2>2. task'[t] = [first EXCEPT !.lease = lease]
    BY DEF Tick
  <2> HIDE DEF due, lease, r
  <2>3. first \in TaskRow /\ first.status = r.status /\ first.attempt = r.attempt /\ first.due = due
    BY <2>1 DEF TaskRow
  <2> HIDE DEF first
  <2>4. /\ task'[t] \in TaskRow /\ task'[t].status = r.status /\ task'[t].attempt = r.attempt
        /\ task'[t].due = due /\ task'[t].lease = lease
    BY <2>1, <2>2, <2>3 DEF TaskRow
  <2> QED
    BY <2>4 DEF due, lease, r
<1>2. ASSUME NEW x \in Letters \X Epochs
      PROVE  /\ run'[x] \in RunRow
             /\ run'[x].status = run[x].status /\ run'[x].attempt = run[x].attempt
             /\ run'[x].token = run[x].token
             /\ run'[x].lease = IF run[x].status = "generating" THEN Older(run[x].lease)
                                ELSE run[x].lease
  <2> DEFINE lease == IF run[x].status = "generating" THEN Older(run[x].lease) ELSE run[x].lease
             r == run[x]
  <2>1. r \in RunRow /\ lease \in Int
    BY RunFieldTypes, Constants DEF Older
  <2>2. run'[x] = [r EXCEPT !.lease = lease]
    BY DEF Tick, Shape
  <2> HIDE DEF lease, r
  <2>3. /\ run'[x] \in RunRow /\ run'[x].status = r.status /\ run'[x].attempt = r.attempt
        /\ run'[x].token = r.token /\ run'[x].lease = lease
    BY <2>1, <2>2 DEF RunRow
  <2> QED
    BY <2>3 DEF lease, r
<1>3. ASSUME NEW p \in Processes
      PROVE  /\ pass'[p] \in PassRow /\ pass'[p].stage = pass[p].stage /\ pass'[p].task = T(p)
             /\ pass'[p].token = pass[p].token
             /\ ~At(p, "idle") => Seen(p) > -Horizon /\ pass'[p].observed = Seen(p) - 1
  <2> DEFINE r == pass[p]
             at == Older(r.observed)
  <2>1. r \in PassRow
    BY DEF Shape
  <2>2. CASE At(p, "idle")
    BY <2>1, <2>2 DEF Tick, Busy, T
  <2>3. CASE ~At(p, "idle")
    <3>1. Seen(p) > -Horizon /\ pass'[p] = [r EXCEPT !.observed = at]
      BY <2>3 DEF Tick, Busy
    <3>2. at = Seen(p) - 1 /\ at \in (-Horizon)..0
      BY <3>1, PassFacts, Constants DEF Older, Seen
    <3> HIDE DEF r, at
    <3>3. pass'[p] \in PassRow /\ pass'[p].stage = r.stage /\ pass'[p].task = r.task
          /\ pass'[p].token = r.token /\ pass'[p].observed = at
      BY <2>1, <3>1, <3>2 DEF PassRow
    <3> QED
      BY <3>1, <3>2, <3>3 DEF r, T
  <2> QED
    BY <2>2, <2>3
<1>4. /\ task' \in [Tasks -> TaskRow] /\ run' \in [Letters \X Epochs -> RunRow]
      /\ pass' \in [Processes -> PassRow]
  <2>1. DOMAIN run = Letters \X Epochs
    BY DEF Shape
  <2>2. /\ task' = [t \in Tasks |-> task'[t]] /\ run' = [x \in Letters \X Epochs |-> run'[x]]
        /\ pass' = [p \in Processes |-> pass'[p]]
    BY <2>1 DEF Tick
  <2> QED
    BY <1>1, <1>2, <1>3, <2>2
<1> QED
  BY <1>1, <1>2, <1>3, <1>4 DEF Tick, TickEffect

\* The work of a pass on its task t, of the letter l.
WorkEffect(p, t, l) ==
  \/ ClaimEffect(p, t) \/ SweepEffect(p, t)
  \/ ArriveEffect(p, l) \/ DeliverEffect(p, l)
  \/ PreflightEffect(p, t) \/ UnavailableEffect(p, t)
  \/ CommitEffect(p, t, l) \/ FailEffect(p, t)
  \/ FinishEffect(p, t) \/ RetryEffect(p, t)

StepEffect ==
  \/ \E p \in Processes :
       \/ RestEffect(p) \/ GiveUpEffect(p)
       \/ \E t \in Tasks : FindEffect(p, t)
       \/ T(p) \in Tasks /\ Of(T(p)) \in Letters /\ WorkEffect(p, T(p), Of(T(p)))
  \/ \E l \in Letters : SealEffect(l) \/ AskEffect(l) \/ OpenEffect(l)
  \/ TickEffect

\* Every step has one of these effects.
LEMMA StepDoes == ASSUME IInv, Next PROVE StepEffect
<1>1. Shape /\ Counted /\ \A p \in Processes : Knows(p)
  BY DEF IInv
<1>2. ASSUME NEW p \in Processes, Begin(p) \/ Step(p) \/ Crash(p)
      PROVE  \/ RestEffect(p) \/ GiveUpEffect(p)
             \/ \E t \in Tasks : FindEffect(p, t)
             \/ T(p) \in Tasks /\ Of(T(p)) \in Letters /\ WorkEffect(p, T(p), Of(T(p)))
  <2>1. ASSUME At(p, "claim") \/ Working(p) PROVE T(p) \in Tasks /\ Of(T(p)) \in Letters
    BY <1>1, <2>1, TaskFacts DEF Knows
  <2>2. ASSUME At(p, "compose") PROVE Kind(T(p)) = "generation"
    BY <1>1, <2>2 DEF Knows
  <2>3. CASE Begin(p) \/ Rest(p) \/ Chat(p) \/ Raced(p) \/ Crash(p)
    BY <1>1, <2>3, RestDoes
  <2>4. CASE Find(p)
    BY <1>1, <2>4, FindDoes
  <2>5. CASE Claim(p)
    BY <1>1, <2>1, <2>5, ClaimDoes DEF Claim, WorkEffect
  <2>6. CASE Sweep(p)
    BY <1>1, <2>1, <2>6, SweepDoes DEF Sweep, WorkEffect
  <2>7. CASE Arrive(p)
    BY <1>1, <2>1, <2>7, ArriveDoes DEF Arrive, WorkEffect, Working, At
  <2>8. CASE ReplyArrives(p)
    BY <1>1, <2>1, <2>8, DeliverDoes DEF ReplyArrives, WorkEffect, Working, At
  <2>9. CASE ArrivalFails(p) \/ CannotStart(p)
    BY <1>1, <2>9, ArrivalFailsDoes, CannotStartDoes
  <2>10. CASE Preflight(p)
    BY <1>1, <2>1, <2>10, PreflightDoes DEF Preflight, WorkEffect, Working, At
  <2>11. CASE RunUnavailable(p)
    BY <1>1, <2>1, <2>11, UnavailableDoes DEF RunUnavailable, WorkEffect, Working, At
  <2>12. CASE Commit(p)
    BY <1>1, <2>1, <2>2, <2>12, CommitDoes DEF Commit, WorkEffect, Working, At
  <2>13. CASE FailRun(p)
    BY <1>1, <2>1, <2>2, <2>13, FailDoes DEF FailRun, WorkEffect, Working, At
  <2>14. CASE Finish(p)
    BY <1>1, <2>1, <2>14, FinishDoes DEF Finish, WorkEffect, Working, At
  <2>15. CASE Retry(p)
    BY <1>1, <2>1, <2>15, RetryDoes DEF Retry, WorkEffect, Working, At
  <2> QED
    BY <1>2, <2>3, <2>4, <2>5, <2>6, <2>7, <2>8, <2>9, <2>10, <2>11, <2>12, <2>13, <2>14, <2>15
       DEF Step
<1> QED
  BY <1>1, <1>2, SealDoes, AskDoes, OpenDoes, TickDoes DEF Next, StepEffect

-----------------------------------------------------------------------------
(* The invariant is kept, part by part.                                    *)

\* Types, and the attempts of the runs.
LEMMA ShapeKept ==
  ASSUME Shape, Counted, StepEffect
  PROVE  Shape' /\ Counted'
<1>1. ASSUME NEW p \in Processes, RestEffect(p) \/ GiveUpEffect(p) \/ (\E t \in Tasks : FindEffect(p, t))
      PROVE  Shape' /\ Counted'
  BY <1>1, Constants DEF RestEffect, Drops, GiveUpEffect, Moves, FindEffect, TakesUp, OthersRest,
     rows, Shape, Counted
<1>2. ASSUME NEW p \in Processes, T(p) \in Tasks, Of(T(p)) \in Letters,
         ClaimEffect(p, T(p)) \/ SweepEffect(p, T(p)) \/ FinishEffect(p, T(p)) \/
         RetryEffect(p, T(p))
      PROVE  Shape' /\ Counted'
  BY <1>2, Constants DEF ClaimEffect, TaskSet, SweepEffect, Drops, FinishEffect, RetryEffect,
     OthersRest, rows, Shape, Counted
<1>3. ASSUME NEW p \in Processes, T(p) \in Tasks, Of(T(p)) \in Letters,
         ArriveEffect(p, Of(T(p))) \/ DeliverEffect(p, Of(T(p)))
      PROVE  Shape' /\ Counted'
  BY <1>3, Constants DEF ArriveEffect, Drops, DeliverEffect, Moves, OthersRest, rows, Shape,
     Counted
<1>4. ASSUME NEW p \in Processes, T(p) \in Tasks, Of(T(p)) \in Letters,
         PreflightEffect(p, T(p)) \/ UnavailableEffect(p, T(p)) \/
         CommitEffect(p, T(p), Of(T(p))) \/ FailEffect(p, T(p))
      PROVE  Shape' /\ Counted'
  BY <1>4, Constants DEF PreflightEffect, RunSet, Moves, UnavailableEffect, CommitEffect, TaskSet,
     FailEffect, OthersRest, rows, Shape, Counted
<1>5. ASSUME NEW k \in Letters, SealEffect(k) \/ AskEffect(k) \/ OpenEffect(k)
      PROVE  Shape' /\ Counted'
  BY <1>5, Constants DEF SealEffect, TaskSet, AskEffect, OpenEffect, OthersRest, rows, Shape,
     Counted
<1>6. ASSUME TickEffect
      PROVE  Shape' /\ Counted'
  <2>1. Shape'
    BY <1>6 DEF TickEffect, rows, Shape
  <2>2. \A x \in Letters \X Epochs : run'[x].status = run[x].status /\ run'[x].attempt = run[x].attempt
    BY <1>6 DEF TickEffect
  <2> QED
    BY <2>1, <2>2 DEF Counted
<1> QED
  BY <1>1, <1>2, <1>3, <1>4, <1>5, <1>6 DEF StepEffect, WorkEffect

\* The rows of the letters and their arrivals.
LEMMA OutRowsKept ==
  ASSUME Shape, \A l \in Letters : OutRow(l), \A q \in Processes : Knows(q), \A q \in Processes : Composes(q), StepEffect
  PROVE  \A l \in Letters : OutRow(l)'
<1>1. ASSUME NEW p \in Processes, RestEffect(p) \/ GiveUpEffect(p) \/ (\E t \in Tasks : FindEffect(p, t))
      PROVE  \A l \in Letters : OutRow(l)'
  BY <1>1 DEF RestEffect, Drops, GiveUpEffect, Moves, FindEffect, TakesUp, rows, OutRow, Exists,
     Pending, Open, Waiting
<1>2. ASSUME NEW p \in Processes, T(p) \in Tasks, Of(T(p)) \in Letters,
         DeliverEffect(p, Of(T(p))) \/ PreflightEffect(p, T(p)) \/
         UnavailableEffect(p, T(p)) \/ FailEffect(p, T(p))
      PROVE  \A l \in Letters : OutRow(l)'
  BY <1>2 DEF DeliverEffect, Moves, PreflightEffect, RunSet, UnavailableEffect, FailEffect, rows,
     OutRow, Exists, Pending, Open, Waiting
<1>3. ASSUME NEW p \in Processes, T(p) \in Tasks, Of(T(p)) \in Letters,
         ClaimEffect(p, T(p)) \/ SweepEffect(p, T(p))
      PROVE  \A l \in Letters : OutRow(l)'
  BY <1>3, TaskFacts DEF ClaimEffect, TaskSet, SweepEffect, Drops, rows, OutRow, Free, Exists,
     Pending, Open, Waiting
<1>4. ASSUME NEW p \in Processes, T(p) \in Tasks, Of(T(p)) \in Letters,
         FinishEffect(p, T(p))
      PROVE  \A l \in Letters : OutRow(l)'
  BY <1>4, TaskFacts DEF FinishEffect, TaskSet, Drops, rows, OutRow, Knows, Working, At, Composes,
     Owns, Exists, Pending, Open, Waiting
<1>5. ASSUME NEW p \in Processes, T(p) \in Tasks, Of(T(p)) \in Letters,
         RetryEffect(p, T(p))
      PROVE  \A l \in Letters : OutRow(l)'
  BY <1>5, TaskFacts DEF RetryEffect, TaskSet, Drops, rows, OutRow, Owns, Exists, Pending, Open,
     Waiting
<1>6. ASSUME NEW p \in Processes, T(p) \in Tasks, Of(T(p)) \in Letters,
         ArriveEffect(p, Of(T(p)))
      PROVE  \A l \in Letters : OutRow(l)'
  BY <1>6, TaskFacts, Constants DEF ArriveEffect, Drops, rows, OutRow, Shape, Knows, Working, At,
     Exists, Pending, Open, Waiting
<1>7. ASSUME NEW p \in Processes, T(p) \in Tasks, Of(T(p)) \in Letters,
         CommitEffect(p, T(p), Of(T(p)))
      PROVE  \A l \in Letters : OutRow(l)'
  BY <1>7, TaskFacts DEF CommitEffect, TaskSet, RunSet, Moves, rows, OutRow, Exists, Pending,
     Open, Waiting
<1>8. ASSUME NEW k \in Letters, SealEffect(k)
      PROVE  \A l \in Letters : OutRow(l)'
  BY <1>8, TaskFacts DEF SealEffect, TaskSet, rows, OutRow, Shape, Exists, Pending, Open, Waiting
<1>9. ASSUME NEW k \in Letters, AskEffect(k)
      PROVE  \A l \in Letters : OutRow(l)'
  BY <1>9, TaskFacts DEF AskEffect, TaskSet, rows, OutRow, Exists, Pending, Open, Waiting
<1>10. ASSUME NEW k \in Letters, OpenEffect(k)
      PROVE  \A l \in Letters : OutRow(l)'
  BY <1>10 DEF OpenEffect, rows, OutRow, Exists, Pending, Open, Waiting
<1>11. ASSUME TickEffect
      PROVE  \A l \in Letters : OutRow(l)'
  <2>1. \A l \in Letters : task'[Out(l)].status = task[Out(l)].status /\ letter'[l] = letter[l]
    BY <1>11, TaskFacts DEF TickEffect, rows
  <2>2. \A l \in Letters : task[Out(l)].due <= 0 => task'[Out(l)].due <= 0
    BY <1>11, TaskFacts, TaskFieldTypes, Constants DEF TickEffect, Older
  <2> QED
    BY <2>1, <2>2 DEF OutRow, Exists, Pending, Open, Waiting
<1> QED
  BY <1>1, <1>2, <1>3, <1>4, <1>5, <1>6, <1>7, <1>8, <1>9, <1>10, <1>11 DEF StepEffect, WorkEffect

\* The tasks of the answer.
LEMMA GenRowsKept ==
  ASSUME Shape, \A l \in Letters : OutRow(l) /\ GenRow(l) /\ AnswerRow(l), \A q \in Processes : Knows(q),
         \A q \in Processes : Composes(q), StepEffect
  PROVE  \A l \in Letters : GenRow(l)'
<1>1. ASSUME NEW p \in Processes, RestEffect(p) \/ GiveUpEffect(p) \/ (\E t \in Tasks : FindEffect(p, t))
      PROVE  \A l \in Letters : GenRow(l)'
  BY <1>1, Constants DEF RestEffect, Drops, GiveUpEffect, Moves, FindEffect, TakesUp, rows,
     GenRow, Exists, Pending, Open, Waiting
<1>2. ASSUME NEW p \in Processes, T(p) \in Tasks, Of(T(p)) \in Letters,
         PreflightEffect(p, T(p)) \/ UnavailableEffect(p, T(p)) \/
         FailEffect(p, T(p))
      PROVE  \A l \in Letters : GenRow(l)'
  BY <1>2, Constants DEF PreflightEffect, RunSet, Moves, UnavailableEffect, FailEffect, rows,
     GenRow, Exists, Pending, Open, Waiting
<1>3. ASSUME NEW p \in Processes, T(p) \in Tasks, Of(T(p)) \in Letters,
         DeliverEffect(p, Of(T(p)))
      PROVE  \A l \in Letters : GenRow(l)'
  BY <1>3, Constants DEF DeliverEffect, Moves, rows, GenRow, Shape, Exists, Pending, Open, Waiting
<1>4. ASSUME NEW p \in Processes, T(p) \in Tasks, Of(T(p)) \in Letters,
         ClaimEffect(p, T(p)) \/ SweepEffect(p, T(p))
      PROVE  \A l \in Letters : GenRow(l)'
  BY <1>4, TaskFacts, Constants DEF ClaimEffect, TaskSet, SweepEffect, Drops, rows, GenRow, Free,
     Exists, Pending, Open, Waiting
<1>5. ASSUME NEW p \in Processes, T(p) \in Tasks, Of(T(p)) \in Letters,
         FinishEffect(p, T(p))
      PROVE  \A l \in Letters : GenRow(l)'
  <2>1. \A l \in Letters, e \in Epochs : Exists(Gen(l, e))' <=> Exists(Gen(l, e))
    BY <1>5, TaskFacts DEF FinishEffect, TaskSet, Drops, Exists, Owns
  <2>7. PICK t \in Tasks : t = T(p)
    BY <1>5
  <2>2. \A u \in Tasks : u # t => (Pending(u)' <=> Pending(u))
    BY <1>5, <2>7 DEF FinishEffect, TaskSet, Drops, Pending, Open, Waiting
  <2>3. ASSUME Kind(T(p)) = "generation", Owns(p) PROVE reply[Of(T(p))] # "none"
    <3>1. CASE At(p, "finish")
      BY <3>1, <2>3 DEF Knows
    <3>2. CASE At(p, "work") /\ Answered(Of(T(p)))
      BY <1>5, <3>2 DEF AnswerRow, Answered, Won
    <3>3. CASE At(p, "compose") /\ ~Current(p)
      BY <1>5, <3>3, <2>3 DEF Composes
    <3> QED
      BY <1>5, <3>1, <3>2, <3>3 DEF FinishEffect
  <2>4. ~Owns(p) => (Pending(t)' <=> Pending(t))
    <3>1. ~Owns(p) => task' = task \/ (task[t].status = "completed" /\ task'[t].status = "completed")
      BY <1>5, <2>7 DEF FinishEffect, TaskSet
    <3> QED
      BY <3>1 DEF Pending, Open, Waiting
  <2>5. letter' = letter /\ reply' = reply
    BY <1>5, <2>7 DEF FinishEffect, rows
  <2>6. ASSUME NEW l \in Letters, NEW e \in Epochs, Pending(Gen(l, e)), reply[l] = "none"
        PROVE  Pending(Gen(l, e))'
    BY <2>7, <2>2, <2>3, <2>4, <2>6, TaskFacts
  <2> QED
    BY <2>1, <2>5, <2>6, Constants DEF GenRow
<1>6. ASSUME NEW p \in Processes, T(p) \in Tasks, Of(T(p)) \in Letters,
         RetryEffect(p, T(p))
      PROVE  \A l \in Letters : GenRow(l)'
  BY <1>6, TaskFacts, Constants DEF RetryEffect, TaskSet, Drops, rows, GenRow, Owns, Exists,
     Pending, Open, Waiting
<1>7. ASSUME NEW p \in Processes, T(p) \in Tasks, Of(T(p)) \in Letters,
         ArriveEffect(p, Of(T(p)))
      PROVE  \A l \in Letters : GenRow(l)'
  <2>6. PICK k \in Letters : k = Of(T(p))
    BY <1>7
  <2>1. \A l \in Letters, e \in Epochs : Exists(Gen(l, e))' <=> Exists(Gen(l, e)) \/ Gen(l, e) = Gen(k, 0)
    BY <1>7, <2>6, TaskFacts, Constants DEF ArriveEffect, Exists
  <2>2. \A l \in Letters, e \in Epochs : Pending(Gen(l, e)) => Pending(Gen(l, e))'
    BY <1>7, <2>6, TaskFacts, Constants DEF ArriveEffect, Exists, Pending, Open, Waiting
  <2>3. ~Exists(Gen(k, 0)) => Pending(Gen(k, 0))'
    BY <1>7, <2>6 DEF ArriveEffect, Pending, Open, Waiting
  <2>4. \A l \in Letters : letter'[l] = "read" <=> letter[l] = "read" \/ l = k
    BY <1>7, <2>6 DEF ArriveEffect, Shape
  <2>5. reply' = reply /\ \A l \in Letters, e \in Epochs : Gen(l, e) = Gen(k, 0) <=> l = k /\ e = 0
    BY <1>7, <2>6, TaskFacts, Constants DEF ArriveEffect
  <2> QED
    BY <2>1, <2>2, <2>3, <2>4, <2>5, Constants DEF GenRow
<1>8. ASSUME NEW p \in Processes, T(p) \in Tasks, Of(T(p)) \in Letters,
         CommitEffect(p, T(p), Of(T(p)))
      PROVE  \A l \in Letters : GenRow(l)'
  <2>1. \A l \in Letters, e \in Epochs : Exists(Gen(l, e))' <=> Exists(Gen(l, e))
    BY <1>8, TaskFacts DEF CommitEffect, TaskSet, RunSet, Moves, Exists
  <2>2. \A l \in Letters, e \in Epochs : Pending(Gen(l, e))' <=> Pending(Gen(l, e))
    BY <1>8, TaskFacts DEF CommitEffect, TaskSet, RunSet, Moves, Pending, Open, Waiting
  <2>3. \A l \in Letters : letter'[l] = "read" <=> letter[l] = "read"
    BY <1>8 DEF CommitEffect, TaskSet, RunSet, Moves, rows, Shape
  <2>4. \A l \in Letters : reply'[l] = "none" => reply[l] = "none"
    BY <1>8 DEF CommitEffect, TaskSet, RunSet, Moves, rows, Shape
  <2> QED
    BY <2>1, <2>2, <2>3, <2>4, Constants DEF GenRow
<1>9. ASSUME NEW k \in Letters, SealEffect(k)
      PROVE  \A l \in Letters : GenRow(l)'
  <2>1. \A l \in Letters, e \in Epochs : Exists(Gen(l, e))' <=> Exists(Gen(l, e))
    BY <1>9, TaskFacts DEF SealEffect, TaskSet, Exists
  <2>2. \A l \in Letters, e \in Epochs : Pending(Gen(l, e))' <=> Pending(Gen(l, e))
    BY <1>9, TaskFacts DEF SealEffect, TaskSet, Pending, Open, Waiting
  <2>3. \A l \in Letters : letter'[l] = "read" <=> letter[l] = "read"
    BY <1>9 DEF SealEffect, TaskSet, rows, Shape
  <2>4. \A l \in Letters : reply'[l] = "none" => reply[l] = "none"
    BY <1>9 DEF SealEffect, TaskSet, rows, Shape
  <2> QED
    BY <2>1, <2>2, <2>3, <2>4, Constants DEF GenRow
<1>10. ASSUME NEW k \in Letters, AskEffect(k)
      PROVE  \A l \in Letters : GenRow(l)'
  BY <1>10, TaskFacts, Constants DEF AskEffect, TaskSet, rows, GenRow, Exists, Pending, Open,
     Waiting
<1>11. ASSUME NEW k \in Letters, OpenEffect(k)
      PROVE  \A l \in Letters : GenRow(l)'
  BY <1>11, Constants DEF OpenEffect, rows, GenRow, Shape, Exists, Pending, Open, Waiting
<1>12. ASSUME TickEffect
      PROVE  \A l \in Letters : GenRow(l)'
  <2>1. \A l \in Letters, e \in Epochs : Exists(Gen(l, e))' <=> Exists(Gen(l, e))
    BY <1>12, TaskFacts DEF TickEffect, Exists
  <2>2. \A l \in Letters, e \in Epochs : Pending(Gen(l, e))' <=> Pending(Gen(l, e))
    BY <1>12, TaskFacts DEF TickEffect, Pending, Open, Waiting
  <2>3. \A l \in Letters : letter'[l] = "read" <=> letter[l] = "read"
    BY <1>12 DEF TickEffect, rows, Shape
  <2>4. \A l \in Letters : reply'[l] = "none" => reply[l] = "none"
    BY <1>12 DEF TickEffect, rows, Shape
  <2> QED
    BY <2>1, <2>2, <2>3, <2>4, Constants DEF GenRow
<1> QED
  BY <1>1, <1>2, <1>3, <1>4, <1>5, <1>6, <1>7, <1>8, <1>9, <1>10, <1>11, <1>12 DEF StepEffect,
     WorkEffect

\* The runs and the answer.
LEMMA AnswerRowsKept ==
  ASSUME Shape, \A l \in Letters : AnswerRow(l), StepEffect
  PROVE  \A l \in Letters : AnswerRow(l)'
<1>1. ASSUME NEW p \in Processes, RestEffect(p) \/ GiveUpEffect(p) \/ (\E t \in Tasks : FindEffect(p, t))
      PROVE  \A l \in Letters : AnswerRow(l)'
  <2>1. \A l \in Letters, e \in Epochs : Won(l, e)' <=> Won(l, e)
    BY <1>1, PairFacts, TaskFacts DEF RestEffect, Drops, GiveUpEffect, Moves, FindEffect, TakesUp,
       rows, Won
  <2>2. \A l \in Letters : reply'[l] # "none" <=> reply[l] # "none"
    BY <1>1 DEF RestEffect, Drops, GiveUpEffect, Moves, FindEffect, TakesUp, rows, Shape
  <2> QED
    BY <2>1, <2>2 DEF AnswerRow
<1>2. ASSUME NEW p \in Processes, T(p) \in Tasks, Of(T(p)) \in Letters,
         ClaimEffect(p, T(p)) \/ ArriveEffect(p, Of(T(p))) \/ FinishEffect(p, T(p)) \/
         RetryEffect(p, T(p))
      PROVE  \A l \in Letters : AnswerRow(l)'
  <2>1. \A l \in Letters, e \in Epochs : Won(l, e)' <=> Won(l, e)
    BY <1>2, PairFacts, TaskFacts DEF ClaimEffect, TaskSet, ArriveEffect, Drops, FinishEffect,
       RetryEffect, rows, Won
  <2>2. \A l \in Letters : reply'[l] # "none" <=> reply[l] # "none"
    BY <1>2 DEF ClaimEffect, TaskSet, ArriveEffect, Drops, FinishEffect, RetryEffect, rows, Shape
  <2> QED
    BY <2>1, <2>2 DEF AnswerRow
<1>3. ASSUME NEW p \in Processes, T(p) \in Tasks, Of(T(p)) \in Letters,
         DeliverEffect(p, Of(T(p)))
      PROVE  \A l \in Letters : AnswerRow(l)'
  <2>1. \A l \in Letters, e \in Epochs : Won(l, e)' <=> Won(l, e)
    BY <1>3, PairFacts, TaskFacts DEF DeliverEffect, Moves, rows, Won
  <2>2. \A l \in Letters : reply'[l] # "none" <=> reply[l] # "none"
    BY <1>3 DEF DeliverEffect, Moves, rows, Shape
  <2> QED
    BY <2>1, <2>2 DEF AnswerRow
<1>4. ASSUME NEW p \in Processes, T(p) \in Tasks, Of(T(p)) \in Letters,
         SweepEffect(p, T(p))
      PROVE  \A l \in Letters : AnswerRow(l)'
  <2>1. \A l \in Letters, e \in Epochs : Won(l, e)' <=> Won(l, e)
    BY <1>4, PairFacts, TaskFacts DEF SweepEffect, TaskSet, Drops, rows, Won
  <2>2. \A l \in Letters : reply'[l] # "none" <=> reply[l] # "none"
    BY <1>4 DEF SweepEffect, TaskSet, Drops, rows, Shape
  <2> QED
    BY <2>1, <2>2 DEF AnswerRow
<1>5. ASSUME NEW p \in Processes, T(p) \in Tasks, Of(T(p)) \in Letters,
         PreflightEffect(p, T(p))
      PROVE  \A l \in Letters : AnswerRow(l)'
  <2>1. \A l \in Letters, e \in Epochs : Won(l, e)' <=> Won(l, e)
    BY <1>5, PairFacts, TaskFacts DEF PreflightEffect, RunSet, Moves, rows, Won, Takes, RunOf,
       RunId
  <2>2. \A l \in Letters : reply'[l] # "none" <=> reply[l] # "none"
    BY <1>5 DEF PreflightEffect, RunSet, Moves, rows, Shape
  <2> QED
    BY <2>1, <2>2 DEF AnswerRow
<1>6. ASSUME NEW p \in Processes, T(p) \in Tasks, Of(T(p)) \in Letters,
         UnavailableEffect(p, T(p))
      PROVE  \A l \in Letters : AnswerRow(l)'
  <2>1. \A l \in Letters, e \in Epochs : Won(l, e)' <=> Won(l, e)
    <3>1. ~Won(Of(T(p)), Epoch(T(p)))
      BY <1>6, TaskFacts DEF UnavailableEffect, Answered, Won
    <3>2. RunSet(<<Of(T(p)), Epoch(T(p))>>, "failed", RunOf(T(p)).attempt, 0, 0)
      BY <1>6 DEF UnavailableEffect, RunId
    <3> QED
      BY <3>1, <3>2, PairFacts DEF RunSet, Won
  <2>2. reply' = reply
    BY <1>6 DEF UnavailableEffect, rows
  <2> QED
    BY <2>1, <2>2 DEF AnswerRow
<1>7. ASSUME NEW p \in Processes, T(p) \in Tasks, Of(T(p)) \in Letters,
         FailEffect(p, T(p))
      PROVE  \A l \in Letters : AnswerRow(l)'
  <2>1. \A l \in Letters, e \in Epochs : Won(l, e)' <=> Won(l, e)
    BY <1>7, PairFacts, TaskFacts DEF FailEffect, RunSet, Moves, rows, Won, Current, RunOf, RunId
  <2>2. \A l \in Letters : reply'[l] # "none" <=> reply[l] # "none"
    BY <1>7 DEF FailEffect, RunSet, Moves, rows, Shape
  <2> QED
    BY <2>1, <2>2 DEF AnswerRow
<1>8. ASSUME NEW p \in Processes, T(p) \in Tasks, Of(T(p)) \in Letters,
         CommitEffect(p, T(p), Of(T(p)))
      PROVE  \A l \in Letters : AnswerRow(l)'
  <2> DEFINE k == Of(T(p))
             f == Epoch(T(p))
  <2>1. f \in Epochs /\ k \in Letters
    BY <1>8, TaskFacts DEF CommitEffect
  <2>2. \A l \in Letters, e \in Epochs : Won(l, e)' <=> Won(l, e) \/ (l = k /\ e = f)
    BY <1>8, <2>1, PairFacts DEF CommitEffect, TaskSet, RunSet, Moves, Won, RunId
  <2>3. \A l \in Letters : reply'[l] # "none" <=> reply[l] # "none" \/ l = k
    BY <1>8, <2>1 DEF CommitEffect, TaskSet, RunSet, Moves, Shape
  <2>4. reply[k] = "none"
    BY <1>8 DEF CommitEffect, TaskSet, RunSet, Moves
  <2> HIDE DEF k, f
  <2> QED
    BY <2>1, <2>2, <2>3, <2>4 DEF AnswerRow
<1>9. ASSUME NEW k \in Letters, SealEffect(k) \/ AskEffect(k) \/ OpenEffect(k)
      PROVE  \A l \in Letters : AnswerRow(l)'
  <2>1. \A l \in Letters, e \in Epochs : Won(l, e)' <=> Won(l, e)
    BY <1>9, PairFacts, TaskFacts DEF SealEffect, TaskSet, AskEffect, OpenEffect, rows, Won
  <2>2. \A l \in Letters : reply'[l] # "none" <=> reply[l] # "none"
    BY <1>9 DEF SealEffect, TaskSet, AskEffect, OpenEffect, rows, Shape
  <2> QED
    BY <2>1, <2>2 DEF AnswerRow
<1>10. ASSUME TickEffect
      PROVE  \A l \in Letters : AnswerRow(l)'
  <2>1. \A l \in Letters, e \in Epochs : Won(l, e)' <=> Won(l, e)
    BY <1>10, PairFacts, TaskFacts DEF TickEffect, rows, Won
  <2>2. \A l \in Letters : reply'[l] # "none" <=> reply[l] # "none"
    BY <1>10 DEF TickEffect, rows, Shape
  <2> QED
    BY <2>1, <2>2 DEF AnswerRow
<1> QED
  BY <1>1, <1>2, <1>3, <1>4, <1>5, <1>6, <1>7, <1>8, <1>9, <1>10 DEF StepEffect, WorkEffect

\* The reply and its arrival.
LEMMA BackRowsKept ==
  ASSUME Shape, \A l \in Letters : BackRow(l), \A q \in Processes : Knows(q), \A q \in Processes : Composes(q), StepEffect
  PROVE  \A l \in Letters : BackRow(l)'
<1>1. ASSUME NEW p \in Processes, RestEffect(p) \/ GiveUpEffect(p) \/ (\E t \in Tasks : FindEffect(p, t))
      PROVE  \A l \in Letters : BackRow(l)'
  BY <1>1 DEF RestEffect, Drops, GiveUpEffect, Moves, FindEffect, TakesUp, rows, BackRow, Exists,
     Pending, Open, Waiting
<1>2. ASSUME NEW p \in Processes, T(p) \in Tasks, Of(T(p)) \in Letters,
         PreflightEffect(p, T(p)) \/ UnavailableEffect(p, T(p)) \/
         FailEffect(p, T(p))
      PROVE  \A l \in Letters : BackRow(l)'
  BY <1>2 DEF PreflightEffect, RunSet, Moves, UnavailableEffect, FailEffect, rows, BackRow,
     Exists, Pending, Open, Waiting
<1>3. ASSUME NEW p \in Processes, T(p) \in Tasks, Of(T(p)) \in Letters,
         ClaimEffect(p, T(p)) \/ SweepEffect(p, T(p))
      PROVE  \A l \in Letters : BackRow(l)'
  BY <1>3, TaskFacts DEF ClaimEffect, TaskSet, SweepEffect, Drops, rows, BackRow, Free, Exists,
     Pending, Open, Waiting
<1>4. ASSUME NEW p \in Processes, T(p) \in Tasks, Of(T(p)) \in Letters,
         FinishEffect(p, T(p))
      PROVE  \A l \in Letters : BackRow(l)'
  BY <1>4, TaskFacts DEF FinishEffect, TaskSet, Drops, rows, BackRow, Knows, Working, At,
     Composes, Owns, Exists, Pending, Open, Waiting
<1>5. ASSUME NEW p \in Processes, T(p) \in Tasks, Of(T(p)) \in Letters,
         RetryEffect(p, T(p))
      PROVE  \A l \in Letters : BackRow(l)'
  BY <1>5, TaskFacts DEF RetryEffect, TaskSet, Drops, rows, BackRow, Owns, Exists, Pending, Open,
     Waiting
<1>6. ASSUME NEW p \in Processes, T(p) \in Tasks, Of(T(p)) \in Letters,
         ArriveEffect(p, Of(T(p)))
      PROVE  \A l \in Letters : BackRow(l)'
  BY <1>6, TaskFacts, Constants DEF ArriveEffect, Drops, rows, BackRow, Exists, Pending, Open,
     Waiting
<1>7. ASSUME NEW p \in Processes, T(p) \in Tasks, Of(T(p)) \in Letters,
         DeliverEffect(p, Of(T(p)))
      PROVE  \A l \in Letters : BackRow(l)'
  BY <1>7, TaskFacts DEF DeliverEffect, Moves, rows, BackRow, Shape, Knows, Working, At, Exists,
     Pending, Open, Waiting
<1>8. ASSUME NEW p \in Processes, T(p) \in Tasks, Of(T(p)) \in Letters,
         CommitEffect(p, T(p), Of(T(p)))
      PROVE  \A l \in Letters : BackRow(l)'
  BY <1>8, TaskFacts DEF CommitEffect, TaskSet, RunSet, Moves, rows, BackRow, Shape, Exists,
     Pending, Open, Waiting
<1>9. ASSUME NEW k \in Letters, SealEffect(k)
      PROVE  \A l \in Letters : BackRow(l)'
  BY <1>9, TaskFacts DEF SealEffect, TaskSet, rows, BackRow, Shape, Exists, Pending, Open, Waiting
<1>10. ASSUME NEW k \in Letters, AskEffect(k)
      PROVE  \A l \in Letters : BackRow(l)'
  BY <1>10, TaskFacts DEF AskEffect, TaskSet, rows, BackRow, Shape, Exists, Pending, Open, Waiting
<1>11. ASSUME NEW k \in Letters, OpenEffect(k)
      PROVE  \A l \in Letters : BackRow(l)'
  BY <1>11 DEF OpenEffect, rows, BackRow, Shape, Exists, Pending, Open, Waiting
<1>12. ASSUME TickEffect
      PROVE  \A l \in Letters : BackRow(l)'
  <2>1. \A l \in Letters : task'[Back(l)].status = task[Back(l)].status /\ reply'[l] = reply[l]
    BY <1>12, TaskFacts DEF TickEffect, rows
  <2>2. \A l \in Letters : task[Back(l)].due <= 0 => task'[Back(l)].due <= 0
    BY <1>12, TaskFacts, TaskFieldTypes, Constants DEF TickEffect, Older
  <2> QED
    BY <2>1, <2>2 DEF BackRow, Exists, Pending, Open, Waiting
<1> QED
  BY <1>1, <1>2, <1>3, <1>4, <1>5, <1>6, <1>7, <1>8, <1>9, <1>10, <1>11, <1>12 DEF StepEffect,
     WorkEffect

\* An epoch begins when the one before has failed.
LEMMA ChainKept ==
  ASSUME Shape, \A l \in Letters : Chain(l), \A q \in Processes : Knows(q), StepEffect
  PROVE  \A l \in Letters : Chain(l)'
<1>1. ASSUME NEW p \in Processes, RestEffect(p) \/ GiveUpEffect(p) \/ (\E t \in Tasks : FindEffect(p, t))
      PROVE  \A l \in Letters : Chain(l)'
  <2>1. \A l \in Letters, e \in Epochs : Exists(Gen(l, e))' <=> Exists(Gen(l, e))
    BY <1>1, TaskFacts DEF RestEffect, Drops, GiveUpEffect, Moves, FindEffect, TakesUp, rows,
       Exists
  <2>2. \A l \in Letters, e \in Epochs : Failed(l, e) => Failed(l, e)'
    BY <1>1, TaskFacts, PairFacts DEF RestEffect, Drops, GiveUpEffect, Moves, FindEffect, TakesUp,
       rows, Failed
  <2>3. \A l \in Letters, e \in Epochs : Started(l, e)' => Started(l, e)
    BY <1>1, TaskFacts, PairFacts DEF RestEffect, Drops, GiveUpEffect, Moves, FindEffect, TakesUp,
       rows, Started
  <2> QED
    BY <2>1, <2>2, <2>3 DEF Chain
<1>2. ASSUME NEW p \in Processes, T(p) \in Tasks, Of(T(p)) \in Letters,
         DeliverEffect(p, Of(T(p)))
      PROVE  \A l \in Letters : Chain(l)'
  <2>1. \A l \in Letters, e \in Epochs : Exists(Gen(l, e))' <=> Exists(Gen(l, e))
    BY <1>2, TaskFacts DEF DeliverEffect, Moves, rows, Exists
  <2>2. \A l \in Letters, e \in Epochs : Failed(l, e) => Failed(l, e)'
    BY <1>2, TaskFacts, PairFacts DEF DeliverEffect, Moves, rows, Failed
  <2>3. \A l \in Letters, e \in Epochs : Started(l, e)' => Started(l, e)
    BY <1>2, TaskFacts, PairFacts DEF DeliverEffect, Moves, rows, Started
  <2> QED
    BY <2>1, <2>2, <2>3 DEF Chain
<1>3. ASSUME NEW k \in Letters, SealEffect(k) \/ OpenEffect(k)
      PROVE  \A l \in Letters : Chain(l)'
  <2>1. \A l \in Letters, e \in Epochs : Exists(Gen(l, e))' <=> Exists(Gen(l, e))
    BY <1>3, TaskFacts DEF SealEffect, TaskSet, OpenEffect, rows, Exists
  <2>2. \A l \in Letters, e \in Epochs : Failed(l, e) => Failed(l, e)'
    BY <1>3, TaskFacts, PairFacts DEF SealEffect, TaskSet, OpenEffect, rows, Failed
  <2>3. \A l \in Letters, e \in Epochs : Started(l, e)' => Started(l, e)
    BY <1>3, TaskFacts, PairFacts DEF SealEffect, TaskSet, OpenEffect, rows, Started
  <2> QED
    BY <2>1, <2>2, <2>3 DEF Chain
<1>4. ASSUME TickEffect
      PROVE  \A l \in Letters : Chain(l)'
  <2>1. \A l \in Letters, e \in Epochs : Exists(Gen(l, e))' <=> Exists(Gen(l, e))
    BY <1>4, TaskFacts DEF TickEffect, rows, Exists
  <2>2. \A l \in Letters, e \in Epochs : Failed(l, e) => Failed(l, e)'
    BY <1>4, TaskFacts, PairFacts DEF TickEffect, rows, Failed
  <2>3. \A l \in Letters, e \in Epochs : Started(l, e)' => Started(l, e)
    BY <1>4, TaskFacts, PairFacts DEF TickEffect, rows, Started
  <2> QED
    BY <2>1, <2>2, <2>3 DEF Chain
<1>5. ASSUME NEW p \in Processes, T(p) \in Tasks, Of(T(p)) \in Letters,
         ClaimEffect(p, T(p)) \/ SweepEffect(p, T(p))
      PROVE  \A l \in Letters : Chain(l)'
  <2>1. \A l \in Letters, e \in Epochs : Exists(Gen(l, e))' <=> Exists(Gen(l, e))
    BY <1>5, TaskFacts DEF ClaimEffect, TaskSet, SweepEffect, Drops, rows, Exists, Free, Waiting
  <2>2. \A l \in Letters, e \in Epochs : Failed(l, e) => Failed(l, e)'
    BY <1>5, TaskFacts, PairFacts DEF ClaimEffect, TaskSet, SweepEffect, Drops, rows, Failed,
       Free, Waiting
  <2>3. \A l \in Letters, e \in Epochs : Started(l, e)' => Started(l, e)
    BY <1>5, TaskFacts, PairFacts DEF ClaimEffect, TaskSet, SweepEffect, Drops, rows, Started
  <2> QED
    BY <2>1, <2>2, <2>3 DEF Chain
<1>6. ASSUME NEW p \in Processes, T(p) \in Tasks, Of(T(p)) \in Letters,
         FinishEffect(p, T(p)) \/ RetryEffect(p, T(p))
      PROVE  \A l \in Letters : Chain(l)'
  <2>1. \A l \in Letters, e \in Epochs : Exists(Gen(l, e))' <=> Exists(Gen(l, e))
    BY <1>6, TaskFacts DEF FinishEffect, TaskSet, Drops, RetryEffect, rows, Exists, Owns
  <2>2. \A l \in Letters, e \in Epochs : Failed(l, e) => Failed(l, e)'
    BY <1>6, TaskFacts, PairFacts DEF FinishEffect, TaskSet, Drops, RetryEffect, rows, Failed,
       Owns
  <2>3. \A l \in Letters, e \in Epochs : Started(l, e)' => Started(l, e)
    BY <1>6, TaskFacts, PairFacts DEF FinishEffect, TaskSet, Drops, RetryEffect, rows, Started
  <2> QED
    BY <2>1, <2>2, <2>3 DEF Chain
<1>7. ASSUME NEW p \in Processes, T(p) \in Tasks, Of(T(p)) \in Letters,
         UnavailableEffect(p, T(p))
      PROVE  \A l \in Letters : Chain(l)'
  <2>1. \A l \in Letters, e \in Epochs : Exists(Gen(l, e))' <=> Exists(Gen(l, e))
    BY <1>7, TaskFacts DEF UnavailableEffect, RunSet, Moves, rows, Exists
  <2>2. \A l \in Letters, e \in Epochs : Failed(l, e) => Failed(l, e)'
    BY <1>7, TaskFacts, PairFacts DEF UnavailableEffect, RunSet, Moves, rows, Failed, RunId
  <2>3. \A l \in Letters, e \in Epochs : Started(l, e)' => Started(l, e)
    BY <1>7, TaskFacts, PairFacts DEF UnavailableEffect, RunSet, Moves, rows, Started, RunId,
       Takes, RunOf
  <2> QED
    BY <2>1, <2>2, <2>3 DEF Chain
<1>8. ASSUME NEW p \in Processes, T(p) \in Tasks, Of(T(p)) \in Letters,
         CommitEffect(p, T(p), Of(T(p))) \/ FailEffect(p, T(p))
      PROVE  \A l \in Letters : Chain(l)'
  <2>1. \A l \in Letters, e \in Epochs : Exists(Gen(l, e))' <=> Exists(Gen(l, e))
    BY <1>8, TaskFacts DEF CommitEffect, TaskSet, RunSet, Moves, FailEffect, rows, Exists
  <2>2. \A l \in Letters, e \in Epochs : Failed(l, e) => Failed(l, e)'
    BY <1>8, TaskFacts, PairFacts DEF CommitEffect, TaskSet, RunSet, Moves, FailEffect, rows,
       Failed, RunId, Current, RunOf
  <2>3. \A l \in Letters, e \in Epochs : Started(l, e)' => Started(l, e)
    BY <1>8, TaskFacts, PairFacts DEF CommitEffect, TaskSet, RunSet, Moves, FailEffect, rows,
       Started, RunId, Current, RunOf
  <2> QED
    BY <2>1, <2>2, <2>3 DEF Chain
<1>9. ASSUME NEW p \in Processes, T(p) \in Tasks, Of(T(p)) \in Letters,
         ArriveEffect(p, Of(T(p)))
      PROVE  \A l \in Letters : Chain(l)'
  <2>1. PICK k \in Letters : k = Of(T(p))
    BY <1>9
  <2>2. \A l \in Letters, e \in Epochs : Exists(Gen(l, e))' => Exists(Gen(l, e)) \/ Gen(l, e) = Gen(k, 0)
    BY <1>9, <2>1, TaskFacts, Constants DEF ArriveEffect, Exists
  <2>3. \A l \in Letters, e \in Epochs : Exists(Gen(l, e)) => Exists(Gen(l, e))'
    BY <1>9, <2>1, TaskFacts, Constants DEF ArriveEffect, Exists
  <2>4. \A l \in Letters, e \in Epochs : Gen(l, e) = Gen(k, 0) => e = 0
    BY TaskFacts, Constants
  <2>5. \A l \in Letters, e \in Epochs : Failed(l, e) => Failed(l, e)'
    BY <1>9, <2>1, TaskFacts, Constants DEF ArriveEffect, Failed, Exists
  <2>6. \A l \in Letters, e \in Epochs : Started(l, e)' => Started(l, e)
    BY <1>9 DEF ArriveEffect, Started
  <2>7. \A e \in Epochs : e \in Nat
    BY Constants DEF Epochs
  <2> QED
    BY <2>2, <2>3, <2>4, <2>5, <2>6, <2>7 DEF Chain
<1>10. ASSUME NEW p \in Processes, T(p) \in Tasks, Of(T(p)) \in Letters,
         PreflightEffect(p, T(p))
      PROVE  \A l \in Letters : Chain(l)'
  <2>1. PICK k \in Letters, f \in Epochs : T(p) = Gen(k, f) /\ RunId(T(p)) = <<k, f>>
    BY <1>10, TaskFacts DEF PreflightEffect, RunId
  <2>2. \A l \in Letters, e \in Epochs : Exists(Gen(l, e))' <=> Exists(Gen(l, e))
    BY <1>10 DEF PreflightEffect, Exists
  <2>3. \A l \in Letters, e \in Epochs : Failed(l, e) => Failed(l, e)'
    BY <1>10, <2>1, PairFacts DEF PreflightEffect, RunSet, Failed, Takes, RunOf
  <2>4. \A l \in Letters, e \in Epochs : Started(l, e)' => Started(l, e) \/ (l = k /\ e = f)
    BY <1>10, <2>1, PairFacts DEF PreflightEffect, RunSet, Started
  <2>5. Exists(Gen(k, f))
    BY <1>10, <2>1 DEF PreflightEffect, Knows, Working, At
  <2> QED
    BY <2>2, <2>3, <2>4, <2>5 DEF Chain
<1>11. ASSUME NEW k \in Letters, AskEffect(k)
      PROVE  \A l \in Letters : Chain(l)'
  <2>1. PICK d \in Epochs : /\ d + 1 \in Epochs /\ ~Exists(Gen(k, d + 1))
                            /\ TaskSet(Gen(k, d + 1), "pending", 0, 0, 0) /\ Failed(k, d)
    BY <1>11 DEF AskEffect, Failed
  <2>2. \A l \in Letters, e \in Epochs : Exists(Gen(l, e))' <=> Exists(Gen(l, e)) \/ (l = k /\ e = d + 1)
    BY <1>11, <2>1, TaskFacts DEF TaskSet, Exists
  <2>3. \A l \in Letters, e \in Epochs : Failed(l, e) => Failed(l, e)'
    BY <1>11, <2>1, TaskFacts DEF AskEffect, TaskSet, Exists, Failed
  <2>4. \A l \in Letters, e \in Epochs : Started(l, e)' <=> Started(l, e)
    BY <1>11 DEF AskEffect, Started
  <2>5. Exists(Gen(k, d)) /\ \A e \in Epochs : Failed(k, e) => Exists(Gen(k, e))
    BY <2>1 DEF Failed, Exists
  <2>6. \A e \in Epochs : e \in Nat
    BY Constants DEF Epochs
  <2>7. ASSUME NEW e \in Epochs, NEW l \in Letters, NEW c \in Epochs, c < e, Exists(Gen(l, e))'
        PROVE  Failed(l, c)
    <3>1. CASE l = k /\ e = d + 1
      BY <2>1, <2>5, <2>6, <2>7, <3>1 DEF Chain
    <3>2. CASE ~(l = k /\ e = d + 1)
      BY <2>2, <2>7, <3>2 DEF Chain
    <3> QED
      BY <3>1, <3>2
  <2> QED
    BY <2>2, <2>3, <2>4, <2>7 DEF Chain
<1> QED
  BY <1>1, <1>2, <1>3, <1>4, <1>5, <1>6, <1>7, <1>8, <1>9, <1>10, <1>11 DEF StepEffect, WorkEffect

\* No task is lost, no arrival is put off, and no reply is taken back.
Grows ==
  /\ \A u \in Tasks : Exists(u) => Exists(u)'
  /\ \A u \in Tasks : Exists(u) /\ Kind(u) # "generation" /\ task[u].due <= 0 => task'[u].due <= 0
  /\ \A l \in Letters : reply[l] # "none" => reply'[l] # "none"
  /\ \A l \in Letters : reply[l] \in {"delivered_unread", "read"} => reply'[l] \in {"delivered_unread", "read"}

\* Rows stay once they exist, what is due stays due, and a reply that came stays.
LEMMA RowsGrow ==
  ASSUME Shape, \A l \in Letters : OutRow(l) /\ BackRow(l), StepEffect
  PROVE  Grows
<1>1. ASSUME NEW p \in Processes, RestEffect(p) \/ GiveUpEffect(p) \/ (\E t \in Tasks : FindEffect(p, t))
      PROVE  Grows
  <2>1. \A u \in Tasks : Exists(u) => Exists(u)'
    BY <1>1, TaskFacts DEF RestEffect, Drops, GiveUpEffect, Moves, FindEffect, TakesUp, rows,
       Exists
  <2>2. \A u \in Tasks : Exists(u) /\ Kind(u) # "generation" /\ task[u].due <= 0 => task'[u].due <= 0
    BY <1>1, TaskFacts DEF RestEffect, Drops, GiveUpEffect, Moves, FindEffect, TakesUp, rows,
       Exists
  <2>3. \A l \in Letters :
          /\ reply[l] # "none" => reply'[l] # "none"
          /\ reply[l] \in {"delivered_unread", "read"} => reply'[l] \in {"delivered_unread", "read"}
    BY <1>1 DEF RestEffect, Drops, GiveUpEffect, Moves, FindEffect, TakesUp, rows, Shape
  <2> QED
    BY <2>1, <2>2, <2>3 DEF Grows
<1>2. ASSUME NEW p \in Processes, T(p) \in Tasks, Of(T(p)) \in Letters,
         DeliverEffect(p, Of(T(p))) \/ PreflightEffect(p, T(p)) \/
         UnavailableEffect(p, T(p)) \/ FailEffect(p, T(p))
      PROVE  Grows
  <2>1. \A u \in Tasks : Exists(u) => Exists(u)'
    BY <1>2, TaskFacts DEF DeliverEffect, Moves, PreflightEffect, RunSet, UnavailableEffect,
       FailEffect, rows, Exists
  <2>2. \A u \in Tasks : Exists(u) /\ Kind(u) # "generation" /\ task[u].due <= 0 => task'[u].due <= 0
    BY <1>2, TaskFacts DEF DeliverEffect, Moves, PreflightEffect, RunSet, UnavailableEffect,
       FailEffect, rows, Exists
  <2>3. \A l \in Letters :
          /\ reply[l] # "none" => reply'[l] # "none"
          /\ reply[l] \in {"delivered_unread", "read"} => reply'[l] \in {"delivered_unread", "read"}
    BY <1>2 DEF DeliverEffect, Moves, PreflightEffect, RunSet, UnavailableEffect, FailEffect,
       rows, Shape
  <2> QED
    BY <2>1, <2>2, <2>3 DEF Grows
<1>3. ASSUME NEW p \in Processes, T(p) \in Tasks, Of(T(p)) \in Letters,
         ClaimEffect(p, T(p)) \/ SweepEffect(p, T(p))
      PROVE  Grows
  <2>1. \A u \in Tasks : Exists(u) => Exists(u)'
    BY <1>3, TaskFacts DEF ClaimEffect, TaskSet, SweepEffect, Drops, rows, Exists
  <2>2. \A u \in Tasks : Exists(u) /\ Kind(u) # "generation" /\ task[u].due <= 0 => task'[u].due <= 0
    BY <1>3, TaskFacts DEF ClaimEffect, TaskSet, SweepEffect, Drops, rows, Exists
  <2>3. \A l \in Letters :
          /\ reply[l] # "none" => reply'[l] # "none"
          /\ reply[l] \in {"delivered_unread", "read"} => reply'[l] \in {"delivered_unread", "read"}
    BY <1>3 DEF ClaimEffect, TaskSet, SweepEffect, Drops, rows, Shape
  <2> QED
    BY <2>1, <2>2, <2>3 DEF Grows
<1>4. ASSUME NEW p \in Processes, T(p) \in Tasks, Of(T(p)) \in Letters,
         FinishEffect(p, T(p)) \/ RetryEffect(p, T(p))
      PROVE  Grows
  <2>1. \A u \in Tasks : Exists(u) => Exists(u)'
    BY <1>4, TaskFacts DEF FinishEffect, TaskSet, Drops, RetryEffect, rows, Exists
  <2>2. \A u \in Tasks : Exists(u) /\ Kind(u) # "generation" /\ task[u].due <= 0 => task'[u].due <= 0
    BY <1>4, TaskFacts DEF FinishEffect, TaskSet, Drops, RetryEffect, rows, Exists
  <2>3. \A l \in Letters :
          /\ reply[l] # "none" => reply'[l] # "none"
          /\ reply[l] \in {"delivered_unread", "read"} => reply'[l] \in {"delivered_unread", "read"}
    BY <1>4 DEF FinishEffect, TaskSet, Drops, RetryEffect, rows, Shape
  <2> QED
    BY <2>1, <2>2, <2>3 DEF Grows
<1>5. ASSUME NEW p \in Processes, T(p) \in Tasks, Of(T(p)) \in Letters,
         ArriveEffect(p, Of(T(p)))
      PROVE  Grows
  <2>1. \A u \in Tasks : Exists(u) => Exists(u)'
    BY <1>5, TaskFacts DEF ArriveEffect, Drops, rows, Exists
  <2>2. \A u \in Tasks : Exists(u) /\ Kind(u) # "generation" /\ task[u].due <= 0 => task'[u].due <= 0
    BY <1>5, TaskFacts DEF ArriveEffect, Drops, rows, Exists
  <2>3. \A l \in Letters :
          /\ reply[l] # "none" => reply'[l] # "none"
          /\ reply[l] \in {"delivered_unread", "read"} => reply'[l] \in {"delivered_unread", "read"}
    BY <1>5 DEF ArriveEffect, Drops, rows, Shape
  <2> QED
    BY <2>1, <2>2, <2>3 DEF Grows
<1>6. ASSUME NEW p \in Processes, T(p) \in Tasks, Of(T(p)) \in Letters,
         CommitEffect(p, T(p), Of(T(p)))
      PROVE  Grows
  <2>1. \A u \in Tasks : Exists(u) => Exists(u)'
    BY <1>6, TaskFacts DEF CommitEffect, TaskSet, RunSet, Moves, rows, Exists
  <2>2. \A u \in Tasks : Exists(u) /\ Kind(u) # "generation" /\ task[u].due <= 0 => task'[u].due <= 0
    BY <1>6, TaskFacts DEF CommitEffect, TaskSet, RunSet, Moves, rows, Exists, BackRow
  <2>3. \A l \in Letters :
          /\ reply[l] # "none" => reply'[l] # "none"
          /\ reply[l] \in {"delivered_unread", "read"} => reply'[l] \in {"delivered_unread", "read"}
    BY <1>6 DEF CommitEffect, TaskSet, RunSet, Moves, rows, Shape
  <2> QED
    BY <2>1, <2>2, <2>3 DEF Grows
<1>7. ASSUME NEW k \in Letters, SealEffect(k)
      PROVE  Grows
  <2>1. \A u \in Tasks : Exists(u) => Exists(u)'
    BY <1>7, TaskFacts DEF SealEffect, TaskSet, rows, Exists
  <2>2. \A u \in Tasks : Exists(u) /\ Kind(u) # "generation" /\ task[u].due <= 0 => task'[u].due <= 0
    BY <1>7, TaskFacts DEF SealEffect, TaskSet, rows, Exists, OutRow
  <2>3. \A l \in Letters :
          /\ reply[l] # "none" => reply'[l] # "none"
          /\ reply[l] \in {"delivered_unread", "read"} => reply'[l] \in {"delivered_unread", "read"}
    BY <1>7 DEF SealEffect, TaskSet, rows, Shape
  <2> QED
    BY <2>1, <2>2, <2>3 DEF Grows
<1>8. ASSUME NEW k \in Letters, AskEffect(k)
      PROVE  Grows
  <2>1. \A u \in Tasks : Exists(u) => Exists(u)'
    BY <1>8, TaskFacts DEF AskEffect, TaskSet, rows, Exists
  <2>2. \A u \in Tasks : Exists(u) /\ Kind(u) # "generation" /\ task[u].due <= 0 => task'[u].due <= 0
    BY <1>8, TaskFacts DEF AskEffect, TaskSet, rows, Exists
  <2>3. \A l \in Letters :
          /\ reply[l] # "none" => reply'[l] # "none"
          /\ reply[l] \in {"delivered_unread", "read"} => reply'[l] \in {"delivered_unread", "read"}
    BY <1>8 DEF AskEffect, TaskSet, rows, Shape
  <2> QED
    BY <2>1, <2>2, <2>3 DEF Grows
<1>9. ASSUME NEW k \in Letters, OpenEffect(k)
      PROVE  Grows
  <2>1. \A u \in Tasks : Exists(u) => Exists(u)'
    BY <1>9, TaskFacts DEF OpenEffect, rows, Exists
  <2>2. \A u \in Tasks : Exists(u) /\ Kind(u) # "generation" /\ task[u].due <= 0 => task'[u].due <= 0
    BY <1>9, TaskFacts DEF OpenEffect, rows, Exists
  <2>3. \A l \in Letters :
          /\ reply[l] # "none" => reply'[l] # "none"
          /\ reply[l] \in {"delivered_unread", "read"} => reply'[l] \in {"delivered_unread", "read"}
    BY <1>9 DEF OpenEffect, rows, Shape
  <2> QED
    BY <2>1, <2>2, <2>3 DEF Grows
<1>10. ASSUME TickEffect
      PROVE  Grows
  <2>1. \A u \in Tasks : Exists(u) => Exists(u)'
    BY <1>10, TaskFacts DEF TickEffect, rows, Exists
  <2>2. \A u \in Tasks : Exists(u) /\ Kind(u) # "generation" /\ task[u].due <= 0 => task'[u].due <= 0
    BY <1>10, TaskFieldTypes, Constants DEF TickEffect, Older
  <2>3. \A l \in Letters :
          /\ reply[l] # "none" => reply'[l] # "none"
          /\ reply[l] \in {"delivered_unread", "read"} => reply'[l] \in {"delivered_unread", "read"}
    BY <1>10 DEF TickEffect, rows, Shape
  <2> QED
    BY <2>1, <2>2, <2>3 DEF Grows
<1> QED
  BY <1>1, <1>2, <1>3, <1>4, <1>5, <1>6, <1>7, <1>8, <1>9, <1>10 DEF StepEffect, WorkEffect

\* What a pass knows of its task stays while it stays where it is.
LEMMA KnowsStays ==
  ASSUME Grows, NEW q \in Processes, Knows(q), pass'[q].stage = pass[q].stage, pass'[q].task = pass[q].task
  PROVE  Knows(q)'
<1>1. PICK t : t = T(q)
  OBVIOUS
<1>2. T(q)' = t /\ (Working(q)' <=> Working(q)) /\ \A s : At(q, s)' <=> At(q, s)
  BY <1>1 DEF Working, At, T
<1>3. CASE ~Working(q) /\ ~At(q, "claim")
  BY <1>2, <1>3 DEF Knows, Working, At
<1>4. CASE Working(q) \/ At(q, "claim")
  <2>1. t \in Tasks /\ Exists(t) /\ Of(t) \in Letters
    BY <1>1, <1>4, TaskFacts DEF Knows
  <2>2. Exists(t)' /\ (Kind(t) # "generation" => task'[t].due <= 0)
    BY <1>1, <1>4, <2>1 DEF Knows, Grows
  <2>3. Exists(T(q))' /\ (Kind(T(q)') # "generation" => task'[T(q)'].due <= 0)
    BY <1>2, <2>2 DEF Exists
  <2>4. At(q, "compose") => Kind(t) = "generation"
    BY <1>1 DEF Knows
  <2>5. At(q, "finish") => \/ Kind(t) = "generation" /\ reply'[Of(t)] # "none"
                           \/ Kind(t) = "return" /\ reply'[Of(t)] \in {"delivered_unread", "read"}
    BY <1>1, <2>1 DEF Knows, Grows
  <2> QED
    BY <1>2, <2>1, <2>3, <2>4, <2>5 DEF Knows
<1> QED
  BY <1>3, <1>4

\* What the passes know.
LEMMA KnowsKept ==
  ASSUME Shape, \A l \in Letters : OutRow(l) /\ AnswerRow(l) /\ BackRow(l), \A q \in Processes : Knows(q), StepEffect
  PROVE  \A q \in Processes : Knows(q)'
<1>1. ASSUME NEW p \in Processes, RestEffect(p)
      PROVE  \A q \in Processes : Knows(q)'
  <2>1. ASSUME NEW q \in Processes, q # p PROVE Knows(q)'
    BY <1>1, <2>1, KnowsStays, RowsGrow DEF RestEffect, Drops, OthersRest
  <2>2. ~Working(p)' /\ ~At(p, "claim")'
    BY <1>1 DEF RestEffect, Drops, Working, At
  <2>3. Knows(p)'
    BY <2>2 DEF Knows, Working, At
  <2> QED
    BY <2>1, <2>3
<1>2. ASSUME NEW p \in Processes, T(p) \in Tasks, Of(T(p)) \in Letters,
         SweepEffect(p, T(p)) \/ ArriveEffect(p, Of(T(p))) \/ FinishEffect(p, T(p)) \/
         RetryEffect(p, T(p))
      PROVE  \A q \in Processes : Knows(q)'
  <2>1. ASSUME NEW q \in Processes, q # p PROVE Knows(q)'
    BY <1>2, <2>1, KnowsStays, RowsGrow DEF SweepEffect, TaskSet, Drops, ArriveEffect,
       FinishEffect, RetryEffect, OthersRest
  <2>2. ~Working(p)' /\ ~At(p, "claim")'
    BY <1>2 DEF SweepEffect, TaskSet, Drops, ArriveEffect, FinishEffect, RetryEffect, Working, At
  <2>3. Knows(p)'
    BY <2>2 DEF Knows, Working, At
  <2> QED
    BY <2>1, <2>3
<1>3. ASSUME NEW p \in Processes, (\E t \in Tasks : FindEffect(p, t))
      PROVE  \A q \in Processes : Knows(q)'
  <2>1. ASSUME NEW q \in Processes, q # p PROVE Knows(q)'
    BY <1>3, <2>1, KnowsStays, RowsGrow DEF  FindEffect, TakesUp, OthersRest
  <2>2. PICK t \in Tasks : FindEffect(p, t)
    BY <1>3
  <2>3. Exists(t) /\ task[t].due <= 0 /\ UNCHANGED task
    BY <2>2, PassFacts, TaskFieldTypes, Constants DEF FindEffect, Heads, Candidates, Open,
       Waiting, Exists
  <2>4. /\ T(p)' = t /\ At(p, "claim")' /\ ~Working(p)' /\ ~At(p, "compose")' /\ ~At(p, "finish")'
    BY <2>2 DEF FindEffect, TakesUp, T, At, Working
  <2>5. Exists(T(p))' /\ task'[T(p)'].due <= 0
    BY <2>3, <2>4 DEF Exists
  <2>6. Knows(p)'
    BY <2>4, <2>5 DEF Knows
  <2> QED
    BY <2>1, <2>6
<1>4. ASSUME NEW p \in Processes, T(p) \in Tasks, Of(T(p)) \in Letters,
         ClaimEffect(p, T(p))
      PROVE  \A q \in Processes : Knows(q)'
  <2>1. ASSUME NEW q \in Processes, q # p PROVE Knows(q)'
    BY <1>4, <2>1, KnowsStays, RowsGrow DEF ClaimEffect, TaskSet, OthersRest
  <2>2. PICK t \in Tasks : t = T(p)
    BY <1>4
  <2>3. /\ T(p)' = t /\ At(p, "work")' /\ ~At(p, "compose")' /\ ~At(p, "finish")'
    BY <1>4, <2>2 DEF ClaimEffect, T, At
  <2>4. Exists(t) /\ (Kind(t) # "generation" => task[t].due <= 0)
    BY <1>4, <2>2 DEF ClaimEffect, Knows
  <2>5. Exists(t)' /\ (Kind(t) # "generation" => task'[t].due <= 0)
    BY <1>4, <2>4, RowsGrow DEF Grows
  <2>6. Exists(T(p))' /\ (Kind(T(p)') # "generation" => task'[T(p)'].due <= 0) /\ T(p)' \in Tasks
    BY <2>3, <2>5 DEF Exists
  <2>7. Knows(p)'
    BY <2>3, <2>6 DEF Knows
  <2> QED
    BY <2>1, <2>7
<1>5. ASSUME NEW p \in Processes, GiveUpEffect(p)
      PROVE  \A q \in Processes : Knows(q)'
  <2>1. ASSUME NEW q \in Processes, q # p PROVE Knows(q)'
    BY <1>5, <2>1, KnowsStays, RowsGrow DEF GiveUpEffect, Moves, OthersRest
  <2>2. PICK t \in Tasks : t = T(p)
    BY <1>5 DEF GiveUpEffect, Knows, Working, At
  <2>3. T(p)' = t /\ Working(p)' /\ Working(p)
    BY <1>5, <2>2 DEF GiveUpEffect, Moves, T, At, Working
  <2>4. Exists(t) /\ (Kind(t) # "generation" => task[t].due <= 0) /\ Of(t) \in Letters
    BY <2>2, <2>3, TaskFacts DEF Knows
  <2>5. Exists(t)' /\ (Kind(t) # "generation" => task'[t].due <= 0)
    BY <2>4, RowsGrow DEF Grows
  <2>6. Exists(T(p))' /\ (Kind(T(p)') # "generation" => task'[T(p)'].due <= 0) /\ T(p)' \in Tasks
    BY <2>3, <2>5 DEF Exists
  <2>7. At(p, "compose")' => Kind(t) = "generation"
    BY <1>5, <2>2 DEF GiveUpEffect, Moves, At
  <2>8. At(p, "finish")' => \/ Kind(t) = "generation" /\ reply'[Of(t)] # "none"
                            \/ Kind(t) = "return" /\ reply'[Of(t)] \in {"delivered_unread", "read"}
    BY <1>5, <2>2, <2>4, TaskFacts DEF GiveUpEffect, Moves, At, Shape, BackRow
  <2>9. Knows(p)'
    BY <2>3, <2>6, <2>7, <2>8 DEF Knows
  <2> QED
    BY <2>1, <2>9
<1>6. ASSUME NEW p \in Processes, T(p) \in Tasks, Of(T(p)) \in Letters,
         PreflightEffect(p, T(p)) \/ DeliverEffect(p, Of(T(p))) \/
         UnavailableEffect(p, T(p)) \/ CommitEffect(p, T(p), Of(T(p))) \/
         FailEffect(p, T(p))
      PROVE  \A q \in Processes : Knows(q)'
  <2>1. ASSUME NEW q \in Processes, q # p PROVE Knows(q)'
    BY <1>6, <2>1, KnowsStays, RowsGrow DEF PreflightEffect, RunSet, Moves, DeliverEffect,
       UnavailableEffect, CommitEffect, TaskSet, FailEffect, OthersRest
  <2>2. PICK t \in Tasks : t = T(p)
    BY <1>6 DEF GiveUpEffect, Knows, Working, At
  <2>3. T(p)' = t /\ Working(p)' /\ Working(p)
    BY <1>6, <2>2 DEF PreflightEffect, RunSet, Moves, DeliverEffect, UnavailableEffect,
       CommitEffect, TaskSet, FailEffect, T, At, Working
  <2>4. Exists(t) /\ (Kind(t) # "generation" => task[t].due <= 0) /\ Of(t) \in Letters
    BY <2>2, <2>3, TaskFacts DEF Knows
  <2>5. Exists(t)' /\ (Kind(t) # "generation" => task'[t].due <= 0)
    BY <2>4, RowsGrow DEF Grows
  <2>6. Exists(T(p))' /\ (Kind(T(p)') # "generation" => task'[T(p)'].due <= 0) /\ T(p)' \in Tasks
    BY <2>3, <2>5 DEF Exists
  <2>7. At(p, "compose")' => Kind(t) = "generation"
    BY <1>6, <2>2 DEF PreflightEffect, RunSet, Moves, DeliverEffect, UnavailableEffect,
       CommitEffect, TaskSet, FailEffect, At
  <2>8. At(p, "finish")' => \/ Kind(t) = "generation" /\ reply'[Of(t)] # "none"
                            \/ Kind(t) = "return" /\ reply'[Of(t)] \in {"delivered_unread", "read"}
    BY <1>6, <2>2, <2>4, TaskFacts DEF PreflightEffect, RunSet, Moves, DeliverEffect,
       UnavailableEffect, CommitEffect, TaskSet, FailEffect, At, Shape, BackRow
  <2>9. Knows(p)'
    BY <2>3, <2>6, <2>7, <2>8 DEF Knows
  <2> QED
    BY <2>1, <2>9
<1>7. ASSUME NEW k \in Letters, SealEffect(k) \/ AskEffect(k) \/ OpenEffect(k)
      PROVE  \A q \in Processes : Knows(q)'
  BY <1>7, KnowsStays, RowsGrow DEF SealEffect, TaskSet, AskEffect, OpenEffect, T
<1>8. ASSUME TickEffect
      PROVE  \A q \in Processes : Knows(q)'
  BY <1>8, KnowsStays, RowsGrow DEF TickEffect, T
<1> QED
  BY <1>1, <1>2, <1>3, <1>4, <1>5, <1>6, <1>7, <1>8 DEF StepEffect, WorkEffect

\* No letter under way comes before one that is due, and what was given up stays so.
Ordered ==
  /\ \A k, l \in Letters :
       Exists(Out(k)) /\ task[Out(k)].due <= 0 /\ letter'[l] = "in_transit"
         /\ task'[Out(l)].due < task'[Out(k)].due
       => letter[l] = "in_transit" /\ task[Out(l)].due < task[Out(k)].due
  /\ \A l \in Letters : task[Out(l)].status = "dead_letter" => task'[Out(l)].status = "dead_letter"

\* No letter gets on its way ahead of one that is due already.
LEMMA OrderStays ==
  ASSUME Shape, \A l \in Letters : OutRow(l), \A q \in Processes : Knows(q), StepEffect
  PROVE  Ordered
<1>1. ASSUME NEW p \in Processes, RestEffect(p) \/ GiveUpEffect(p) \/ (\E t \in Tasks : FindEffect(p, t))
      PROVE  Ordered
  <2>1. \A l \in Letters : task'[Out(l)].due = task[Out(l)].due
    BY <1>1, TaskFacts DEF RestEffect, Drops, GiveUpEffect, Moves, FindEffect, TakesUp, rows
  <2>2. \A l \in Letters : task[Out(l)].status = "dead_letter" => task'[Out(l)].status = "dead_letter"
    BY <1>1, TaskFacts DEF RestEffect, Drops, GiveUpEffect, Moves, FindEffect, TakesUp, rows
  <2>3. \A l \in Letters : letter'[l] = "in_transit" => letter[l] = "in_transit"
    BY <1>1 DEF RestEffect, Drops, GiveUpEffect, Moves, FindEffect, TakesUp, rows, Shape
  <2> QED
    BY <2>1, <2>2, <2>3 DEF Ordered
<1>2. ASSUME NEW p \in Processes, T(p) \in Tasks, Of(T(p)) \in Letters,
         DeliverEffect(p, Of(T(p))) \/ PreflightEffect(p, T(p)) \/
         UnavailableEffect(p, T(p)) \/ FailEffect(p, T(p))
      PROVE  Ordered
  <2>1. \A l \in Letters : task'[Out(l)].due = task[Out(l)].due
    BY <1>2, TaskFacts DEF DeliverEffect, Moves, PreflightEffect, RunSet, UnavailableEffect,
       FailEffect, rows
  <2>2. \A l \in Letters : task[Out(l)].status = "dead_letter" => task'[Out(l)].status = "dead_letter"
    BY <1>2, TaskFacts DEF DeliverEffect, Moves, PreflightEffect, RunSet, UnavailableEffect,
       FailEffect, rows
  <2>3. \A l \in Letters : letter'[l] = "in_transit" => letter[l] = "in_transit"
    BY <1>2 DEF DeliverEffect, Moves, PreflightEffect, RunSet, UnavailableEffect, FailEffect,
       rows, Shape
  <2> QED
    BY <2>1, <2>2, <2>3 DEF Ordered
<1>3. ASSUME NEW p \in Processes, T(p) \in Tasks, Of(T(p)) \in Letters,
         ArriveEffect(p, Of(T(p)))
      PROVE  Ordered
  <2>1. \A l \in Letters : task'[Out(l)].due = task[Out(l)].due
    BY <1>3, TaskFacts, Constants DEF ArriveEffect, Drops, rows
  <2>2. \A l \in Letters : task[Out(l)].status = "dead_letter" => task'[Out(l)].status = "dead_letter"
    BY <1>3, TaskFacts, Constants DEF ArriveEffect, Drops, rows, Owns
  <2>3. \A l \in Letters : letter'[l] = "in_transit" => letter[l] = "in_transit"
    BY <1>3 DEF ArriveEffect, Drops, rows, Shape
  <2> QED
    BY <2>1, <2>2, <2>3 DEF Ordered
<1>4. ASSUME NEW p \in Processes, T(p) \in Tasks, Of(T(p)) \in Letters,
         CommitEffect(p, T(p), Of(T(p)))
      PROVE  Ordered
  <2>1. \A l \in Letters : task'[Out(l)].due = task[Out(l)].due
    BY <1>4, TaskFacts DEF CommitEffect, TaskSet, RunSet, Moves, rows
  <2>2. \A l \in Letters : task[Out(l)].status = "dead_letter" => task'[Out(l)].status = "dead_letter"
    BY <1>4, TaskFacts DEF CommitEffect, TaskSet, RunSet, Moves, rows
  <2>3. \A l \in Letters : letter'[l] = "in_transit" => letter[l] = "in_transit"
    BY <1>4 DEF CommitEffect, TaskSet, RunSet, Moves, rows, Shape
  <2> QED
    BY <2>1, <2>2, <2>3 DEF Ordered
<1>5. ASSUME NEW p \in Processes, T(p) \in Tasks, Of(T(p)) \in Letters,
         ClaimEffect(p, T(p)) \/ SweepEffect(p, T(p))
      PROVE  Ordered
  <2>1. \A l \in Letters : task'[Out(l)].due = task[Out(l)].due
    BY <1>5, TaskFacts DEF ClaimEffect, TaskSet, SweepEffect, Drops, rows
  <2>2. \A l \in Letters : task[Out(l)].status = "dead_letter" => task'[Out(l)].status = "dead_letter"
    BY <1>5, TaskFacts DEF ClaimEffect, TaskSet, SweepEffect, Drops, rows, Free, Waiting
  <2>3. \A l \in Letters : letter'[l] = "in_transit" => letter[l] = "in_transit"
    BY <1>5 DEF ClaimEffect, TaskSet, SweepEffect, Drops, rows, Shape
  <2> QED
    BY <2>1, <2>2, <2>3 DEF Ordered
<1>6. ASSUME NEW p \in Processes, T(p) \in Tasks, Of(T(p)) \in Letters,
         FinishEffect(p, T(p))
      PROVE  Ordered
  <2>1. \A l \in Letters : task'[Out(l)].due = task[Out(l)].due
    BY <1>6, TaskFacts DEF FinishEffect, TaskSet, Drops, rows
  <2>2. \A l \in Letters : task[Out(l)].status = "dead_letter" => task'[Out(l)].status = "dead_letter"
    BY <1>6, TaskFacts DEF FinishEffect, TaskSet, Drops, rows, Owns
  <2>3. \A l \in Letters : letter'[l] = "in_transit" => letter[l] = "in_transit"
    BY <1>6 DEF FinishEffect, TaskSet, Drops, rows, Shape
  <2> QED
    BY <2>1, <2>2, <2>3 DEF Ordered
<1>7. ASSUME NEW p \in Processes, T(p) \in Tasks, Of(T(p)) \in Letters,
         RetryEffect(p, T(p))
      PROVE  Ordered
  <2>1. \A l \in Letters : task'[Out(l)].due = task[Out(l)].due
    <3>1. \A u \in Tasks : Kind(u) = "outbound" => task'[u].due = task[u].due
      BY <1>7 DEF RetryEffect, TaskSet
    <3> QED
      BY <3>1, TaskFacts
  <2>2. \A l \in Letters : task[Out(l)].status = "dead_letter" => task'[Out(l)].status = "dead_letter"
    BY <1>7, TaskFacts DEF RetryEffect, TaskSet, Drops, rows, Owns
  <2>3. \A l \in Letters : letter'[l] = "in_transit" => letter[l] = "in_transit"
    BY <1>7 DEF RetryEffect, TaskSet, Drops, rows, Shape
  <2> QED
    BY <2>1, <2>2, <2>3 DEF Ordered
<1>8. ASSUME NEW k \in Letters, SealEffect(k)
      PROVE  Ordered
  <2>1. PICK d \in Nat : TaskSet(Out(k), "pending", d, 0, 0)
    BY <1>8, Constants DEF SealEffect
  <2>2. ~Exists(Out(k))
    BY <1>8 DEF SealEffect, OutRow
  <2>3. \A l \in Letters : l # k => letter'[l] = letter[l] /\ task'[Out(l)] = task[Out(l)]
    BY <1>8, <2>1, TaskFacts DEF SealEffect, TaskSet, Shape
  <2>4. task'[Out(k)].due = d /\ task[Out(k)].status # "dead_letter"
    BY <2>1, <2>2 DEF TaskSet, Exists
  <2>5. \A l \in Letters : task[Out(l)].due \in Int
    BY TaskFacts, TaskFieldTypes
  <2> QED
    BY <2>2, <2>3, <2>4, <2>5 DEF Ordered
<1>9. ASSUME NEW k \in Letters, AskEffect(k)
      PROVE  Ordered
  <2>1. \A l \in Letters : task'[Out(l)].due = task[Out(l)].due
    BY <1>9, TaskFacts DEF AskEffect, TaskSet, rows
  <2>2. \A l \in Letters : task[Out(l)].status = "dead_letter" => task'[Out(l)].status = "dead_letter"
    BY <1>9, TaskFacts DEF AskEffect, TaskSet, rows
  <2>3. \A l \in Letters : letter'[l] = "in_transit" => letter[l] = "in_transit"
    BY <1>9 DEF AskEffect, TaskSet, rows, Shape
  <2> QED
    BY <2>1, <2>2, <2>3 DEF Ordered
<1>10. ASSUME NEW k \in Letters, OpenEffect(k)
      PROVE  Ordered
  <2>1. \A l \in Letters : task'[Out(l)].due = task[Out(l)].due
    BY <1>10, TaskFacts DEF OpenEffect, rows
  <2>2. \A l \in Letters : task[Out(l)].status = "dead_letter" => task'[Out(l)].status = "dead_letter"
    BY <1>10, TaskFacts DEF OpenEffect, rows
  <2>3. \A l \in Letters : letter'[l] = "in_transit" => letter[l] = "in_transit"
    BY <1>10 DEF OpenEffect, rows, Shape
  <2> QED
    BY <2>1, <2>2, <2>3 DEF Ordered
<1>11. ASSUME TickEffect
      PROVE  Ordered
  <2>1. \A l \in Letters : task'[Out(l)].status = task[Out(l)].status /\ letter'[l] = letter[l]
    BY <1>11, TaskFacts DEF TickEffect, rows
  <2>2. \A l \in Letters : task[Out(l)].due \in Int /\ (letter[l] = "in_transit" => Ages(Out(l)))
    BY TaskFacts, TaskFieldTypes DEF OutRow, Pending, Ages, Settled
  <2>3. \A l \in Letters : Exists(Out(l)) => Ages(Out(l))
    BY TaskFacts, TaskFieldTypes DEF Exists, Ages, Settled, Open, Waiting, Statuses
  <2>4. \A l \in Letters : Ages(Out(l)) => task'[Out(l)].due = Older(task[Out(l)].due)
    BY <1>11, TaskFacts DEF TickEffect
  <2>5. \A x, y \in Int : Older(x) < Older(y) => x < y
    BY Constants DEF Older
  <2> QED
    BY <2>1, <2>2, <2>3, <2>4, <2>5 DEF Ordered
<1> QED
  BY <1>1, <1>2, <1>3, <1>4, <1>5, <1>6, <1>7, <1>8, <1>9, <1>10, <1>11 DEF StepEffect, WorkEffect

\* A pass that has the earliest task still has it after the step of another.
LEMMA InOrderStays ==
  ASSUME Ordered, NEW q \in Processes, Knows(q), InOrder(q),
         (At(q, "claim") \/ At(q, "work"))' => At(q, "claim") \/ At(q, "work"),
         (At(q, "claim") \/ At(q, "work"))' => T(q)' = T(q)
  PROVE  InOrder(q)'
<1>1. SUFFICES ASSUME (At(q, "claim") \/ At(q, "work"))', Kind(T(q)') = "outbound",
                      NEW l \in Letters, letter'[l] = "in_transit", task'[Out(l)].due < task'[T(q)'].due
               PROVE  task'[Out(l)].status = "dead_letter"
  BY DEF InOrder
<1>5. T(q)' = T(q) /\ (Working(q) \/ At(q, "claim"))
  BY <1>1 DEF Working, At
<1>6. T(q) \in Tasks /\ Kind(T(q)) = "outbound"
  BY <1>1, <1>5 DEF Knows
<1>2. PICK k \in Letters : T(q) = Out(k) /\ T(q)' = Out(k)
  BY <1>5, <1>6, TaskFacts
<1>3. Exists(Out(k)) /\ task[Out(k)].due <= 0
  BY <1>2, <1>5, TaskFacts DEF Knows
<1>4. letter[l] = "in_transit" /\ task[Out(l)].due < task[Out(k)].due
  BY <1>1, <1>2, <1>3 DEF Ordered
<1> QED
  BY <1>1, <1>2, <1>4, TaskFacts DEF Ordered, InOrder

\* The head of the queue is the oldest arrival that is not given up.
LEMMA InOrderKept ==
  ASSUME Shape, \A l \in Letters : OutRow(l), \A q \in Processes : Knows(q),
         \A q \in Processes : InOrder(q), StepEffect
  PROVE  \A q \in Processes : InOrder(q)'
<1>1. ASSUME NEW p \in Processes, RestEffect(p) \/ GiveUpEffect(p)
      PROVE  \A q \in Processes : InOrder(q)'
  BY <1>1, InOrderStays, OrderStays DEF RestEffect, Drops, GiveUpEffect, Moves, OthersRest, At, T
<1>2. ASSUME NEW p \in Processes, T(p) \in Tasks, Of(T(p)) \in Letters,
         DeliverEffect(p, Of(T(p))) \/ PreflightEffect(p, T(p)) \/
         UnavailableEffect(p, T(p)) \/ CommitEffect(p, T(p), Of(T(p))) \/
         FailEffect(p, T(p)) \/ ClaimEffect(p, T(p)) \/ SweepEffect(p, T(p)) \/
         ArriveEffect(p, Of(T(p))) \/ FinishEffect(p, T(p)) \/ RetryEffect(p, T(p))
      PROVE  \A q \in Processes : InOrder(q)'
  BY <1>2, InOrderStays, OrderStays DEF DeliverEffect, Moves, PreflightEffect, RunSet,
     UnavailableEffect, CommitEffect, TaskSet, FailEffect, ClaimEffect, SweepEffect, Drops,
     ArriveEffect, FinishEffect, RetryEffect, OthersRest, At, T
<1>3. ASSUME NEW k \in Letters, SealEffect(k) \/ AskEffect(k) \/ OpenEffect(k)
      PROVE  \A q \in Processes : InOrder(q)'
  BY <1>3, InOrderStays, OrderStays DEF SealEffect, TaskSet, AskEffect, OpenEffect, At, T
<1>4. ASSUME TickEffect
      PROVE  \A q \in Processes : InOrder(q)'
  BY <1>4, InOrderStays, OrderStays DEF TickEffect, At, T
<1>5. ASSUME NEW p \in Processes, (\E t \in Tasks : FindEffect(p, t))
      PROVE  \A q \in Processes : InOrder(q)'
  <2>1. ASSUME NEW q \in Processes, q # p PROVE InOrder(q)'
    BY <1>5, <2>1, InOrderStays, OrderStays DEF FindEffect, TakesUp, OthersRest, At, T
  <2>2. PICK t \in Tasks : FindEffect(p, t)
    BY <1>5
  <2>3. T(p)' = t /\ task' = task /\ letter' = letter /\ t \in Heads(p)
    BY <2>2 DEF FindEffect, TakesUp, T, rows
  <2>4. ASSUME NEW l \in Letters, letter[l] = "in_transit", task[Out(l)].due < task[t].due
        PROVE  task[Out(l)].status = "dead_letter"
    <3>1. Out(l) \in Tasks /\ task[t].due <= Seen(p) /\ Seen(p) \in Int
          /\ task[t].due \in Int /\ task[Out(l)].due \in Int
      BY <2>3, TaskFacts, TaskFieldTypes, PassFacts, Constants DEF Heads, Candidates
    <3>2. CASE Open(Out(l))
      <4>1. Out(l) \in Candidates(p)
        BY <2>4, <3>1, <3>2 DEF Candidates
      <4> QED
        BY <2>3, <2>4, <3>1, <4>1 DEF Heads, Before
    <3>3. CASE ~Open(Out(l))
      BY <2>4, <3>3 DEF OutRow, Pending
    <3> QED
      BY <3>2, <3>3
  <2>5. InOrder(p)'
    BY <2>3, <2>4 DEF InOrder
  <2> QED
    BY <2>1, <2>5
<1> QED
  BY <1>1, <1>2, <1>3, <1>4, <1>5 DEF StepEffect, WorkEffect

\* A pass that holds a task with its token has claimed it.
LEMMA ClaimedIf ==
  ASSUME NEW q \in Processes, NEW t, NEW k, NEW s, Held(t, k, s)',
         T(q)' = t, pass'[q].token = k, pass'[q].observed = s
  PROVE  Claimed(q)'
  BY DEF Claimed, Held, Mine, T, Seen, Waiting

\* Every claim of a pass but p stands.
Stand(p) == \A t \in Tasks, k \in 0..MaxAttempts, s \in (-Horizon)..0 :
  Exists(t) /\ Held(t, k, s) /\ (Working(p) => t # T(p) \/ k # pass[p].token) => Held(t, k, s)'

\* The step of another pass does not touch a claim.
LEMMA ClaimedStays ==
  ASSUME Shape, NEW p \in Processes, NEW q \in Processes, q # p, Stand(p),
         Knows(q), Claimed(q), Apart(p, q), pass'[q] = pass[q]
  PROVE  Claimed(q)'
<1>1. CASE ~Working(q)
  BY <1>1 DEF Claimed, Working
<1>2. CASE Working(q)
  <2>1. PICK t \in Tasks, k \in 0..MaxAttempts, s \in (-Horizon)..0 :
          t = T(q) /\ k = pass[q].token /\ s = Seen(q)
    BY <1>2, PassFacts DEF Knows
  <2>2. Exists(t) /\ Held(t, k, s)
    BY <1>2, <2>1 DEF Knows, Claimed
  <2>3. Working(p) => t # T(p) \/ k # pass[p].token
    BY <1>2, <2>1 DEF Apart
  <2>4. Held(t, k, s)'
    BY <2>2, <2>3 DEF Stand
  <2> QED
    BY <2>1, <2>4, ClaimedIf DEF T, Seen
<1> QED
  BY <1>1, <1>2

\* The claims on the tasks.
LEMMA ClaimedKept ==
  ASSUME Shape, \A l \in Letters : OutRow(l) /\ BackRow(l), \A q \in Processes : Knows(q),
         \A q \in Processes : Claimed(q), \A q, r \in Processes : Apart(q, r), StepEffect
  PROVE  \A q \in Processes : Claimed(q)'
<1>1. ASSUME NEW p \in Processes, RestEffect(p)
      PROVE  \A q \in Processes : Claimed(q)'
  <2>1. Stand(p)
    BY <1>1 DEF RestEffect, Drops, rows, Stand, Held, Mine, Waiting
  <2>2. ASSUME NEW q \in Processes, q # p PROVE Claimed(q)'
    BY <1>1, <2>1, <2>2, ClaimedStays DEF RestEffect, Drops, OthersRest
  <2>3. ~Working(p)'
    BY <1>1 DEF RestEffect, Drops, Working
  <2> QED
    BY <2>2, <2>3 DEF Claimed
<1>2. ASSUME NEW p \in Processes, (\E t \in Tasks : FindEffect(p, t))
      PROVE  \A q \in Processes : Claimed(q)'
  <2>1. Stand(p)
    BY <1>2 DEF FindEffect, TakesUp, rows, Stand, Held, Mine, Waiting
  <2>2. ASSUME NEW q \in Processes, q # p PROVE Claimed(q)'
    BY <1>2, <2>1, <2>2, ClaimedStays DEF FindEffect, TakesUp, OthersRest
  <2>3. ~Working(p)'
    BY <1>2 DEF FindEffect, TakesUp, Working
  <2> QED
    BY <2>2, <2>3 DEF Claimed
<1>3. ASSUME NEW p \in Processes, GiveUpEffect(p)
      PROVE  \A q \in Processes : Claimed(q)'
  <2>1. Stand(p)
    BY <1>3 DEF GiveUpEffect, Moves, rows, Stand, Held, Mine, Waiting
  <2>2. ASSUME NEW q \in Processes, q # p PROVE Claimed(q)'
    BY <1>3, <2>1, <2>2, ClaimedStays DEF GiveUpEffect, Moves, OthersRest
  <2>3. Claimed(p)'
    <3>1. PICK t, k, s : t = T(p) /\ k = pass[p].token /\ s = Seen(p)
      OBVIOUS
    <3>2. Held(t, k, s)
      BY <1>3, <3>1 DEF GiveUpEffect, Moves, Claimed, Working, At
    <3>3. Held(t, k, s)'
      BY <1>3, <3>1, <3>2, TaskFacts DEF GiveUpEffect, Moves, rows, Held, Mine, Waiting
    <3> QED
      BY <1>3, <3>1, <3>3, ClaimedIf DEF GiveUpEffect, Moves, T, Seen
  <2> QED
    BY <2>2, <2>3
<1>4. ASSUME NEW p \in Processes, T(p) \in Tasks, Of(T(p)) \in Letters,
         DeliverEffect(p, Of(T(p))) \/ PreflightEffect(p, T(p)) \/
         UnavailableEffect(p, T(p)) \/ FailEffect(p, T(p))
      PROVE  \A q \in Processes : Claimed(q)'
  <2>1. Stand(p)
    BY <1>4 DEF DeliverEffect, Moves, PreflightEffect, RunSet, UnavailableEffect, FailEffect,
       rows, Stand, Held, Mine, Waiting
  <2>2. ASSUME NEW q \in Processes, q # p PROVE Claimed(q)'
    BY <1>4, <2>1, <2>2, ClaimedStays DEF DeliverEffect, Moves, PreflightEffect, RunSet,
       UnavailableEffect, FailEffect, OthersRest
  <2>3. Claimed(p)'
    <3>1. PICK t, k, s : t = T(p) /\ k = pass[p].token /\ s = Seen(p)
      OBVIOUS
    <3>2. Held(t, k, s)
      BY <1>4, <3>1 DEF DeliverEffect, Moves, PreflightEffect, RunSet, UnavailableEffect,
         FailEffect, Claimed, Working, At
    <3>3. Held(t, k, s)'
      BY <1>4, <3>1, <3>2, TaskFacts DEF DeliverEffect, Moves, PreflightEffect, RunSet,
         UnavailableEffect, FailEffect, rows, Held, Mine, Waiting
    <3> QED
      BY <1>4, <3>1, <3>3, ClaimedIf DEF DeliverEffect, Moves, PreflightEffect, RunSet,
         UnavailableEffect, FailEffect, T, Seen
  <2> QED
    BY <2>2, <2>3
<1>5. ASSUME NEW p \in Processes, T(p) \in Tasks, Of(T(p)) \in Letters,
         CommitEffect(p, T(p), Of(T(p)))
      PROVE  \A q \in Processes : Claimed(q)'
  <2>1. Stand(p)
    <3>1. PICK b \in Tasks : b = Back(Of(T(p))) /\ ~Exists(b)
      BY <1>5, TaskFacts DEF CommitEffect, BackRow
    <3>2. \A u \in Tasks : u # b => task'[u] = task[u]
      BY <1>5, <3>1 DEF CommitEffect, TaskSet
    <3> QED
      BY <3>1, <3>2 DEF Stand, Held, Mine, Waiting
  <2>2. ASSUME NEW q \in Processes, q # p PROVE Claimed(q)'
    BY <1>5, <2>1, <2>2, ClaimedStays DEF CommitEffect, TaskSet, RunSet, Moves, OthersRest
  <2>3. Claimed(p)'
    <3>0. PICK t \in Tasks : t = T(p)
      BY <1>5
    <3>1. PICK k, s : t = T(p) /\ k = pass[p].token /\ s = Seen(p)
      BY <3>0
    <3>2. Held(t, k, s)
      BY <1>5, <3>1 DEF CommitEffect, Claimed, Working, At
    <3>3. t # Back(Of(t))
      BY <1>5, <3>1, TaskFacts DEF CommitEffect
    <3>4. task'[t] = task[t]
      BY <1>5, <3>1, <3>3 DEF CommitEffect, TaskSet
    <3>5. Held(t, k, s)'
      BY <3>2, <3>4 DEF Held, Mine, Waiting
    <3> QED
      BY <1>5, <3>1, <3>5, ClaimedIf DEF CommitEffect, Moves, T, Seen
  <2> QED
    BY <2>2, <2>3
<1>6. ASSUME NEW p \in Processes, T(p) \in Tasks, Of(T(p)) \in Letters,
         ClaimEffect(p, T(p))
      PROVE  \A q \in Processes : Claimed(q)'
  <2>1. Stand(p)
    <3>1. PICK u \in Tasks : u = T(p)
      BY <1>6
    <3>2. Seen(p) \in Int /\ Seen(p) <= 0
      BY PassFacts, Constants
    <3>3. ASSUME NEW k \in 0..MaxAttempts, NEW s \in (-Horizon)..0, Held(u, k, s) PROVE Held(u, k, s)'
      BY <1>6, <3>1, <3>2, <3>3, TaskFieldTypes, Constants DEF ClaimEffect, TaskSet, Free, Held,
         Mine, Waiting
    <3>4. \A t \in Tasks : t # u => task'[t] = task[t]
      BY <1>6, <3>1 DEF ClaimEffect, TaskSet
    <3>5. ASSUME NEW t \in Tasks, NEW k \in 0..MaxAttempts, NEW s \in (-Horizon)..0, t # u, Held(t, k, s)
          PROVE  Held(t, k, s)'
      BY <3>4, <3>5 DEF Held, Mine, Waiting
    <3> QED
      BY <3>3, <3>5 DEF Stand
  <2>2. ASSUME NEW q \in Processes, q # p PROVE Claimed(q)'
    BY <1>6, <2>1, <2>2, ClaimedStays DEF ClaimEffect, TaskSet, OthersRest
  <2>3. Claimed(p)'
    <3>0. PICK t \in Tasks : t = T(p)
      BY <1>6
    <3>1. PICK k, s : t = T(p) /\ k = task[t].attempt + 1 /\ s = Seen(p)
      BY <3>0
    <3>2. Held(t, k, s)'
      BY <1>6, <3>1, TaskFieldTypes, PassFacts, Constants DEF ClaimEffect, TaskSet, Held, Mine,
         Waiting
    <3> QED
      BY <1>6, <3>1, <3>2, ClaimedIf DEF ClaimEffect, T, Seen
  <2> QED
    BY <2>2, <2>3
<1>7. ASSUME NEW p \in Processes, T(p) \in Tasks, Of(T(p)) \in Letters,
         SweepEffect(p, T(p))
      PROVE  \A q \in Processes : Claimed(q)'
  <2>1. Stand(p)
    <3>1. PICK u \in Tasks : u = T(p)
      BY <1>7
    <3>2. Seen(p) \in Int /\ Seen(p) <= 0
      BY PassFacts, Constants
    <3>3. ASSUME NEW k \in 0..MaxAttempts, NEW s \in (-Horizon)..0, Held(u, k, s) PROVE Held(u, k, s)'
      BY <1>7, <3>1, <3>2, <3>3, TaskFieldTypes, Constants DEF SweepEffect, TaskSet, Free, Held,
         Mine, Waiting
    <3>4. \A t \in Tasks : t # u => task'[t] = task[t]
      BY <1>7, <3>1 DEF SweepEffect, TaskSet
    <3>5. ASSUME NEW t \in Tasks, NEW k \in 0..MaxAttempts, NEW s \in (-Horizon)..0, t # u, Held(t, k, s)
          PROVE  Held(t, k, s)'
      BY <3>4, <3>5 DEF Held, Mine, Waiting
    <3> QED
      BY <3>3, <3>5 DEF Stand
  <2>2. ASSUME NEW q \in Processes, q # p PROVE Claimed(q)'
    BY <1>7, <2>1, <2>2, ClaimedStays DEF SweepEffect, TaskSet, Drops, OthersRest
  <2>3. ~Working(p)'
    BY <1>7 DEF SweepEffect, TaskSet, Drops, Working
  <2> QED
    BY <2>2, <2>3 DEF Claimed
<1>8. ASSUME NEW p \in Processes, T(p) \in Tasks, Of(T(p)) \in Letters,
         ArriveEffect(p, Of(T(p)))
      PROVE  \A q \in Processes : Claimed(q)'
  <2>1. Stand(p)
    <3>1. PICK u \in Tasks, g \in Tasks : u = T(p) /\ g = Gen(Of(u), 0) /\ u = Out(Of(u))
      BY <1>8, TaskFacts, Constants DEF ArriveEffect
    <3>2. \A t \in Tasks : t # u /\ Exists(t) => task'[t] = task[t]
      BY <1>8, <3>1 DEF ArriveEffect
    <3>3. /\ Mine(u, pass[p].token) \/ task[u].status = "completed"
          /\ task'[u].status = "completed" /\ task'[u].attempt = task[u].attempt
      BY <1>8, <3>1 DEF ArriveEffect, Owns, Mine
    <3>4. ASSUME NEW k \in 0..MaxAttempts, NEW s \in (-Horizon)..0, k # pass[p].token, Held(u, k, s)
          PROVE  Held(u, k, s)'
      BY <3>3, <3>4 DEF Held, Mine, Waiting
    <3>5. ASSUME NEW t \in Tasks, NEW k \in 0..MaxAttempts, NEW s \in (-Horizon)..0, t # u, Exists(t),
                 Held(t, k, s)
          PROVE  Held(t, k, s)'
      BY <3>2, <3>5 DEF Held, Mine, Waiting
    <3>6. Working(p)
      BY <1>8 DEF ArriveEffect, Working, At
    <3> QED
      BY <3>1, <3>4, <3>5, <3>6 DEF Stand
  <2>2. ASSUME NEW q \in Processes, q # p PROVE Claimed(q)'
    BY <1>8, <2>1, <2>2, ClaimedStays DEF ArriveEffect, Drops, OthersRest
  <2>3. ~Working(p)'
    BY <1>8 DEF ArriveEffect, Drops, Working
  <2> QED
    BY <2>2, <2>3 DEF Claimed
<1>9. ASSUME NEW p \in Processes, T(p) \in Tasks, Of(T(p)) \in Letters,
         FinishEffect(p, T(p))
      PROVE  \A q \in Processes : Claimed(q)'
  <2>1. Stand(p)
    <3>1. PICK u \in Tasks : u = T(p)
      BY <1>9
    <3>2. \A t \in Tasks : t # u => task'[t] = task[t]
      BY <1>9, <3>1 DEF FinishEffect, TaskSet
    <3>3. \/ task' = task
          \/ /\ Mine(u, pass[p].token) \/ task[u].status = "completed"
             /\ task'[u].status = "completed" /\ task'[u].attempt = task[u].attempt
      BY <1>9, <3>1 DEF FinishEffect, TaskSet, Owns, Mine
    <3>4. ASSUME NEW k \in 0..MaxAttempts, NEW s \in (-Horizon)..0, k # pass[p].token, Held(u, k, s)
          PROVE  Held(u, k, s)'
      BY <3>3, <3>4 DEF Held, Mine, Waiting
    <3>5. ASSUME NEW t \in Tasks, NEW k \in 0..MaxAttempts, NEW s \in (-Horizon)..0, t # u, Held(t, k, s)
          PROVE  Held(t, k, s)'
      BY <3>2, <3>5 DEF Held, Mine, Waiting
    <3>6. Working(p)
      BY <1>9 DEF FinishEffect, Working, At
    <3> QED
      BY <3>1, <3>4, <3>5, <3>6 DEF Stand
  <2>2. ASSUME NEW q \in Processes, q # p PROVE Claimed(q)'
    BY <1>9, <2>1, <2>2, ClaimedStays DEF FinishEffect, TaskSet, Drops, OthersRest
  <2>3. ~Working(p)'
    BY <1>9 DEF FinishEffect, TaskSet, Drops, Working
  <2> QED
    BY <2>2, <2>3 DEF Claimed
<1>10. ASSUME NEW p \in Processes, T(p) \in Tasks, Of(T(p)) \in Letters,
         RetryEffect(p, T(p))
      PROVE  \A q \in Processes : Claimed(q)'
  <2>1. Stand(p)
    <3>1. PICK u \in Tasks : u = T(p)
      BY <1>10
    <3>2. \A t \in Tasks : t # u => task'[t] = task[t]
      BY <1>10, <3>1 DEF RetryEffect, TaskSet
    <3>3. \/ task' = task
          \/ /\ Mine(u, pass[p].token) /\ task'[u].status \in {"dead_letter", "retryable"}
             /\ task'[u].attempt = task[u].attempt /\ task'[u].due \in Int
             /\ task'[u].status = "retryable" /\ Kind(u) = "generation" => task'[u].due >= Seen(p)
      BY <1>10, <3>1 DEF RetryEffect, TaskSet, Owns, Mine
    <3>4. ASSUME NEW k \in 0..MaxAttempts, NEW s \in (-Horizon)..0, k # pass[p].token, Held(u, k, s)
          PROVE  Held(u, k, s)'
      <4>1. Held(u, pass[p].token, Seen(p))
        BY <1>10, <3>1 DEF RetryEffect, Claimed, Working, At
      <4>2. Mine(u, pass[p].token) => task[u].lease = Seen(p) + Lease /\ ~Mine(u, k)
        BY <3>4, <4>1 DEF Held, Mine
      <4> QED
        BY <3>3, <3>4, <4>2, PassFacts, Constants DEF Held, Mine, Waiting
    <3>5. ASSUME NEW t \in Tasks, NEW k \in 0..MaxAttempts, NEW s \in (-Horizon)..0, t # u, Held(t, k, s)
          PROVE  Held(t, k, s)'
      BY <3>2, <3>5 DEF Held, Mine, Waiting
    <3>6. Working(p)
      BY <1>10 DEF RetryEffect, Working, At
    <3> QED
      BY <3>1, <3>4, <3>5, <3>6 DEF Stand
  <2>2. ASSUME NEW q \in Processes, q # p PROVE Claimed(q)'
    BY <1>10, <2>1, <2>2, ClaimedStays DEF RetryEffect, TaskSet, Drops, OthersRest
  <2>3. ~Working(p)'
    BY <1>10 DEF RetryEffect, TaskSet, Drops, Working
  <2> QED
    BY <2>2, <2>3 DEF Claimed
<1>11. ASSUME NEW l \in Letters, SealEffect(l)
      PROVE  \A q \in Processes : Claimed(q)'
  <2>1. \A t \in Tasks : Exists(t) => task'[t] = task[t]
    BY <1>11, TaskFacts DEF SealEffect, TaskSet, rows, OutRow, Exists
  <2>2. ASSUME NEW q \in Processes PROVE Claimed(q)'
    <3>1. CASE ~Working(q)
      BY <1>11, <3>1 DEF SealEffect, TaskSet, Claimed, Working
    <3>2. CASE Working(q)
      <4>0. PICK t \in Tasks : t = T(q)
        BY <3>2 DEF Knows
      <4>1. PICK k, s : t = T(q) /\ k = pass[q].token /\ s = Seen(q)
        BY <4>0
      <4>2. Held(t, k, s) /\ task'[t] = task[t]
        BY <2>1, <3>2, <4>1 DEF Knows, Claimed
      <4>3. Held(t, k, s)'
        BY <4>2 DEF Held, Mine, Waiting
      <4> QED
        BY <1>11, <4>1, <4>3, ClaimedIf DEF SealEffect, TaskSet, T, Seen
    <3> QED
      BY <3>1, <3>2
  <2> QED
    BY <2>2
<1>12. ASSUME NEW l \in Letters, AskEffect(l)
      PROVE  \A q \in Processes : Claimed(q)'
  <2>1. \A t \in Tasks : Exists(t) => task'[t] = task[t]
    BY <1>12, TaskFacts DEF AskEffect, TaskSet, rows, OutRow, Exists
  <2>2. ASSUME NEW q \in Processes PROVE Claimed(q)'
    <3>1. CASE ~Working(q)
      BY <1>12, <3>1 DEF AskEffect, TaskSet, Claimed, Working
    <3>2. CASE Working(q)
      <4>0. PICK t \in Tasks : t = T(q)
        BY <3>2 DEF Knows
      <4>1. PICK k, s : t = T(q) /\ k = pass[q].token /\ s = Seen(q)
        BY <4>0
      <4>2. Held(t, k, s) /\ task'[t] = task[t]
        BY <2>1, <3>2, <4>1 DEF Knows, Claimed
      <4>3. Held(t, k, s)'
        BY <4>2 DEF Held, Mine, Waiting
      <4> QED
        BY <1>12, <4>1, <4>3, ClaimedIf DEF AskEffect, TaskSet, T, Seen
    <3> QED
      BY <3>1, <3>2
  <2> QED
    BY <2>2
<1>13. ASSUME NEW l \in Letters, OpenEffect(l)
      PROVE  \A q \in Processes : Claimed(q)'
  <2>1. \A t \in Tasks : Exists(t) => task'[t] = task[t]
    BY <1>13, TaskFacts DEF OpenEffect, rows, OutRow, Exists
  <2>2. ASSUME NEW q \in Processes PROVE Claimed(q)'
    <3>1. CASE ~Working(q)
      BY <1>13, <3>1 DEF OpenEffect, Claimed, Working
    <3>2. CASE Working(q)
      <4>0. PICK t \in Tasks : t = T(q)
        BY <3>2 DEF Knows
      <4>1. PICK k, s : t = T(q) /\ k = pass[q].token /\ s = Seen(q)
        BY <4>0
      <4>2. Held(t, k, s) /\ task'[t] = task[t]
        BY <2>1, <3>2, <4>1 DEF Knows, Claimed
      <4>3. Held(t, k, s)'
        BY <4>2 DEF Held, Mine, Waiting
      <4> QED
        BY <1>13, <4>1, <4>3, ClaimedIf DEF OpenEffect, T, Seen
    <3> QED
      BY <3>1, <3>2
  <2> QED
    BY <2>2
<1>14. ASSUME TickEffect
      PROVE  \A q \in Processes : Claimed(q)'
  <2>1. ASSUME NEW q \in Processes PROVE Claimed(q)'
    <3>1. CASE ~Working(q)
      BY <1>14, <3>1 DEF TickEffect, Claimed, Working
    <3>2. CASE Working(q)
      <4>1. PICK t \in Tasks, k \in 0..MaxAttempts, s \in (-Horizon)..0 :
              t = T(q) /\ k = pass[q].token /\ s = Seen(q)
        BY <3>2, PassFacts DEF Knows
      <4>2. Held(t, k, s) /\ Exists(t) /\ ~At(q, "idle")
        BY <3>2, <4>1 DEF Knows, Claimed, Working, At
      <4>3. s > -Horizon /\ pass'[q].observed = s - 1 /\ pass'[q].token = k /\ T(q)' = t
        BY <1>14, <4>1, <4>2 DEF TickEffect, T
      <4>4. /\ task'[t].status = task[t].status /\ task'[t].attempt = task[t].attempt
            /\ Waiting(t) => task'[t].due = Older(task[t].due)
            /\ task[t].status = "claimed" => task'[t].lease = Older(task[t].lease)
        BY <1>14 DEF TickEffect, Ages, Open
      <4>5. Held(t, k, s - 1)'
        BY <4>2, <4>3, <4>4, TaskFieldTypes, Constants DEF Held, Mine, Waiting, Older
      <4> QED
        BY <4>3, <4>5, ClaimedIf DEF T, Seen
    <3> QED
      BY <3>1, <3>2
  <2> QED
    BY <2>1
<1> QED
  BY <1>1, <1>2, <1>3, <1>4, <1>5, <1>6, <1>7, <1>8, <1>9, <1>10, <1>11, <1>12, <1>13, <1>14
     DEF StepEffect, WorkEffect

\* No two passes hold the same claim.
LEMMA ApartKept ==
  ASSUME Shape, \A q \in Processes : Claimed(q), \A q, r \in Processes : Apart(q, r), StepEffect
  PROVE  \A q, r \in Processes : Apart(q, r)'
<1>1. ASSUME NEW p \in Processes, RestEffect(p) \/ (\E t \in Tasks : FindEffect(p, t)) \/ GiveUpEffect(p)
      PROVE  \A q, r \in Processes : Apart(q, r)'
  BY <1>1 DEF RestEffect, Drops, FindEffect, TakesUp, GiveUpEffect, Moves, OthersRest, Apart,
     Working, At, T
<1>2. ASSUME NEW p \in Processes, T(p) \in Tasks, Of(T(p)) \in Letters,
         DeliverEffect(p, Of(T(p))) \/ PreflightEffect(p, T(p)) \/
         UnavailableEffect(p, T(p)) \/ CommitEffect(p, T(p), Of(T(p))) \/
         FailEffect(p, T(p))
      PROVE  \A q, r \in Processes : Apart(q, r)'
  <2>1. Working(p) /\ OthersRest(p) /\ pass'[p].token = pass[p].token /\ pass'[p].task = pass[p].task
    BY <1>2 DEF DeliverEffect, Moves, PreflightEffect, RunSet, UnavailableEffect, CommitEffect,
       TaskSet, FailEffect, Working, At, T
  <2>2. \A q \in Processes : /\ Working(q)' => Working(q)
                             /\ T(q)' = T(q) /\ pass'[q].token = pass[q].token
    BY <2>1 DEF OthersRest, Working, T
  <2> QED
    BY <2>2 DEF Apart
<1>3. ASSUME NEW p \in Processes, T(p) \in Tasks, Of(T(p)) \in Letters,
         SweepEffect(p, T(p)) \/ ArriveEffect(p, Of(T(p))) \/ FinishEffect(p, T(p)) \/
         RetryEffect(p, T(p))
      PROVE  \A q, r \in Processes : Apart(q, r)'
  <2>1. OthersRest(p) /\ ~Working(p)'
    BY <1>3 DEF SweepEffect, TaskSet, Drops, ArriveEffect, FinishEffect, RetryEffect, Working
  <2>2. \A q \in Processes : Working(q)' => /\ Working(q)
                                            /\ T(q)' = T(q) /\ pass'[q].token = pass[q].token
    BY <2>1 DEF OthersRest, Working, T
  <2> QED
    BY <2>2 DEF Apart
<1>4. ASSUME NEW p \in Processes, T(p) \in Tasks, Of(T(p)) \in Letters,
         ClaimEffect(p, T(p))
      PROVE  \A q, r \in Processes : Apart(q, r)'
  <2>1. \A q \in Processes : Working(q) /\ T(q) = T(p) => pass[q].token # task[T(p)].attempt + 1
    BY <1>4, TaskFieldTypes DEF Claimed, Held
  <2> QED
    BY <1>4, <2>1 DEF ClaimEffect, OthersRest, Apart, Working, At, T
<1>5. ASSUME NEW l \in Letters, SealEffect(l) \/ AskEffect(l) \/ OpenEffect(l)
      PROVE  \A q, r \in Processes : Apart(q, r)'
  BY <1>5 DEF SealEffect, TaskSet, AskEffect, OpenEffect, Apart, Working, At, T
<1>6. ASSUME TickEffect
      PROVE  \A q, r \in Processes : Apart(q, r)'
  BY <1>6 DEF TickEffect, Apart, Working, At, T
<1> QED
  BY <1>1, <1>2, <1>3, <1>4, <1>5, <1>6 DEF StepEffect, WorkEffect

\* A pass composes while the run of its task is its own.
LEMMA ComposesIf ==
  ASSUME NEW q \in Processes, NEW t, NEW k, T(q)' = t, pass'[q].token = k, Kind(t) = "generation",
         At(q, "compose")' /\ Mine(t, k)' => Runs(Of(t), Epoch(t), k)',
         (At(q, "work") \/ At(q, "finish") \/ At(q, "retry"))' => ~Runs(Of(t), Epoch(t), k)'
  PROVE  Composes(q)'
  BY DEF Composes, Owns, Current, Mine, Runs, RunOf, RunId

\* The runs of every pass but p stand as long as their claims do.
Keeps(p) == \A l \in Letters, e \in Epochs, k \in 0..MaxAttempts, s \in (-Horizon)..0 :
  /\ Exists(Gen(l, e)) /\ Held(Gen(l, e), k, s)
  /\ Working(p) => Gen(l, e) # T(p) \/ k # pass[p].token
  => /\ Mine(Gen(l, e), k)' => Mine(Gen(l, e), k)
     /\ Runs(l, e, k)' => Runs(l, e, k)
     /\ Mine(Gen(l, e), k)' /\ Runs(l, e, k) => Runs(l, e, k)'

\* The step of another pass does not touch a composition.
LEMMA ComposesStays ==
  ASSUME Shape, NEW p \in Processes, NEW q \in Processes, q # p, Keeps(p),
         Knows(q), Claimed(q), Apart(p, q), Composes(q), pass'[q] = pass[q]
  PROVE  Composes(q)'
<1>1. CASE ~(Working(q) /\ Kind(T(q)) = "generation")
  <2>1. ~At(q, "compose")
    BY <1>1 DEF Knows, Working, At
  <2>2. At(q, "work") \/ At(q, "finish") \/ At(q, "retry") => Kind(T(q)) # "generation"
    BY <1>1 DEF Working, At
  <2> QED
    BY <2>1, <2>2 DEF Composes, At, T
<1>2. CASE Working(q) /\ Kind(T(q)) = "generation"
  <2>1. PICK l \in Letters, e \in Epochs, k \in 0..MaxAttempts, s \in (-Horizon)..0 :
          /\ T(q) = Gen(l, e) /\ k = pass[q].token /\ s = Seen(q)
          /\ RunId(T(q)) = <<l, e>>
    BY <1>2, PassFacts, TaskFacts DEF Knows, RunId
  <2>2. Exists(Gen(l, e)) /\ Held(Gen(l, e), k, s)
    BY <1>2, <2>1 DEF Knows, Claimed
  <2>3. Working(p) => Gen(l, e) # T(p) \/ k # pass[p].token
    BY <1>2, <2>1 DEF Apart
  <2>4. /\ Mine(Gen(l, e), k)' => Mine(Gen(l, e), k)
        /\ Runs(l, e, k)' => Runs(l, e, k)
        /\ Mine(Gen(l, e), k)' /\ Runs(l, e, k) => Runs(l, e, k)'
    BY <2>2, <2>3 DEF Keeps
  <2>5. /\ At(q, "compose") /\ Mine(Gen(l, e), k) => Runs(l, e, k)
        /\ At(q, "work") \/ At(q, "finish") \/ At(q, "retry") => ~Runs(l, e, k)
    BY <1>2, <2>1 DEF Composes, Owns, Current, Mine, Runs, RunOf
  <2>6. T(q)' = Gen(l, e) /\ pass'[q].token = k /\ \A x : At(q, x)' <=> At(q, x)
    BY <2>1 DEF T, At
  <2>7. Kind(Gen(l, e)) = "generation" /\ Of(Gen(l, e)) = l /\ Epoch(Gen(l, e)) = e
    BY TaskFacts
  <2> QED
    BY <2>4, <2>5, <2>6, <2>7, ComposesIf
<1> QED
  BY <1>1, <1>2

\* A pass composes only with a run of its own.
LEMMA ComposesKept ==
  ASSUME Shape, \A l \in Letters : OutRow(l) /\ GenRow(l) /\ AnswerRow(l) /\ BackRow(l) /\ Chain(l),
         \A q \in Processes : Knows(q), \A q \in Processes : Claimed(q),
         \A q, r \in Processes : Apart(q, r), \A q \in Processes : Composes(q),
         \A l \in Letters, e \in Epochs : RunHeld(l, e), StepEffect
  PROVE  \A q \in Processes : Composes(q)'
<1>1. ASSUME NEW p \in Processes, RestEffect(p)
      PROVE  \A q \in Processes : Composes(q)'
  <2>1. Keeps(p)
    BY <1>1, TaskFacts DEF RestEffect, Drops, rows, Keeps, Mine, Runs, Owns, Free, Waiting,
       Exists, Held, BackRow
  <2>2. ASSUME NEW q \in Processes, q # p PROVE Composes(q)'
    BY <1>1, <2>1, <2>2, ComposesStays DEF RestEffect, Drops, OthersRest
  <2>3. Composes(p)'
    BY <1>1 DEF RestEffect, Drops, Composes, At
  <2> QED
    BY <2>2, <2>3
<1>2. ASSUME NEW p \in Processes, (\E t \in Tasks : FindEffect(p, t))
      PROVE  \A q \in Processes : Composes(q)'
  <2>1. Keeps(p)
    BY <1>2, TaskFacts DEF FindEffect, TakesUp, rows, Keeps, Mine, Runs, Owns, Free, Waiting,
       Exists, Held, BackRow
  <2>2. ASSUME NEW q \in Processes, q # p PROVE Composes(q)'
    BY <1>2, <2>1, <2>2, ComposesStays DEF FindEffect, TakesUp, OthersRest
  <2>3. Composes(p)'
    BY <1>2 DEF FindEffect, TakesUp, Composes, At
  <2> QED
    BY <2>2, <2>3
<1>3. ASSUME NEW p \in Processes, GiveUpEffect(p)
      PROVE  \A q \in Processes : Composes(q)'
  <2>1. Keeps(p)
    BY <1>3, TaskFacts DEF GiveUpEffect, Moves, rows, Keeps, Mine, Runs, Owns, Free, Waiting,
       Exists, Held, BackRow
  <2>2. ASSUME NEW q \in Processes, q # p PROVE Composes(q)'
    BY <1>3, <2>1, <2>2, ComposesStays DEF GiveUpEffect, Moves, OthersRest
  <2>3. Composes(p)'
    <3>0. PICK t \in Tasks : t = T(p)
      BY <1>3 DEF GiveUpEffect, Knows, Working, At
    <3>1. PICK k : t = T(p) /\ k = pass[p].token
      BY <3>0
    <3>2. T(p)' = t /\ pass'[p].token = k
      BY <1>3, <3>1 DEF GiveUpEffect, Moves, T
    <3>3. CASE Kind(t) # "generation"
      BY <1>3, <3>1, <3>2, <3>3 DEF GiveUpEffect, Moves, Composes, At
    <3>4. CASE Kind(t) = "generation"
      <4>1. PICK m \in Letters, f \in Epochs : t = Gen(m, f) /\ Of(t) = m /\ Epoch(t) = f /\ RunId(t) = <<m, f>>
        BY <3>4, TaskFacts DEF RunId
      <4>2. ~Runs(m, f, k)' /\ ~At(p, "compose")'
        BY <1>3, <3>1, <3>4, <4>1 DEF GiveUpEffect, Moves, Composes, Current, RunOf, Runs, At
      <4> QED
        BY <3>2, <3>4, <4>1, <4>2, ComposesIf
    <3> QED
      BY <3>3, <3>4
  <2> QED
    BY <2>2, <2>3
<1>4. ASSUME NEW p \in Processes, T(p) \in Tasks, Of(T(p)) \in Letters,
         FinishEffect(p, T(p)) \/ RetryEffect(p, T(p))
      PROVE  \A q \in Processes : Composes(q)'
  <2>1. Keeps(p)
    BY <1>4, TaskFacts DEF FinishEffect, TaskSet, Drops, RetryEffect, rows, Keeps, Mine, Runs,
       Owns, Free, Waiting, Exists, Held, BackRow
  <2>2. ASSUME NEW q \in Processes, q # p PROVE Composes(q)'
    BY <1>4, <2>1, <2>2, ComposesStays DEF FinishEffect, TaskSet, Drops, RetryEffect, OthersRest
  <2>3. Composes(p)'
    BY <1>4 DEF FinishEffect, TaskSet, Drops, RetryEffect, Composes, At
  <2> QED
    BY <2>2, <2>3
<1>5. ASSUME NEW p \in Processes, T(p) \in Tasks, Of(T(p)) \in Letters,
         ArriveEffect(p, Of(T(p)))
      PROVE  \A q \in Processes : Composes(q)'
  <2>1. Keeps(p)
    BY <1>5, TaskFacts, Constants DEF ArriveEffect, Drops, rows, Keeps, Mine, Runs, Owns, Free,
       Waiting, Exists, Held, BackRow
  <2>2. ASSUME NEW q \in Processes, q # p PROVE Composes(q)'
    BY <1>5, <2>1, <2>2, ComposesStays DEF ArriveEffect, Drops, OthersRest
  <2>3. Composes(p)'
    BY <1>5 DEF ArriveEffect, Drops, Composes, At
  <2> QED
    BY <2>2, <2>3
<1>6. ASSUME NEW p \in Processes, T(p) \in Tasks, Of(T(p)) \in Letters,
         ClaimEffect(p, T(p))
      PROVE  \A q \in Processes : Composes(q)'
  <2>1. Keeps(p)
    <3>1. SUFFICES ASSUME NEW l \in Letters, NEW e \in Epochs, NEW k \in 0..MaxAttempts,
                          NEW s \in (-Horizon)..0, Held(Gen(l, e), k, s)
                   PROVE  Mine(Gen(l, e), k)' => Mine(Gen(l, e), k)
      BY <1>6 DEF Keeps, ClaimEffect, Runs
    <3>2. PICK u \in Tasks : u = T(p)
      BY <1>6
    <3>3. /\ \A w \in Tasks : w # u => task'[w] = task[w]
          /\ task'[u].attempt = task[u].attempt + 1 /\ task[u].attempt \in Nat
      BY <1>6, <3>2, TaskFieldTypes, Constants DEF ClaimEffect, TaskSet
    <3>4. CASE Gen(l, e) # u
      BY <3>3, <3>4, TaskFacts DEF Mine
    <3>5. CASE Gen(l, e) = u
      BY <3>1, <3>3, <3>5 DEF Held, Mine
    <3> QED
      BY <3>4, <3>5
  <2>2. ASSUME NEW q \in Processes, q # p PROVE Composes(q)'
    BY <1>6, <2>1, <2>2, ComposesStays DEF ClaimEffect, TaskSet, OthersRest
  <2>3. Composes(p)'
    <3>0. PICK t \in Tasks : t = T(p)
      BY <1>6
    <3>1. PICK k : t = T(p) /\ k = task[T(p)].attempt + 1
      BY <3>0
    <3>2. T(p)' = t /\ pass'[p].token = k
      BY <1>6, <3>1 DEF ClaimEffect, TaskSet, T
    <3>3. CASE Kind(t) # "generation"
      BY <1>6, <3>1, <3>2, <3>3 DEF ClaimEffect, TaskSet, Composes, At
    <3>4. CASE Kind(t) = "generation"
      <4>1. PICK m \in Letters, f \in Epochs : t = Gen(m, f) /\ Of(t) = m /\ Epoch(t) = f /\ RunId(t) = <<m, f>>
        BY <3>4, TaskFacts DEF RunId
      <4>2. ~Runs(m, f, k)' /\ ~At(p, "compose")'
        <5>1. RunHeld(m, f) /\ task[t].attempt \in 0..MaxAttempts
          BY TaskFieldTypes
        <5>2. ~Runs(m, f, k)
          BY <3>1, <4>1, <5>1, Constants DEF RunHeld, Runs
        <5> QED
          BY <1>6, <5>2 DEF ClaimEffect, Runs, At
      <4> QED
        BY <3>2, <3>4, <4>1, <4>2, ComposesIf
    <3> QED
      BY <3>3, <3>4
  <2> QED
    BY <2>2, <2>3
<1>7. ASSUME NEW p \in Processes, T(p) \in Tasks, Of(T(p)) \in Letters,
         SweepEffect(p, T(p))
      PROVE  \A q \in Processes : Composes(q)'
  <2>1. Keeps(p)
    <3>1. SUFFICES ASSUME NEW l \in Letters, NEW e \in Epochs, NEW k \in 0..MaxAttempts,
                          Exists(Gen(l, e))
                   PROVE  /\ Mine(Gen(l, e), k)' => Mine(Gen(l, e), k)
                          /\ Runs(l, e, k)' => Runs(l, e, k)
                          /\ Mine(Gen(l, e), k)' /\ Runs(l, e, k) => Runs(l, e, k)'
      BY DEF Keeps
    <3>2. PICK u \in Tasks : u = T(p)
      BY <1>7
    <3>3. /\ task'[u].status = "dead_letter" /\ \A w \in Tasks : w # u => task'[w] = task[w]
          /\ task[u].status # "dead_letter"
      BY <1>7, <3>2 DEF SweepEffect, TaskSet, Free, Waiting
    <3>4. Mine(Gen(l, e), k)' => Mine(Gen(l, e), k) /\ Gen(l, e) # u
      BY <3>3, TaskFacts DEF Mine
    <3>5. run'[<<l, e>>] = run[<<l, e>>] \/ (Kind(u) = "generation" /\ l = Of(u) /\ run'[<<l, e>>].status = "failed")
      <4>1. <<l, e>> \in Letters \X Epochs /\ <<l, e>>[1] = l
        BY PairFacts
      <4> QED
        BY <1>7, <3>2, <4>1 DEF SweepEffect
    <3>6. ASSUME Mine(Gen(l, e), k)', Kind(u) = "generation", l = Of(u) PROVE FALSE
      <4>1. PICK f \in Epochs : u = Gen(l, f)
        BY <3>6, TaskFacts
      <4>2. Exists(u)
        BY <1>7, <3>2 DEF SweepEffect, Free, Waiting, Exists
      <4>3. e # f /\ task[Gen(l, e)].status = "claimed"
        BY <3>4, <3>6, <4>1 DEF Mine
      <4>4. e < f \/ f < e
        BY <4>3, Constants DEF Epochs
      <4> QED
        BY <3>1, <3>3, <4>1, <4>2, <4>3, <4>4 DEF Chain, Failed
    <3>7. Runs(l, e, k)' => Runs(l, e, k)
      BY <3>5 DEF Runs
    <3>8. Mine(Gen(l, e), k)' /\ Runs(l, e, k) => Runs(l, e, k)'
      BY <3>5, <3>6 DEF Runs
    <3> QED
      BY <3>4, <3>7, <3>8
  <2>2. ASSUME NEW q \in Processes, q # p PROVE Composes(q)'
    BY <1>7, <2>1, <2>2, ComposesStays DEF SweepEffect, TaskSet, Drops, OthersRest
  <2>3. Composes(p)'
    BY <1>7 DEF SweepEffect, TaskSet, Drops, Composes, At
  <2> QED
    BY <2>2, <2>3
<1>8. ASSUME NEW p \in Processes, T(p) \in Tasks, Of(T(p)) \in Letters,
         DeliverEffect(p, Of(T(p)))
      PROVE  \A q \in Processes : Composes(q)'
  <2>1. Keeps(p)
    BY <1>8, TaskFacts DEF DeliverEffect, Moves, rows, Keeps, Mine, Runs, Owns, Free, Waiting,
       Exists, Held, BackRow
  <2>2. ASSUME NEW q \in Processes, q # p PROVE Composes(q)'
    BY <1>8, <2>1, <2>2, ComposesStays DEF DeliverEffect, Moves, OthersRest
  <2>3. Composes(p)'
    BY <1>8 DEF DeliverEffect, Moves, Composes, At, T
  <2> QED
    BY <2>2, <2>3
<1>9. ASSUME NEW p \in Processes, T(p) \in Tasks, Of(T(p)) \in Letters,
         PreflightEffect(p, T(p))
      PROVE  \A q \in Processes : Composes(q)'
  <2>0. PICK m \in Letters, f \in Epochs : T(p) = Gen(m, f) /\ RunId(T(p)) = <<m, f>>
    BY <1>9, TaskFacts DEF PreflightEffect, RunSet, Moves, RunId
  <2>10. Held(Gen(m, f), pass[p].token, Seen(p)) /\ Working(p) /\ RunHeld(m, f)
    BY <1>9, <2>0 DEF PreflightEffect, RunSet, Moves, Claimed, Working, At
  <2>1. Keeps(p)
    <3>1. SUFFICES ASSUME NEW l \in Letters, NEW e \in Epochs, NEW k \in 0..MaxAttempts,
                          NEW s \in (-Horizon)..0, Exists(Gen(l, e)), Held(Gen(l, e), k, s),
                          Gen(l, e) # T(p) \/ k # pass[p].token
                   PROVE  /\ Mine(Gen(l, e), k)' => Mine(Gen(l, e), k)
                          /\ Runs(l, e, k)' => Runs(l, e, k)
                          /\ Mine(Gen(l, e), k)' /\ Runs(l, e, k) => Runs(l, e, k)'
      BY <2>10 DEF Keeps
    <3>2. Mine(Gen(l, e), k)' <=> Mine(Gen(l, e), k)
      BY <1>9, TaskFacts, <3>1 DEF PreflightEffect, RunSet, Moves, Mine, Exists, BackRow
    <3>3. CASE l # m \/ e # f
      <4>1. run'[<<l, e>>] = run[<<l, e>>]
        BY <1>9, <2>0, <3>3, PairFacts DEF PreflightEffect, RunSet, Moves
      <4> QED
        BY <3>2, <4>1 DEF Runs
    <3>4. CASE l = m /\ e = f
      <4>1. k # pass[p].token
        BY <2>0, <3>1, <3>4
      <4>2. ~Runs(l, e, k)'
        BY <1>9, <2>0, <3>4, <4>1, PairFacts DEF PreflightEffect, RunSet, Moves, Runs
      <4>3. ASSUME Mine(Gen(l, e), k), Runs(l, e, k) PROVE FALSE
        <5>1. ~Mine(Gen(l, e), pass[p].token)
          BY <4>1, <4>3 DEF Mine
        <5>2. Seen(p) + Lease <= task[Gen(l, e)].lease - Lease /\ task[Gen(l, e)].status = "claimed"
          BY <2>10, <3>4, <4>3, <5>1, TaskFacts DEF Held, Mine
        <5>3. run[<<l, e>>].lease = task[Gen(l, e)].lease
          BY <2>10, <3>4, <4>3 DEF RunHeld, Runs
        <5>4. run[<<l, e>>].lease <= Seen(p)
          BY <1>9, <2>0, <3>4, <4>3 DEF PreflightEffect, RunSet, Moves, Takes, Spent, RunOf, Runs
        <5> QED
          BY <5>2, <5>3, <5>4, PassFacts, TaskFacts, TaskFieldTypes, Constants
      <4> QED
        BY <3>2, <4>2, <4>3
    <3> QED
      BY <3>3, <3>4
  <2>2. ASSUME NEW q \in Processes, q # p PROVE Composes(q)'
    BY <1>9, <2>1, <2>2, ComposesStays DEF PreflightEffect, RunSet, Moves, OthersRest
  <2>3. Composes(p)'
    <3>0. PICK t \in Tasks : t = T(p)
      BY <1>9
    <3>1. PICK k : t = T(p) /\ k = pass[p].token
      BY <3>0
    <3>2. T(p)' = t /\ pass'[p].token = k
      BY <1>9, <3>1 DEF PreflightEffect, RunSet, Moves, T
    <3>3. CASE Kind(t) # "generation"
      BY <1>9, <3>1, <3>2, <3>3 DEF PreflightEffect, RunSet, Moves, Composes, At
    <3>4. CASE Kind(t) = "generation"
      <4>1. PICK n \in Letters, g \in Epochs : t = Gen(n, g) /\ Of(t) = n /\ Epoch(t) = g /\ RunId(t) = <<n, g>>
        BY <3>4, TaskFacts DEF RunId
      <4>2. Runs(n, g, k)' /\ ~At(p, "work")' /\ ~At(p, "finish")' /\ ~At(p, "retry")'
        BY <1>9, <3>1, <4>1, PairFacts DEF PreflightEffect, RunSet, Moves, Runs, At
      <4> QED
        BY <3>2, <3>4, <4>1, <4>2, ComposesIf
    <3> QED
      BY <3>3, <3>4
  <2> QED
    BY <2>2, <2>3
<1>10. ASSUME NEW p \in Processes, T(p) \in Tasks, Of(T(p)) \in Letters,
         UnavailableEffect(p, T(p))
      PROVE  \A q \in Processes : Composes(q)'
  <2>0. PICK m \in Letters, f \in Epochs : T(p) = Gen(m, f) /\ RunId(T(p)) = <<m, f>>
    BY <1>10, TaskFacts DEF UnavailableEffect, RunSet, Moves, RunId
  <2>10. Held(Gen(m, f), pass[p].token, Seen(p)) /\ Working(p) /\ RunHeld(m, f)
    BY <1>10, <2>0 DEF UnavailableEffect, RunSet, Moves, Claimed, Working, At
  <2>1. Keeps(p)
    <3>1. SUFFICES ASSUME NEW l \in Letters, NEW e \in Epochs, NEW k \in 0..MaxAttempts,
                          NEW s \in (-Horizon)..0, Exists(Gen(l, e)), Held(Gen(l, e), k, s),
                          Gen(l, e) # T(p) \/ k # pass[p].token
                   PROVE  /\ Mine(Gen(l, e), k)' => Mine(Gen(l, e), k)
                          /\ Runs(l, e, k)' => Runs(l, e, k)
                          /\ Mine(Gen(l, e), k)' /\ Runs(l, e, k) => Runs(l, e, k)'
      BY <2>10 DEF Keeps
    <3>2. Mine(Gen(l, e), k)' <=> Mine(Gen(l, e), k)
      BY <1>10, TaskFacts, <3>1 DEF UnavailableEffect, RunSet, Moves, Mine, Exists, BackRow
    <3>3. CASE l # m \/ e # f
      <4>1. run'[<<l, e>>] = run[<<l, e>>]
        BY <1>10, <2>0, <3>3, PairFacts DEF UnavailableEffect, RunSet, Moves
      <4> QED
        BY <3>2, <4>1 DEF Runs
    <3>4. CASE l = m /\ e = f
      <4>1. k # pass[p].token
        BY <2>0, <3>1, <3>4
      <4>2. ~Runs(l, e, k)'
        BY <1>10, <2>0, <3>4, <4>1, PairFacts DEF UnavailableEffect, RunSet, Moves, Runs
      <4>3. ASSUME Mine(Gen(l, e), k), Runs(l, e, k) PROVE FALSE
        <5>1. ~Mine(Gen(l, e), pass[p].token)
          BY <4>1, <4>3 DEF Mine
        <5>2. Seen(p) + Lease <= task[Gen(l, e)].lease - Lease /\ task[Gen(l, e)].status = "claimed"
          BY <2>10, <3>4, <4>3, <5>1, TaskFacts DEF Held, Mine
        <5>3. run[<<l, e>>].lease = task[Gen(l, e)].lease
          BY <2>10, <3>4, <4>3 DEF RunHeld, Runs
        <5>4. run[<<l, e>>].lease <= Seen(p)
          BY <1>10, <2>0, <3>4, <4>3 DEF UnavailableEffect, RunSet, Moves, Takes, Spent, RunOf,
             Runs
        <5> QED
          BY <5>2, <5>3, <5>4, PassFacts, TaskFacts, TaskFieldTypes, Constants
      <4> QED
        BY <3>2, <4>2, <4>3
    <3> QED
      BY <3>3, <3>4
  <2>2. ASSUME NEW q \in Processes, q # p PROVE Composes(q)'
    BY <1>10, <2>1, <2>2, ComposesStays DEF UnavailableEffect, RunSet, Moves, OthersRest
  <2>3. Composes(p)'
    <3>0. PICK t \in Tasks : t = T(p)
      BY <1>10
    <3>1. PICK k : t = T(p) /\ k = pass[p].token
      BY <3>0
    <3>2. T(p)' = t /\ pass'[p].token = k
      BY <1>10, <3>1 DEF UnavailableEffect, RunSet, Moves, T
    <3>3. CASE Kind(t) # "generation"
      BY <1>10, <3>1, <3>2, <3>3 DEF UnavailableEffect, RunSet, Moves, Composes, At
    <3>4. CASE Kind(t) = "generation"
      <4>1. PICK n \in Letters, g \in Epochs : t = Gen(n, g) /\ Of(t) = n /\ Epoch(t) = g /\ RunId(t) = <<n, g>>
        BY <3>4, TaskFacts DEF RunId
      <4>2. ~Runs(n, g, k)' /\ ~At(p, "compose")'
        BY <1>10, <3>1, <4>1, PairFacts DEF UnavailableEffect, RunSet, Moves, Runs, At
      <4> QED
        BY <3>2, <3>4, <4>1, <4>2, ComposesIf
    <3> QED
      BY <3>3, <3>4
  <2> QED
    BY <2>2, <2>3
<1>11. ASSUME NEW p \in Processes, T(p) \in Tasks, Of(T(p)) \in Letters,
         CommitEffect(p, T(p), Of(T(p)))
      PROVE  \A q \in Processes : Composes(q)'
  <2>0. PICK m \in Letters, f \in Epochs : T(p) = Gen(m, f) /\ RunId(T(p)) = <<m, f>>
    BY <1>11, TaskFacts DEF CommitEffect, TaskSet, RunSet, Moves, RunId
  <2>10. Held(Gen(m, f), pass[p].token, Seen(p)) /\ Working(p) /\ RunHeld(m, f)
    BY <1>11, <2>0 DEF CommitEffect, TaskSet, RunSet, Moves, Claimed, Working, At
  <2>1. Keeps(p)
    <3>1. SUFFICES ASSUME NEW l \in Letters, NEW e \in Epochs, NEW k \in 0..MaxAttempts,
                          NEW s \in (-Horizon)..0, Exists(Gen(l, e)), Held(Gen(l, e), k, s),
                          Gen(l, e) # T(p) \/ k # pass[p].token
                   PROVE  /\ Mine(Gen(l, e), k)' => Mine(Gen(l, e), k)
                          /\ Runs(l, e, k)' => Runs(l, e, k)
                          /\ Mine(Gen(l, e), k)' /\ Runs(l, e, k) => Runs(l, e, k)'
      BY <2>10 DEF Keeps
    <3>2. Mine(Gen(l, e), k)' <=> Mine(Gen(l, e), k)
      BY <1>11, TaskFacts, <3>1 DEF CommitEffect, TaskSet, RunSet, Moves, Mine, Exists, BackRow
    <3>3. CASE l # m \/ e # f
      <4>1. run'[<<l, e>>] = run[<<l, e>>]
        BY <1>11, <2>0, <3>3, PairFacts DEF CommitEffect, TaskSet, RunSet, Moves
      <4> QED
        BY <3>2, <4>1 DEF Runs
    <3>4. CASE l = m /\ e = f
      <4>1. k # pass[p].token
        BY <2>0, <3>1, <3>4
      <4>2. ~Runs(l, e, k)'
        BY <1>11, <2>0, <3>4, <4>1, PairFacts DEF CommitEffect, TaskSet, RunSet, Moves, Runs
      <4>3. ~Runs(l, e, k)
        BY <1>11, <2>0, <3>4, <4>1 DEF CommitEffect, TaskSet, RunSet, Moves, Current, RunOf, Runs
      <4> QED
        BY <3>2, <4>2, <4>3
    <3> QED
      BY <3>3, <3>4
  <2>2. ASSUME NEW q \in Processes, q # p PROVE Composes(q)'
    BY <1>11, <2>1, <2>2, ComposesStays DEF CommitEffect, TaskSet, RunSet, Moves, OthersRest
  <2>3. Composes(p)'
    <3>0. PICK t \in Tasks : t = T(p)
      BY <1>11
    <3>1. PICK k : t = T(p) /\ k = pass[p].token
      BY <3>0
    <3>2. T(p)' = t /\ pass'[p].token = k
      BY <1>11, <3>1 DEF CommitEffect, TaskSet, RunSet, Moves, T
    <3>3. CASE Kind(t) # "generation"
      BY <1>11, <3>1, <3>2, <3>3 DEF CommitEffect, TaskSet, RunSet, Moves, Composes, At
    <3>4. CASE Kind(t) = "generation"
      <4>1. PICK n \in Letters, g \in Epochs : t = Gen(n, g) /\ Of(t) = n /\ Epoch(t) = g /\ RunId(t) = <<n, g>>
        BY <3>4, TaskFacts DEF RunId
      <4>2. ~Runs(n, g, k)' /\ ~At(p, "compose")'
        BY <1>11, <3>1, <4>1, PairFacts DEF CommitEffect, TaskSet, RunSet, Moves, Runs, At
      <4> QED
        BY <3>2, <3>4, <4>1, <4>2, ComposesIf
    <3> QED
      BY <3>3, <3>4
  <2> QED
    BY <2>2, <2>3
<1>12. ASSUME NEW p \in Processes, T(p) \in Tasks, Of(T(p)) \in Letters,
         FailEffect(p, T(p))
      PROVE  \A q \in Processes : Composes(q)'
  <2>0. PICK m \in Letters, f \in Epochs : T(p) = Gen(m, f) /\ RunId(T(p)) = <<m, f>>
    BY <1>12, TaskFacts DEF FailEffect, RunSet, Moves, RunId
  <2>10. Held(Gen(m, f), pass[p].token, Seen(p)) /\ Working(p) /\ RunHeld(m, f)
    BY <1>12, <2>0 DEF FailEffect, RunSet, Moves, Claimed, Working, At
  <2>1. Keeps(p)
    <3>1. SUFFICES ASSUME NEW l \in Letters, NEW e \in Epochs, NEW k \in 0..MaxAttempts,
                          NEW s \in (-Horizon)..0, Exists(Gen(l, e)), Held(Gen(l, e), k, s),
                          Gen(l, e) # T(p) \/ k # pass[p].token
                   PROVE  /\ Mine(Gen(l, e), k)' => Mine(Gen(l, e), k)
                          /\ Runs(l, e, k)' => Runs(l, e, k)
                          /\ Mine(Gen(l, e), k)' /\ Runs(l, e, k) => Runs(l, e, k)'
      BY <2>10 DEF Keeps
    <3>2. Mine(Gen(l, e), k)' <=> Mine(Gen(l, e), k)
      BY <1>12, TaskFacts, <3>1 DEF FailEffect, RunSet, Moves, Mine, Exists, BackRow
    <3>3. CASE l # m \/ e # f
      <4>1. run'[<<l, e>>] = run[<<l, e>>]
        BY <1>12, <2>0, <3>3, PairFacts DEF FailEffect, RunSet, Moves
      <4> QED
        BY <3>2, <4>1 DEF Runs
    <3>4. CASE l = m /\ e = f
      <4>1. k # pass[p].token
        BY <2>0, <3>1, <3>4
      <4>2. ~Runs(l, e, k)'
        BY <1>12, <2>0, <3>4, <4>1, PairFacts DEF FailEffect, RunSet, Moves, Runs
      <4>3. ~Runs(l, e, k)
        BY <1>12, <2>0, <3>4, <4>1 DEF FailEffect, RunSet, Moves, Current, RunOf, Runs
      <4> QED
        BY <3>2, <4>2, <4>3
    <3> QED
      BY <3>3, <3>4
  <2>2. ASSUME NEW q \in Processes, q # p PROVE Composes(q)'
    BY <1>12, <2>1, <2>2, ComposesStays DEF FailEffect, RunSet, Moves, OthersRest
  <2>3. Composes(p)'
    <3>0. PICK t \in Tasks : t = T(p)
      BY <1>12
    <3>1. PICK k : t = T(p) /\ k = pass[p].token
      BY <3>0
    <3>2. T(p)' = t /\ pass'[p].token = k
      BY <1>12, <3>1 DEF FailEffect, RunSet, Moves, T
    <3>3. CASE Kind(t) # "generation"
      BY <1>12, <3>1, <3>2, <3>3 DEF FailEffect, RunSet, Moves, Composes, At
    <3>4. CASE Kind(t) = "generation"
      <4>1. PICK n \in Letters, g \in Epochs : t = Gen(n, g) /\ Of(t) = n /\ Epoch(t) = g /\ RunId(t) = <<n, g>>
        BY <3>4, TaskFacts DEF RunId
      <4>2. ~Runs(n, g, k)' /\ ~At(p, "compose")'
        BY <1>12, <3>1, <4>1, PairFacts DEF FailEffect, RunSet, Moves, Runs, At
      <4> QED
        BY <3>2, <3>4, <4>1, <4>2, ComposesIf
    <3> QED
      BY <3>3, <3>4
  <2> QED
    BY <2>2, <2>3
<1>13. ASSUME NEW l \in Letters, SealEffect(l) \/ AskEffect(l) \/ OpenEffect(l)
      PROVE  \A q \in Processes : Composes(q)'
  <2>1. ASSUME NEW q \in Processes PROVE Composes(q)'
    <3>1. CASE ~(Working(q) /\ Kind(T(q)) = "generation")
      BY <1>13, <3>1 DEF SealEffect, TaskSet, AskEffect, OpenEffect, Composes, Working, At, T,
         Knows
    <3>2. CASE Working(q) /\ Kind(T(q)) = "generation"
      <4>0. PICK t \in Tasks : t = T(q) /\ Exists(t)
        BY <3>2 DEF Knows
      <4>1. PICK k : t = T(q) /\ k = pass[q].token /\ Exists(t)
        BY <4>0
      <4>2. T(q)' = t /\ pass'[q].token = k /\ \A x : At(q, x)' <=> At(q, x)
        BY <1>13, <4>1 DEF SealEffect, TaskSet, AskEffect, OpenEffect, T, At
      <4>3. Mine(t, k)' <=> Mine(t, k)
        BY <1>13, <4>1, TaskFacts DEF SealEffect, TaskSet, AskEffect, OpenEffect, Mine, OutRow,
           Exists
      <4>4. PICK m \in Letters, f \in Epochs : t = Gen(m, f) /\ Of(t) = m /\ Epoch(t) = f /\ RunId(t) = <<m, f>>
        BY <3>2, <4>1, TaskFacts DEF RunId
      <4>5. Runs(m, f, k)' <=> Runs(m, f, k)
        BY <1>13, PairFacts DEF SealEffect, TaskSet, AskEffect, OpenEffect, Runs
      <4>6. /\ At(q, "compose") /\ Mine(t, k) => Runs(m, f, k)
            /\ At(q, "work") \/ At(q, "finish") \/ At(q, "retry") => ~Runs(m, f, k)
        BY <3>2, <4>1, <4>4 DEF Composes, Owns, Current, Mine, Runs, RunOf
      <4> QED
        BY <3>2, <4>1, <4>2, <4>3, <4>4, <4>5, <4>6, ComposesIf
    <3> QED
      BY <3>1, <3>2
  <2> QED
    BY <2>1
<1>14. ASSUME TickEffect
      PROVE  \A q \in Processes : Composes(q)'
  <2>1. ASSUME NEW q \in Processes PROVE Composes(q)'
    <3>1. CASE ~(Working(q) /\ Kind(T(q)) = "generation")
      BY <1>14, <3>1 DEF TickEffect, Composes, Working, At, T, Knows
    <3>2. CASE Working(q) /\ Kind(T(q)) = "generation"
      <4>0. PICK t \in Tasks : t = T(q) /\ Exists(t)
        BY <3>2 DEF Knows
      <4>1. PICK k : t = T(q) /\ k = pass[q].token /\ Exists(t)
        BY <4>0
      <4>2. T(q)' = t /\ pass'[q].token = k /\ \A x : At(q, x)' <=> At(q, x)
        BY <1>14, <4>1 DEF TickEffect, T, At
      <4>3. Mine(t, k)' <=> Mine(t, k)
        BY <1>14, <4>1, TaskFacts DEF TickEffect, Mine, OutRow, Exists
      <4>4. PICK m \in Letters, f \in Epochs : t = Gen(m, f) /\ Of(t) = m /\ Epoch(t) = f /\ RunId(t) = <<m, f>>
        BY <3>2, <4>1, TaskFacts DEF RunId
      <4>5. Runs(m, f, k)' <=> Runs(m, f, k)
        BY <1>14, PairFacts DEF TickEffect, Runs
      <4>6. /\ At(q, "compose") /\ Mine(t, k) => Runs(m, f, k)
            /\ At(q, "work") \/ At(q, "finish") \/ At(q, "retry") => ~Runs(m, f, k)
        BY <3>2, <4>1, <4>4 DEF Composes, Owns, Current, Mine, Runs, RunOf
      <4> QED
        BY <3>2, <4>1, <4>2, <4>3, <4>4, <4>5, <4>6, ComposesIf
    <3> QED
      BY <3>1, <3>2
  <2> QED
    BY <2>1
<1> QED
  BY <1>1, <1>2, <1>3, <1>4, <1>5, <1>6, <1>7, <1>8, <1>9, <1>10, <1>11, <1>12, <1>13, <1>14
     DEF StepEffect, WorkEffect

\* What holds a run: the rows of its task and its own.
LEMMA RunHeldStays ==
  ASSUME NEW l \in Letters, NEW e \in Epochs, RunHeld(l, e),
         run'[<<l, e>>] = run[<<l, e>>] \/ run'[<<l, e>>].status # "generating",
         \/ task'[Gen(l, e)] = task[Gen(l, e)]
         \/ task'[Gen(l, e)].status # "claimed" /\ run'[<<l, e>>].status # "generating"
  PROVE  RunHeld(l, e)'
<1>1. CASE task'[Gen(l, e)] = task[Gen(l, e)] /\ run'[<<l, e>>] = run[<<l, e>>]
  BY <1>1 DEF RunHeld, Mine
<1>2. CASE task'[Gen(l, e)] = task[Gen(l, e)] /\ run'[<<l, e>>].status # "generating"
  BY <1>2 DEF RunHeld
<1>3. CASE task'[Gen(l, e)].status # "claimed" /\ run'[<<l, e>>].status # "generating"
  BY <1>3 DEF RunHeld
<1> QED
  BY <1>1, <1>2, <1>3

\* A run is held by the claim that made it.
LEMMA RunHeldKept ==
  ASSUME Shape, \A l \in Letters : Chain(l),
         \A q \in Processes : Knows(q), \A q \in Processes : Claimed(q),
         \A q \in Processes : Composes(q), \A l \in Letters, e \in Epochs : RunHeld(l, e), StepEffect
  PROVE  \A l \in Letters, e \in Epochs : RunHeld(l, e)'
<1>1. ASSUME NEW p \in Processes, RestEffect(p) \/ GiveUpEffect(p) \/ (\E t \in Tasks : FindEffect(p, t))
      PROVE  \A l \in Letters, e \in Epochs : RunHeld(l, e)'
  <2>1. \A l \in Letters, e \in Epochs :
          task'[Gen(l, e)] = task[Gen(l, e)] /\ run'[<<l, e>>] = run[<<l, e>>]
    BY <1>1, TaskFacts DEF RestEffect, Drops, GiveUpEffect, Moves, FindEffect, TakesUp, rows
  <2> QED
    BY <2>1, RunHeldStays
<1>2. ASSUME NEW p \in Processes, T(p) \in Tasks, Of(T(p)) \in Letters,
         DeliverEffect(p, Of(T(p)))
      PROVE  \A l \in Letters, e \in Epochs : RunHeld(l, e)'
  <2>1. \A l \in Letters, e \in Epochs :
          task'[Gen(l, e)] = task[Gen(l, e)] /\ run'[<<l, e>>] = run[<<l, e>>]
    BY <1>2, TaskFacts DEF DeliverEffect, Moves, rows
  <2> QED
    BY <2>1, RunHeldStays
<1>3. ASSUME NEW k \in Letters, OpenEffect(k)
      PROVE  \A l \in Letters, e \in Epochs : RunHeld(l, e)'
  <2>1. \A l \in Letters, e \in Epochs :
          task'[Gen(l, e)] = task[Gen(l, e)] /\ run'[<<l, e>>] = run[<<l, e>>]
    BY <1>3, TaskFacts DEF OpenEffect, rows
  <2> QED
    BY <2>1, RunHeldStays
<1>4. ASSUME NEW p \in Processes, T(p) \in Tasks, Of(T(p)) \in Letters,
         ClaimEffect(p, T(p))
      PROVE  \A l \in Letters, e \in Epochs : RunHeld(l, e)'
  <2>1. PICK u \in Tasks : u = T(p)
    BY <1>4
  <2>2. \A l \in Letters, e \in Epochs : Gen(l, e) # u => task'[Gen(l, e)] = task[Gen(l, e)]
    BY <1>4, <2>1, TaskFacts DEF ClaimEffect, TaskSet
  <2>3. \A x \in Letters \X Epochs : run'[x] = run[x] \/ run'[x].status = "failed"
    BY <1>4 DEF ClaimEffect, TaskSet, rows
  <2>4. SUFFICES ASSUME NEW l \in Letters, NEW e \in Epochs PROVE RunHeld(l, e)'
    OBVIOUS
  <2>5. /\ RunHeld(l, e) /\ <<l, e>> \in Letters \X Epochs /\ Gen(l, e) \in Tasks
        /\ run[<<l, e>>].lease \in Int /\ run[<<l, e>>].token \in Int
    BY PairFacts, TaskFacts, RunFieldTypes, Constants
  <2>6. CASE Gen(l, e) # u
    BY <2>2, <2>3, <2>5, <2>6 DEF RunHeld, Mine
  <2>7. CASE Gen(l, e) = u
    <3>1. /\ task'[u].status = "claimed" /\ task'[u].attempt = task[u].attempt + 1
          /\ task'[u].lease = Seen(p) + Lease /\ Free(u, Seen(p)) /\ run' = run
      BY <1>4, <2>1 DEF ClaimEffect, TaskSet
    <3>2. run[<<l, e>>].status = "generating" => run[<<l, e>>].lease <= 0
      BY <2>5, <2>7, <3>1, PassFacts, TaskFieldTypes, Constants DEF RunHeld, Mine, Free, Waiting
    <3> QED
      BY <2>5, <2>7, <3>1, <3>2, PassFacts, TaskFieldTypes, Constants DEF RunHeld, Mine
  <2> QED
    BY <2>6, <2>7
<1>5. ASSUME NEW p \in Processes, T(p) \in Tasks, Of(T(p)) \in Letters,
         SweepEffect(p, T(p))
      PROVE  \A l \in Letters, e \in Epochs : RunHeld(l, e)'
  <2>1. PICK u \in Tasks : u = T(p)
    BY <1>5
  <2>2. \A l \in Letters, e \in Epochs : Gen(l, e) # u => task'[Gen(l, e)] = task[Gen(l, e)]
    BY <1>5, <2>1, TaskFacts DEF SweepEffect, TaskSet, Drops
  <2>3. \A x \in Letters \X Epochs : run'[x] = run[x] \/ run'[x].status = "failed"
    BY <1>5 DEF SweepEffect, TaskSet, Drops, rows
  <2>4. SUFFICES ASSUME NEW l \in Letters, NEW e \in Epochs PROVE RunHeld(l, e)'
    OBVIOUS
  <2>5. /\ RunHeld(l, e) /\ <<l, e>> \in Letters \X Epochs /\ Gen(l, e) \in Tasks
        /\ run[<<l, e>>].lease \in Int /\ run[<<l, e>>].token \in Int
    BY PairFacts, TaskFacts, RunFieldTypes, Constants
  <2>6. CASE Gen(l, e) # u
    BY <2>2, <2>3, <2>5, <2>6 DEF RunHeld, Mine
  <2>7. CASE Gen(l, e) = u
    <3>1. /\ task'[u].status = "dead_letter" /\ task'[u].attempt = task[u].attempt
          /\ Free(u, Seen(p))
      BY <1>5, <2>1 DEF SweepEffect, TaskSet
    <3>2. run[<<l, e>>].status = "generating" => run[<<l, e>>].lease <= 0
      BY <2>5, <2>7, <3>1, PassFacts, TaskFieldTypes, Constants DEF RunHeld, Mine, Free, Waiting
    <3> QED
      BY <2>3, <2>5, <2>7, <3>1, <3>2 DEF RunHeld, Mine
  <2> QED
    BY <2>6, <2>7
<1>6. ASSUME NEW p \in Processes, T(p) \in Tasks, Of(T(p)) \in Letters,
         FinishEffect(p, T(p)) \/ RetryEffect(p, T(p))
      PROVE  \A l \in Letters, e \in Epochs : RunHeld(l, e)'
  <2>1. PICK u \in Tasks : u = T(p)
    BY <1>6
  <2>2. \A l \in Letters, e \in Epochs : Gen(l, e) # u => task'[Gen(l, e)] = task[Gen(l, e)]
    BY <1>6, <2>1, TaskFacts DEF FinishEffect, TaskSet, Drops, RetryEffect
  <2>3. \A x \in Letters \X Epochs : run'[x] = run[x] \/ run'[x].status = "failed"
    BY <1>6 DEF FinishEffect, TaskSet, Drops, RetryEffect, rows
  <2>4. SUFFICES ASSUME NEW l \in Letters, NEW e \in Epochs PROVE RunHeld(l, e)'
    OBVIOUS
  <2>5. /\ RunHeld(l, e) /\ <<l, e>> \in Letters \X Epochs /\ Gen(l, e) \in Tasks
        /\ run[<<l, e>>].lease \in Int /\ run[<<l, e>>].token \in Int
    BY PairFacts, TaskFacts, RunFieldTypes, Constants
  <2>6. CASE Gen(l, e) # u
    BY <2>2, <2>3, <2>5, <2>6 DEF RunHeld, Mine
  <2>7. CASE Gen(l, e) = u
    <3>1. /\ task'[u].attempt = task[u].attempt /\ run' = run
          /\ task'[u].status # "claimed" \/ (~Owns(p) /\ task' = task)
      BY <1>6, <2>1 DEF FinishEffect, RetryEffect, TaskSet, Drops, rows
    <3>2. CASE ~Owns(p) /\ task' = task
      BY <2>5, <3>1, <3>2 DEF RunHeld, Mine
    <3>3. CASE Owns(p) /\ task'[u].status # "claimed"
      <4>1. ~Current(p)
        BY <1>6, <2>1, <2>7, <3>3, TaskFacts DEF FinishEffect, RetryEffect, Composes
      <4>2. run[<<l, e>>].status = "generating" => ~Mine(Gen(l, e), run[<<l, e>>].token)
        BY <2>1, <2>7, <3>3, <4>1, TaskFacts DEF Current, RunOf, RunId, Owns, Mine
      <4> QED
        BY <2>5, <2>7, <3>1, <3>3, <4>2 DEF RunHeld, Mine
    <3>4. CASE ~Owns(p) /\ task'[u].status # "claimed" /\ task[u].status # "claimed"
      BY <2>5, <2>7, <3>1, <3>4 DEF RunHeld, Mine
    <3>5. ~Owns(p) => task' = task \/ task[u].status # "claimed"
      BY <1>6, <2>1 DEF FinishEffect, RetryEffect
    <3> QED
      BY <3>1, <3>2, <3>3, <3>4, <3>5
  <2> QED
    BY <2>6, <2>7
<1>7. ASSUME NEW p \in Processes, T(p) \in Tasks, Of(T(p)) \in Letters,
         ArriveEffect(p, Of(T(p)))
      PROVE  \A l \in Letters, e \in Epochs : RunHeld(l, e)'
  <2>1. \A l \in Letters, e \in Epochs : Exists(Gen(l, e)) => task'[Gen(l, e)] = task[Gen(l, e)]
    BY <1>7, TaskFacts, Constants DEF ArriveEffect
  <2>2. \A l \in Letters, e \in Epochs : ~Exists(Gen(l, e)) => task'[Gen(l, e)].status # "claimed"
    BY <1>7, TaskFacts, Constants DEF ArriveEffect, Exists
  <2>3. run' = run /\ \A l \in Letters, e \in Epochs : ~Exists(Gen(l, e)) => run[<<l, e>>].status = "none"
    BY <1>7 DEF ArriveEffect, Chain, Started
  <2>4. ASSUME NEW l \in Letters, NEW e \in Epochs PROVE RunHeld(l, e)'
    <3>1. CASE Exists(Gen(l, e))
      BY <2>1, <2>3, <3>1, RunHeldStays
    <3>2. CASE ~Exists(Gen(l, e))
      BY <2>2, <2>3, <3>2, RunHeldStays
    <3> QED
      BY <3>1, <3>2
  <2> QED
    BY <2>4
<1>8. ASSUME NEW p \in Processes, T(p) \in Tasks, Of(T(p)) \in Letters,
         CommitEffect(p, T(p), Of(T(p)))
      PROVE  \A l \in Letters, e \in Epochs : RunHeld(l, e)'
  <2>1. PICK m \in Letters, f \in Epochs : T(p) = Gen(m, f) /\ RunId(T(p)) = <<m, f>>
    BY <1>8, TaskFacts DEF CommitEffect, TaskSet, RunSet, Moves, RunId
  <2>2. \A l \in Letters, e \in Epochs : task'[Gen(l, e)] = task[Gen(l, e)]
    BY <1>8, TaskFacts DEF CommitEffect, TaskSet, RunSet, Moves
  <2>3. \A l \in Letters, e \in Epochs : (l # m \/ e # f) => run'[<<l, e>>] = run[<<l, e>>]
    BY <1>8, <2>1, PairFacts DEF CommitEffect, TaskSet, RunSet, Moves
  <2>4. run'[<<m, f>>].status # "generating"
    BY <1>8, <2>1 DEF CommitEffect, TaskSet, RunSet, Moves
  <2> QED
    BY <2>2, <2>3, <2>4, RunHeldStays
<1>9. ASSUME NEW p \in Processes, T(p) \in Tasks, Of(T(p)) \in Letters,
         FailEffect(p, T(p))
      PROVE  \A l \in Letters, e \in Epochs : RunHeld(l, e)'
  <2>1. PICK m \in Letters, f \in Epochs : T(p) = Gen(m, f) /\ RunId(T(p)) = <<m, f>>
    BY <1>9, TaskFacts DEF FailEffect, RunSet, Moves, RunId
  <2>2. \A l \in Letters, e \in Epochs : task'[Gen(l, e)] = task[Gen(l, e)]
    BY <1>9, TaskFacts DEF FailEffect, RunSet, Moves
  <2>3. \A l \in Letters, e \in Epochs : (l # m \/ e # f) => run'[<<l, e>>] = run[<<l, e>>]
    BY <1>9, <2>1, PairFacts DEF FailEffect, RunSet, Moves
  <2>4. run'[<<m, f>>].status # "generating"
    BY <1>9, <2>1 DEF FailEffect, RunSet, Moves
  <2> QED
    BY <2>2, <2>3, <2>4, RunHeldStays
<1>10. ASSUME NEW p \in Processes, T(p) \in Tasks, Of(T(p)) \in Letters,
         UnavailableEffect(p, T(p))
      PROVE  \A l \in Letters, e \in Epochs : RunHeld(l, e)'
  <2>1. PICK m \in Letters, f \in Epochs : T(p) = Gen(m, f) /\ RunId(T(p)) = <<m, f>>
    BY <1>10, TaskFacts DEF UnavailableEffect, RunSet, Moves, RunId
  <2>2. \A l \in Letters, e \in Epochs : task'[Gen(l, e)] = task[Gen(l, e)]
    BY <1>10, TaskFacts DEF UnavailableEffect, RunSet, Moves
  <2>3. \A l \in Letters, e \in Epochs : (l # m \/ e # f) => run'[<<l, e>>] = run[<<l, e>>]
    BY <1>10, <2>1, PairFacts DEF UnavailableEffect, RunSet, Moves
  <2>4. run'[<<m, f>>].status # "generating"
    BY <1>10, <2>1 DEF UnavailableEffect, RunSet, Moves
  <2> QED
    BY <2>2, <2>3, <2>4, RunHeldStays
<1>11. ASSUME NEW p \in Processes, T(p) \in Tasks, Of(T(p)) \in Letters,
         PreflightEffect(p, T(p))
      PROVE  \A l \in Letters, e \in Epochs : RunHeld(l, e)'
  <2>1. PICK m \in Letters, f \in Epochs : T(p) = Gen(m, f) /\ RunId(T(p)) = <<m, f>>
    BY <1>11, TaskFacts DEF PreflightEffect, RunSet, Moves, RunId
  <2>2. \A l \in Letters, e \in Epochs : task'[Gen(l, e)] = task[Gen(l, e)]
    BY <1>11, TaskFacts DEF PreflightEffect, RunSet, Moves
  <2>3. \A l \in Letters, e \in Epochs : (l # m \/ e # f) => run'[<<l, e>>] = run[<<l, e>>]
    BY <1>11, <2>1, PairFacts DEF PreflightEffect, RunSet, Moves
  <2>5. Held(Gen(m, f), pass[p].token, Seen(p)) /\ RunHeld(m, f)
    BY <1>11, <2>1 DEF PreflightEffect, Claimed, Working, At
  <2>6. run'[<<m, f>>].token = pass[p].token /\ run'[<<m, f>>].lease = Seen(p) + Lease
    BY <1>11, <2>1 DEF PreflightEffect, RunSet
  <2>4. RunHeld(m, f)'
    BY <2>2, <2>5, <2>6 DEF RunHeld, Held, Mine
  <2>7. ASSUME NEW l \in Letters, NEW e \in Epochs, l # m \/ e # f PROVE RunHeld(l, e)'
    BY <2>2, <2>3, <2>7, RunHeldStays
  <2> QED
    BY <2>4, <2>7
<1>12. ASSUME NEW k \in Letters, SealEffect(k)
      PROVE  \A l \in Letters, e \in Epochs : RunHeld(l, e)'
  <2>1. \A l \in Letters, e \in Epochs :
          task'[Gen(l, e)] = task[Gen(l, e)] /\ run'[<<l, e>>] = run[<<l, e>>]
    BY <1>12, TaskFacts DEF SealEffect, TaskSet, rows
  <2> QED
    BY <2>1, RunHeldStays
<1>13. ASSUME NEW k \in Letters, AskEffect(k)
      PROVE  \A l \in Letters, e \in Epochs : RunHeld(l, e)'
  <2>1. \A l \in Letters, e \in Epochs : Exists(Gen(l, e)) => task'[Gen(l, e)] = task[Gen(l, e)]
    BY <1>13, TaskFacts DEF AskEffect, TaskSet
  <2>2. \A l \in Letters, e \in Epochs : ~Exists(Gen(l, e)) => task'[Gen(l, e)].status # "claimed"
    BY <1>13, TaskFacts DEF AskEffect, TaskSet, Exists
  <2>3. run' = run /\ \A l \in Letters, e \in Epochs : ~Exists(Gen(l, e)) => run[<<l, e>>].status = "none"
    BY <1>13 DEF AskEffect, Chain, Started
  <2>4. ASSUME NEW l \in Letters, NEW e \in Epochs PROVE RunHeld(l, e)'
    <3>1. CASE Exists(Gen(l, e))
      BY <2>1, <2>3, <3>1, RunHeldStays
    <3>2. CASE ~Exists(Gen(l, e))
      BY <2>2, <2>3, <3>2, RunHeldStays
    <3> QED
      BY <3>1, <3>2
  <2> QED
    BY <2>4
<1>14. ASSUME TickEffect
      PROVE  \A l \in Letters, e \in Epochs : RunHeld(l, e)'
  <2>1. SUFFICES ASSUME NEW l \in Letters, NEW e \in Epochs PROVE RunHeld(l, e)'
    OBVIOUS
  <2>2. /\ RunHeld(l, e) /\ <<l, e>> \in Letters \X Epochs /\ Gen(l, e) \in Tasks
    BY PairFacts, TaskFacts
  <2>3. /\ task'[Gen(l, e)].status = task[Gen(l, e)].status
        /\ task'[Gen(l, e)].attempt = task[Gen(l, e)].attempt
        /\ task[Gen(l, e)].status = "claimed" => task'[Gen(l, e)].lease = Older(task[Gen(l, e)].lease)
    BY <1>14, <2>2 DEF TickEffect
  <2>4. /\ run'[<<l, e>>].status = run[<<l, e>>].status /\ run'[<<l, e>>].token = run[<<l, e>>].token
        /\ run[<<l, e>>].status = "generating" => run'[<<l, e>>].lease = Older(run[<<l, e>>].lease)
    BY <1>14, <2>2 DEF TickEffect
  <2>5. \A x \in Int : Older(x) <= x
    BY Constants DEF Older
  <2>6. run[<<l, e>>].lease \in Int /\ task[Gen(l, e)].lease \in Int /\ Older(run[<<l, e>>].lease) \in Int
        /\ Older(task[Gen(l, e)].lease) \in Int
    BY <2>2, RunFieldTypes, TaskFieldTypes, Constants DEF Older
  <2> QED
    BY <2>2, <2>3, <2>4, <2>5, <2>6, Constants DEF RunHeld, Mine
<1> QED
  BY <1>1, <1>2, <1>3, <1>4, <1>5, <1>6, <1>7, <1>8, <1>9, <1>10, <1>11, <1>12, <1>13, <1>14
     DEF StepEffect, WorkEffect

-----------------------------------------------------------------------------
(* The invariant and what follows from it.                                 *)

\* No letters and resting passes satisfy the invariant.
LEMMA InvariantInit == ASSUME Init PROVE IInv
<1>1. /\ Idle \in PassRow /\ Idle.stage = "idle" /\ NoTask \in TaskRow /\ NoTask.status = "none"
      /\ NoRun \in RunRow /\ NoRun.status = "none" /\ NoRun.attempt = 0
  BY Constants DEF Idle, Fresh, PassRow, NoTask, TaskRow, NoRun, RunRow, Statuses
<1>2. Shape /\ Counted
  BY <1>1, Constants DEF Init, Shape, Counted
<1>3. /\ \A t \in Tasks : task[t].status = "none"
      /\ \A l \in Letters, e \in Epochs : run[<<l, e>>].status = "none"
      /\ \A l \in Letters : letter[l] = "draft" /\ reply[l] = "none"
      /\ \A q \in Processes : pass[q].stage = "idle"
  BY <1>1, PairFacts DEF Init
<1>4. \A l \in Letters : OutRow(l) /\ GenRow(l) /\ AnswerRow(l) /\ BackRow(l) /\ Chain(l)
  BY <1>3, TaskFacts, Constants DEF OutRow, GenRow, AnswerRow, BackRow, Chain, Exists, Won,
     Started
<1>5. \A p, q \in Processes : /\ Knows(p) /\ Claimed(p) /\ Composes(p) /\ InOrder(p) /\ Apart(p, q)
  BY <1>3 DEF Knows, Claimed, Composes, InOrder, Apart, Working, At
<1>6. \A l \in Letters, e \in Epochs : RunHeld(l, e)
  BY <1>3, TaskFacts DEF RunHeld
<1> QED
  BY <1>2, <1>4, <1>5, <1>6 DEF IInv

\* Nothing happens.
LEMMA InvariantStays == ASSUME IInv, UNCHANGED vars PROVE IInv'
<1>1. Shape' /\ Counted'
  BY DEF IInv, Shape, Counted, vars
<1>2. \A l \in Letters : (OutRow(l) /\ GenRow(l) /\ AnswerRow(l) /\ BackRow(l) /\ Chain(l))'
  BY DEF IInv, vars, OutRow, GenRow, AnswerRow, BackRow, Chain, Exists, Pending, Open, Waiting,
     Won, Started, Failed
<1>3. \A q \in Processes : Knows(q)' /\ InOrder(q)'
  BY DEF IInv, vars, Knows, InOrder, Working, At, T, Exists
<1>4. \A q \in Processes : Claimed(q)' /\ Composes(q)'
  BY DEF IInv, vars, Claimed, Held, Mine, Waiting, Composes, Working, At, T, Seen, Owns, Current,
     RunOf, RunId
<1>5. \A q, r \in Processes : Apart(q, r)'
  BY DEF IInv, vars, Apart, Working, T
<1>6. \A l \in Letters, e \in Epochs : RunHeld(l, e)'
  BY DEF IInv, vars, RunHeld, Mine
<1> QED
  BY <1>1, <1>2, <1>3, <1>4, <1>5, <1>6 DEF IInv

\* The inductive invariant.
THEOREM RowsHold == Spec => []IInv
<1>1. Init => IInv
  BY InvariantInit
<1>2. IInv /\ Next => IInv'
  <2> SUFFICES ASSUME IInv, Next PROVE IInv'
    OBVIOUS
  <2>1. StepEffect
    BY StepDoes
  <2>2. /\ Shape /\ Counted
        /\ \A l \in Letters : OutRow(l) /\ GenRow(l) /\ AnswerRow(l) /\ BackRow(l) /\ Chain(l)
        /\ \A q \in Processes : Knows(q) /\ Claimed(q) /\ Composes(q) /\ InOrder(q)
        /\ \A q, r \in Processes : Apart(q, r)
        /\ \A l \in Letters, e \in Epochs : RunHeld(l, e)
    BY DEF IInv
  <2>3. Shape' /\ Counted'
    BY <2>1, <2>2, ShapeKept
  <2>4. \A l \in Letters : OutRow(l)'
    BY <2>1, <2>2, OutRowsKept
  <2>5. \A l \in Letters : GenRow(l)'
    BY <2>1, <2>2, GenRowsKept
  <2>6. \A l \in Letters : AnswerRow(l)'
    BY <2>1, <2>2, AnswerRowsKept
  <2>7. \A l \in Letters : BackRow(l)'
    BY <2>1, <2>2, BackRowsKept
  <2>8. \A l \in Letters : Chain(l)'
    BY <2>1, <2>2, ChainKept
  <2>9. \A q \in Processes : Knows(q)'
    BY <2>1, <2>2, KnowsKept
  <2>10. \A q \in Processes : InOrder(q)'
    BY <2>1, <2>2, InOrderKept
  <2>11. \A q \in Processes : Claimed(q)'
    BY <2>1, <2>2, ClaimedKept
  <2>12. \A q, r \in Processes : Apart(q, r)'
    BY <2>1, <2>2, ApartKept
  <2>13. \A q \in Processes : Composes(q)'
    BY <2>1, <2>2, ComposesKept
  <2>14. \A l \in Letters, e \in Epochs : RunHeld(l, e)'
    BY <2>1, <2>2, RunHeldKept
  <2> QED
    BY <2>3, <2>4, <2>5, <2>6, <2>7, <2>8, <2>9, <2>10, <2>11, <2>12, <2>13, <2>14 DEF IInv
<1>3. IInv /\ [Next]_vars => IInv'
  BY <1>2, InvariantStays
<1> QED
  BY <1>1, <1>3, PTL DEF Spec

\* Types.
THEOREM TypeCorrect == Spec => []TypeOK
<1>1. IInv => TypeOK
  <2> SUFFICES ASSUME Shape PROVE TypeOK
    BY DEF IInv
  <2>1. pass \in [Processes ->
          [stage : {"idle", "find", "claim", "work", "compose", "finish", "retry", "chat"},
           observed : Int, task : Tasks \cup {<<>>}, token : 0..MaxAttempts,
           result : {"none", "retryable", "final"}, delay : Nat]]
    BY Constants DEF Shape, PassRow
  <2> QED
    BY <2>1 DEF Shape, TypeOK, TaskRow, RunRow
<1> QED
  BY <1>1, RowsHold, PTL

\* A letter is answered at most once, whatever the workers, the leases and the retries of the
\* user did: commitGenerationAndReply.
THEOREM OneAnswer == Spec => []AnsweredOnce
<1>1. IInv => AnsweredOnce
  <2> SUFFICES ASSUME IInv, NEW l \in Letters
               PROVE  /\ Cardinality({e \in Epochs : run[<<l, e>>].status = "committed"}) <= 1
                      /\ Answered(l) <=> reply[l] # "none"
    BY DEF AnsweredOnce
  <2> DEFINE S == {e \in Epochs : Won(l, e)}
  <2>1. AnswerRow(l)
    BY DEF IInv
  <2>2. S = {} \/ \E e \in Epochs : S = {e}
    BY <2>1 DEF AnswerRow
  <2>3. Cardinality(S) <= 1
    BY <2>2, FS_EmptySet, FS_Singleton
  <2> QED
    BY <2>1, <2>3 DEF AnswerRow, Answered, Won
<1> QED
  BY <1>1, RowsHold, PTL

\* What is still to happen to a letter has a task that is open, or one given up in the open.
THEOREM AllRemembered == Spec => []NothingForgotten
<1>1. IInv => NothingForgotten
  BY DEF IInv, NothingForgotten, OutRow, GenRow, BackRow
<1> QED
  BY <1>1, RowsHold, PTL

\* No letter is read, no model called and no reply delivered before it is due.
THEOREM InDueTime == Spec => []NothingEarly
<1>1. IInv => NothingEarly
  BY DEF IInv, NothingEarly, OutRow, GenRow, BackRow, Chain, Started
<1> QED
  BY <1>1, RowsHold, PTL

\* A run under a live lease belongs to the live claim of its task: claimGenerationRun.
THEOREM RunsAgree == Spec => []LeasesAgree
<1>1. IInv => LeasesAgree
  <2> SUFFICES ASSUME IInv, NEW l \in Letters, NEW e \in Epochs,
                      run[<<l, e>>].status = "generating", run[<<l, e>>].lease > 0
               PROVE  /\ task[Gen(l, e)].status = "claimed"
                      /\ task[Gen(l, e)].attempt = run[<<l, e>>].token
    BY DEF LeasesAgree
  <2>1. RunHeld(l, e) /\ run[<<l, e>>].lease \in Int
    BY RunFieldTypes, PairFacts DEF IInv
  <2> QED
    BY <2>1 DEF RunHeld, Mine
<1> QED
  BY <1>1, RowsHold, PTL

\* No letter overtakes an earlier one, unless that was given up: the order of the queue and
\* the transaction of the arrival.
THEOREM OrderKept == Spec => ReadInOrder
<1>1. IInv /\ Next =>
        \A k, l \in Letters :
          letter[k] # "read" /\ letter'[k] = "read" /\ letter[l] = "in_transit"
            /\ task[Out(l)].due < task[Out(k)].due
          => task[Out(l)].status = "dead_letter"
  <2> SUFFICES ASSUME IInv, Next, NEW k \in Letters, NEW l \in Letters,
                      letter[k] # "read", letter'[k] = "read", letter[l] = "in_transit",
                      task[Out(l)].due < task[Out(k)].due
               PROVE  task[Out(l)].status = "dead_letter"
    OBVIOUS
  <2>1. StepEffect /\ Shape
    BY StepDoes DEF IInv
  <2>2. \E p \in Processes : ArriveEffect(p, k)
    <3>1. ASSUME NEW p \in Processes, ArriveEffect(p, Of(T(p))) PROVE Of(T(p)) = k
      BY <2>1, <3>1 DEF ArriveEffect, Shape
    <3>2. ~\E j \in Letters : SealEffect(j)
      BY <2>1 DEF SealEffect, Shape
    <3>3. letter' # letter
      OBVIOUS
    <3>4. /\ ~TickEffect /\ ~\E j \in Letters : AskEffect(j) \/ OpenEffect(j)
          /\ \A p \in Processes : ~RestEffect(p) /\ ~GiveUpEffect(p) /\ ~\E t \in Tasks : FindEffect(p, t)
      BY <3>3 DEF TickEffect, AskEffect, OpenEffect, RestEffect, GiveUpEffect, FindEffect, rows
    <3>5. ASSUME NEW p \in Processes, WorkEffect(p, T(p), Of(T(p))) PROVE ArriveEffect(p, Of(T(p)))
      BY <3>3, <3>5 DEF WorkEffect, ClaimEffect, SweepEffect, DeliverEffect, PreflightEffect,
         UnavailableEffect, CommitEffect, FailEffect, FinishEffect, RetryEffect, rows
    <3> QED
      BY <2>1, <3>1, <3>2, <3>4, <3>5 DEF StepEffect
  <2>3. PICK p \in Processes : At(p, "work") /\ T(p) = Out(k) /\ InOrder(p)
    BY <2>2 DEF ArriveEffect, IInv
  <2> QED
    BY <2>3, TaskFacts DEF InOrder
<1>2. IInv /\ [Next]_vars => [\A k, l \in Letters :
          letter[k] # "read" /\ letter'[k] = "read" /\ letter[l] = "in_transit"
            /\ task[Out(l)].due < task[Out(k)].due
          => task[Out(l)].status = "dead_letter"]_vars
  BY <1>1
<1> QED
  BY <1>2, RowsHold, PTL DEF Spec, ReadInOrder

-----------------------------------------------------------------------------
(* Letters implements LetterPromise.  The promise sees the three rows of a *)
(* letter, the due times of its two arrivals, and whether the task of the  *)
(* first one was given up; each effect is mapped by what it does to these. *)

PromiseStep == Promise!Next \/ UNCHANGED Promise!promiseVars

\* What is not seen.
LEMMA Unseen ==
  ASSUME UNCHANGED <<letter, transit, reply>>,
         \A l \in Letters : letter[l] # "draft" => task'[Out(l)].due = task[Out(l)].due,
         \A l \in Letters : reply[l] # "none" => task'[Back(l)].due = task[Back(l)].due,
         \A l \in Letters : Fate(l)' = Fate(l)
  PROVE  UNCHANGED Promise!promiseVars
<1>1. Fates' = Fates
  BY DEF Fates
<1>2. Arrivals' = Arrivals
  BY DEF Arrivals
<1>3. Returns' = Returns
  BY DEF Returns
<1> QED
  BY <1>1, <1>2, <1>3 DEF Promise!promiseVars

\* A step that writes no task is unseen if it writes no row of a letter either.
LEMMA NoTaskMaps ==
  ASSUME UNCHANGED <<letter, transit, reply, task>>
  PROVE  PromiseStep
<1>1. \A l \in Letters : Fate(l)' = Fate(l)
  BY DEF Fate
<1> QED
  BY <1>1, Unseen DEF PromiseStep

\* A task that changes hands is unseen, unless it is the arrival of a letter that is given up.
LEMMA TaskMaps ==
  ASSUME IInv, NEW t \in Tasks, NEW s \in Statuses, NEW due \in Int, NEW n, NEW lease,
         TaskSet(t, s, due, n, lease), UNCHANGED <<letter, transit, reply>>,
         task[t].status # "dead_letter",
         Kind(t) # "generation" => due = task[t].due /\ task[t].due <= 0
  PROVE  PromiseStep
<1>1. /\ task'[t].status = s /\ task'[t].due = due
      /\ \A u \in Tasks : u # t => task'[u] = task[u]
  BY DEF TaskSet
<1>2. \A l \in Letters : /\ Out(l) \in Tasks /\ Back(l) \in Tasks
                         /\ Kind(Out(l)) = "outbound" /\ Kind(Back(l)) = "return"
  BY TaskFacts
<1>3. \A l \in Letters : /\ task'[Out(l)].due = task[Out(l)].due
                         /\ task'[Back(l)].due = task[Back(l)].due
  BY <1>1, <1>2
<1>4. CASE \E l \in Letters : t = Out(l) /\ s = "dead_letter" /\ letter[l] = "in_transit"
  <2>1. PICK l \in Letters : t = Out(l) /\ s = "dead_letter" /\ letter[l] = "in_transit"
    BY <1>4
  <2>2. Fate(l) = "in_transit" /\ Fate(l)' = "given_up"
    BY <1>1, <2>1 DEF Fate
  <2>3. \A k \in Letters : k # l => Fate(k)' = Fate(k)
    <3>1. \A k \in Letters : k # l => Out(k) # t
      BY <2>1, TaskFacts
    <3> QED
      BY <1>1, <1>2, <3>1 DEF Fate
  <2>4. Fates' = [Fates EXCEPT ![l] = "given_up"] /\ Fates[l] = "in_transit"
    BY <2>2, <2>3 DEF Fates
  <2>5. Arrivals[l] <= 0
    BY <1>2, <2>1 DEF Arrivals
  <2>6. Arrivals' = Arrivals /\ Returns' = Returns
    BY <1>3 DEF Arrivals, Returns
  <2>7. Promise!GiveUp(l)
    BY <2>4, <2>5, <2>6 DEF Promise!GiveUp
  <2> QED
    BY <2>7 DEF PromiseStep, Promise!Next
<1>5. CASE ~\E l \in Letters : t = Out(l) /\ s = "dead_letter" /\ letter[l] = "in_transit"
  <2>1. ASSUME NEW l \in Letters PROVE Fate(l)' = Fate(l)
    <3>1. CASE t = Out(l)
      BY <1>1, <1>5, <3>1 DEF Fate
    <3>2. CASE t # Out(l)
      BY <1>1, <1>2, <3>2 DEF Fate
    <3> QED
      BY <3>1, <3>2
  <2> QED
    BY <1>3, <2>1, Unseen DEF PromiseStep
<1> QED
  BY <1>4, <1>5

\* The arrival of a letter: it is read, unless it was before.
LEMMA ArriveMaps ==
  ASSUME IInv, NEW p \in Processes, NEW l \in Letters, ArriveEffect(p, l)
  PROVE  PromiseStep
<1>1. /\ At(p, "work") /\ T(p) = Out(l) /\ (Owns(p) \/ task[Out(l)].status = "completed")
      /\ letter' = [letter EXCEPT ![l] = "read"] /\ UNCHANGED <<transit, reply>>
      /\ task'[Out(l)].due = task[Out(l)].due
      /\ \A u \in Tasks : u # Out(l) /\ u # Gen(l, 0) => task'[u] = task[u]
  BY DEF ArriveEffect
<1>2. /\ Shape /\ OutRow(l) /\ Knows(p) /\ InOrder(p)
      /\ Kind(T(p)) = "outbound" /\ Out(l) \in Tasks
  BY <1>1, TaskFacts DEF IInv
<1>3. \A k \in Letters : /\ k # l => task'[Out(k)] = task[Out(k)]
                         /\ task'[Back(k)] = task[Back(k)]
  <2>1. \A k \in Letters : /\ Out(k) # Gen(l, 0) /\ Back(k) # Gen(l, 0) /\ Back(k) # Out(l)
                           /\ k # l => Out(k) # Out(l)
    BY TaskFacts, Constants
  <2> QED
    BY <1>1, <2>1, TaskFacts
<1>4. Exists(Out(l)) /\ task[Out(l)].due <= 0
  BY <1>1, <1>2 DEF Knows, Working, At
<1>5. Arrivals' = Arrivals /\ Returns' = Returns
  <2>1. \A k \in Letters : letter'[k] = "draft" <=> letter[k] = "draft"
    BY <1>1, <1>2, <1>4 DEF OutRow, Shape
  <2> QED
    BY <1>1, <1>3, <2>1, <1>4, <1>2 DEF Arrivals, Returns, OutRow
<1>6. \A k \in Letters : k # l => Fate(k)' = Fate(k)
  BY <1>1, <1>2, <1>3 DEF Fate, Shape
<1>7. CASE letter[l] = "read"
  <2>1. letter' = letter
    BY <1>1, <1>2, <1>7 DEF Shape
  <2>2. Fates' = Fates
    BY <1>6, <1>7, <2>1 DEF Fates, Fate
  <2> QED
    BY <1>1, <1>5, <2>2 DEF PromiseStep, Promise!promiseVars
<1>8. CASE letter[l] # "read"
  <2>1. letter[l] = "in_transit"
    BY <1>2, <1>4, <1>8 DEF OutRow, Shape
  <2>2. task[Out(l)].status = "claimed"
    BY <1>1, <1>2, <2>1 DEF OutRow, Pending, Open, Waiting, Owns
  <2>3. Fate(l) = "in_transit" /\ Fate(l)' = "read"
    BY <1>1, <1>2, <2>1, <2>2 DEF Fate, Shape
  <2>4. Fates' = [Fates EXCEPT ![l] = "read"] /\ Fates[l] = "in_transit"
    BY <1>6, <2>3 DEF Fates
  <2>5. Arrivals[l] = task[Out(l)].due /\ Arrivals[l] <= 0
    BY <1>4, <2>1 DEF Arrivals
  <2>6. Promise!ComesFirst(l)
    <3> SUFFICES ASSUME NEW k \in Letters, Fates[k] = "in_transit"
                 PROVE  Arrivals[k] >= Arrivals[l]
      BY DEF Promise!ComesFirst
    <3>1. letter[k] = "in_transit" /\ task[Out(k)].status # "dead_letter"
      BY DEF Fates, Fate
    <3>2. ~(task[Out(k)].due < task[Out(l)].due)
      BY <1>1, <1>2, <3>1 DEF InOrder
    <3>3. Arrivals[k] = task[Out(k)].due /\ task[Out(k)].due \in Int /\ task[Out(l)].due \in Int
      BY <1>2, <3>1, TaskFacts, TaskFieldTypes DEF Arrivals
    <3> QED
      BY <2>5, <3>2, <3>3
  <2>7. Promise!Read(l)
    BY <1>1, <1>5, <2>4, <2>5, <2>6 DEF Promise!Read
  <2> QED
    BY <2>7 DEF PromiseStep, Promise!Next
<1> QED
  BY <1>7, <1>8

\* The arrival of a reply: it is delivered, unless it was before.
LEMMA DeliverMaps ==
  ASSUME IInv, NEW p \in Processes, NEW l \in Letters, DeliverEffect(p, l)
  PROVE  PromiseStep
<1>1. /\ At(p, "work") /\ T(p) = Back(l) /\ Kind(T(p)) = "return"
      /\ reply' = [reply EXCEPT ![l] = IF reply[l] = "in_transit" THEN "delivered_unread" ELSE reply[l]]
      /\ UNCHANGED <<letter, transit, task>>
  BY DEF DeliverEffect
<1>2. Shape /\ BackRow(l) /\ Knows(p)
  BY DEF IInv
<1>3. Exists(Back(l)) /\ task[Back(l)].due <= 0
  BY <1>1, <1>2 DEF Knows, Working, At
<1>4. Fates' = Fates /\ Arrivals' = Arrivals
  BY <1>1 DEF Fates, Fate, Arrivals
<1>5. Returns' = Returns
  BY <1>1, <1>2, <1>3 DEF Returns, Shape, BackRow
<1>6. CASE reply[l] = "in_transit"
  <2>1. reply' = [reply EXCEPT ![l] = "delivered_unread"] /\ Returns[l] <= 0
    BY <1>1, <1>3, <1>6 DEF Returns
  <2>2. Promise!Deliver(l)
    BY <1>1, <1>4, <1>5, <1>6, <2>1 DEF Promise!Deliver
  <2> QED
    BY <2>2 DEF PromiseStep, Promise!Next
<1>7. CASE reply[l] # "in_transit"
  <2>1. reply' = reply
    BY <1>1, <1>2, <1>7 DEF Shape
  <2> QED
    BY <1>1, <1>4, <1>5, <2>1 DEF PromiseStep, Promise!promiseVars
<1> QED
  BY <1>6, <1>7

\* The commit of a reply: it is under way from the arrival of the letter.
LEMMA CommitMaps ==
  ASSUME IInv, NEW p \in Processes, NEW t, NEW l \in Letters, CommitEffect(p, t, l)
  PROVE  PromiseStep
<1>1. /\ letter[l] = "read" /\ reply[l] = "none"
      /\ reply' = [reply EXCEPT ![l] = "in_transit"] /\ UNCHANGED <<letter, transit>>
  BY DEF CommitEffect
<1>2. TaskSet(Back(l), "pending", ReturnDue(l), 0, 0)
  BY DEF CommitEffect
<1>3. /\ task'[Back(l)].due = ReturnDue(l)
      /\ \A u \in Tasks : u # Back(l) => task'[u] = task[u]
  BY <1>2 DEF TaskSet
<1>4. \A k \in Letters : /\ task'[Out(k)] = task[Out(k)]
                         /\ k # l => task'[Back(k)] = task[Back(k)]
  <2>1. \A k \in Letters : Out(k) # Back(l) /\ (k # l => Back(k) # Back(l))
    BY TaskFacts
  <2> QED
    BY <1>3, <2>1, TaskFacts
<1>5. Fates' = Fates /\ Arrivals' = Arrivals
  BY <1>1, <1>4 DEF Fates, Fate, Arrivals
<1>6. Fates[l] = "read" /\ Arrivals[l] = task[Out(l)].due
  BY <1>1 DEF Fates, Fate, Arrivals
<1>7. reply'[l] = "in_transit" /\ \A k \in Letters : k # l => reply'[k] = reply[k]
  BY <1>1 DEF IInv, Shape
<1>8. Returns' = [Returns EXCEPT ![l] = ReturnDue(l)]
  BY <1>3, <1>4, <1>7 DEF Returns
<1>9. Returns' = [Returns EXCEPT ![l] = Arrivals[l] + transit[l]]
  BY <1>6, <1>8 DEF ReturnDue
<1>10. Promise!Answer(l)
  BY <1>1, <1>5, <1>6, <1>9 DEF Promise!Answer
<1> QED
  BY <1>10 DEF PromiseStep, Promise!Next

\* What the user does.
LEMMA UserMaps ==
  ASSUME IInv, NEW l \in Letters, SealEffect(l) \/ AskEffect(l) \/ OpenEffect(l)
  PROVE  PromiseStep
<1>0. Shape
  BY DEF IInv
<1>1. CASE SealEffect(l)
  <2>1. PICK d \in Transits : TaskSet(Out(l), "pending", d, 0, 0) /\ transit' = [transit EXCEPT ![l] = d]
    BY <1>1 DEF SealEffect
  <2>2. /\ letter[l] = "draft" /\ letter' = [letter EXCEPT ![l] = "in_transit"]
        /\ reply' = reply
    BY <1>1 DEF SealEffect
  <2>3. /\ task'[Out(l)].due = d /\ task'[Out(l)].status = "pending"
        /\ \A u \in Tasks : u # Out(l) => task'[u] = task[u]
    BY <2>1 DEF TaskSet
  <2>4. \A k \in Letters : /\ k # l => task'[Out(k)] = task[Out(k)]
                           /\ task'[Back(k)] = task[Back(k)]
    <3>1. \A k \in Letters : Back(k) # Out(l) /\ (k # l => Out(k) # Out(l))
      BY TaskFacts
    <3> QED
      BY <2>3, <3>1, TaskFacts
  <2>5. letter'[l] = "in_transit" /\ \A k \in Letters : k # l => letter'[k] = letter[k]
    BY <1>0, <2>2 DEF Shape
  <2>6. Fates' = [Fates EXCEPT ![l] = "in_transit"] /\ Fates[l] = "draft"
    <3>1. Fate(l) = "draft" /\ Fate(l)' = "in_transit"
      BY <2>2, <2>3, <2>5 DEF Fate
    <3>2. \A k \in Letters : k # l => Fate(k)' = Fate(k)
      BY <2>4, <2>5 DEF Fate
    <3> QED
      BY <3>1, <3>2 DEF Fates
  <2>7. Arrivals' = [Arrivals EXCEPT ![l] = d]
    BY <2>3, <2>4, <2>5 DEF Arrivals
  <2>8. Returns' = Returns
    BY <2>2, <2>4 DEF Returns
  <2>9. Promise!Seal(l, d)
    BY <2>1, <2>2, <2>6, <2>7, <2>8 DEF Promise!Seal
  <2> QED
    BY <2>9 DEF PromiseStep, Promise!Next
<1>2. CASE AskEffect(l)
  <2>1. PICK e \in Epochs : e + 1 \in Epochs /\ TaskSet(Gen(l, e + 1), "pending", 0, 0, 0)
    BY <1>2 DEF AskEffect
  <2>2. /\ UNCHANGED <<letter, transit, reply>>
        /\ \A u \in Tasks : u # Gen(l, e + 1) => task'[u] = task[u]
    BY <1>2, <2>1 DEF AskEffect, rows, TaskSet
  <2>3. \A k \in Letters : task'[Out(k)] = task[Out(k)] /\ task'[Back(k)] = task[Back(k)]
    <3>1. \A k \in Letters : Out(k) # Gen(l, e + 1) /\ Back(k) # Gen(l, e + 1)
      BY <2>1, TaskFacts
    <3> QED
      BY <2>2, <3>1, TaskFacts
  <2>4. \A k \in Letters : Fate(k)' = Fate(k)
    BY <2>2, <2>3 DEF Fate
  <2> QED
    BY <2>2, <2>3, <2>4, Unseen DEF PromiseStep
<1>3. CASE OpenEffect(l)
  <2>1. /\ reply[l] = "delivered_unread" /\ reply' = [reply EXCEPT ![l] = "read"]
        /\ UNCHANGED <<letter, transit, task>>
    BY <1>3 DEF OpenEffect
  <2>2. Fates' = Fates /\ Arrivals' = Arrivals
    BY <2>1 DEF Fates, Fate, Arrivals
  <2>3. Returns' = Returns
    BY <1>0, <2>1 DEF Returns, Shape
  <2>4. Promise!Open(l)
    BY <2>1, <2>2, <2>3 DEF Promise!Open
  <2> QED
    BY <2>4 DEF PromiseStep, Promise!Next
<1> QED
  BY <1>1, <1>2, <1>3

\* The clock: every letter that was sealed, and every reply that was written, grows older.
LEMMA TickMaps ==
  ASSUME IInv, TickEffect
  PROVE  PromiseStep
<1>1. /\ UNCHANGED <<letter, transit, reply>>
      /\ \A t \in Tasks : /\ task'[t].status = task[t].status
                          /\ task'[t].due = IF Ages(t) THEN Older(task[t].due) ELSE task[t].due
  BY DEF TickEffect, rows
<1>2. \A t \in Tasks : Kind(t) # "generation" /\ Exists(t) => Ages(t)
  BY TaskFieldTypes DEF IInv, Ages, Open, Waiting, Settled, Exists, Statuses
<1>3. \A l \in Letters : /\ letter[l] # "draft" => Exists(Out(l))
                         /\ reply[l] # "none" => Exists(Back(l))
  BY DEF IInv, OutRow, BackRow
<1>4. \A x : Promise!Older(x) = Older(x)
  BY DEF Promise!Older, Older
<1>5. \A l \in Letters : /\ letter[l] # "draft" => task'[Out(l)].due = Older(task[Out(l)].due)
                         /\ reply[l] # "none" => task'[Back(l)].due = Older(task[Back(l)].due)
  BY <1>1, <1>2, <1>3, TaskFacts
<1>6. Fates' = Fates /\ \A l \in Letters : Fates[l] = "draft" <=> letter[l] = "draft"
  BY <1>1, TaskFacts DEF Fates, Fate
<1>7. Arrivals' = [l \in Letters |-> IF Fates[l] = "draft" THEN Arrivals[l]
                                    ELSE Promise!Older(Arrivals[l])]
  BY <1>1, <1>4, <1>5, <1>6 DEF Arrivals
<1>8. Returns' = [l \in Letters |-> IF reply[l] = "none" THEN Returns[l]
                                   ELSE Promise!Older(Returns[l])]
  BY <1>1, <1>4, <1>5 DEF Returns
<1>9. Promise!Tick
  BY <1>1, <1>6, <1>7, <1>8 DEF Promise!Tick
<1> QED
  BY <1>9 DEF PromiseStep, Promise!Next

\* The claim of a task, its loss, its end and its retry.
LEMMA HoldMaps ==
  ASSUME IInv, NEW p \in Processes, T(p) \in Tasks,
         ClaimEffect(p, T(p)) \/ SweepEffect(p, T(p)) \/ FinishEffect(p, T(p))
           \/ RetryEffect(p, T(p))
  PROVE  PromiseStep
<1>1. PICK t \in Tasks : t = T(p)
  OBVIOUS
<1>2. UNCHANGED <<letter, transit, reply>>
  BY <1>1 DEF ClaimEffect, SweepEffect, FinishEffect, RetryEffect, rows
<1>3. Shape /\ Knows(p) /\ task[t].due \in Int
  BY TaskFieldTypes DEF IInv
<1>4. CASE ClaimEffect(p, t) \/ SweepEffect(p, t)
  <2>1. /\ At(p, "claim") /\ Free(t, Seen(p))
        /\ \E s \in Statuses : \E n, lease : TaskSet(t, s, task[t].due, n, lease)
    BY <1>4 DEF ClaimEffect, SweepEffect, Statuses
  <2>2. task[t].status # "dead_letter" /\ (Kind(t) # "generation" => task[t].due <= 0)
    BY <1>1, <1>3, <2>1 DEF Free, Waiting, Knows
  <2> QED
    BY <1>2, <1>3, <2>1, <2>2, TaskMaps
<1>5. CASE FinishEffect(p, t)
  <2>1. Kind(t) # "generation" => task[t].due <= 0
    BY <1>1, <1>3, <1>5 DEF FinishEffect, Knows, Working, At
  <2>2. CASE UNCHANGED task
    BY <1>2, <2>2, NoTaskMaps
  <2>3. CASE /\ Owns(p) \/ task[t].status = "completed"
             /\ TaskSet(t, "completed", task[t].due, task[t].attempt, 0)
    <3>1. task[t].status # "dead_letter" /\ "completed" \in Statuses
      BY <1>1, <2>3 DEF Owns, Statuses
    <3> QED
      BY <1>2, <1>3, <2>1, <2>3, <3>1, TaskMaps
  <2> QED
    BY <1>5, <2>2, <2>3 DEF FinishEffect
<1>6. CASE RetryEffect(p, t)
  <2>1. Kind(t) # "generation" => task[t].due <= 0
    BY <1>1, <1>3, <1>6 DEF RetryEffect, Knows, Working, At
  <2>2. CASE UNCHANGED task
    BY <1>2, <2>2, NoTaskMaps
  <2>3. CASE Owns(p) /\ ~UNCHANGED task
    <3>1. PICK s \in {"dead_letter", "retryable"}, due \in Int :
            /\ Kind(t) # "generation" => due = task[t].due
            /\ TaskSet(t, s, due, task[t].attempt, 0)
      BY <1>6, <2>3 DEF RetryEffect
    <3>2. task[t].status # "dead_letter" /\ s \in Statuses
      BY <1>1, <2>3 DEF Owns, Statuses
    <3> QED
      BY <1>2, <2>1, <3>1, <3>2, TaskMaps
  <2> QED
    BY <1>6, <2>2, <2>3 DEF RetryEffect
<1> QED
  BY <1>1, <1>4, <1>5, <1>6

\* The passes, the leases, the attempts and the crashes keep the promise of a
\* correspondence: on time, in order, one reply, as if it was written when the letter came.
THEOREM LettersKeepThePromise == Spec => LetterSpec
<1>1. Init => Promise!Init
  BY DEF Init, Promise!Init, Fates, Fate, Arrivals, Returns
<1>2. IInv /\ Next => PromiseStep
  <2> SUFFICES ASSUME IInv, Next PROVE PromiseStep
    OBVIOUS
  <2>1. StepEffect
    BY StepDoes
  <2>2. ASSUME NEW p \in Processes,
               RestEffect(p) \/ GiveUpEffect(p) \/ (\E t \in Tasks : FindEffect(p, t))
        PROVE  PromiseStep
    BY <2>2, NoTaskMaps DEF RestEffect, GiveUpEffect, FindEffect, rows
  <2>3. ASSUME NEW p \in Processes, T(p) \in Tasks, Of(T(p)) \in Letters,
               WorkEffect(p, T(p), Of(T(p)))
        PROVE  PromiseStep
    <3>1. CASE PreflightEffect(p, T(p)) \/ UnavailableEffect(p, T(p)) \/ FailEffect(p, T(p))
      BY <3>1, NoTaskMaps DEF PreflightEffect, UnavailableEffect, FailEffect, rows
    <3> QED
      BY <2>3, <3>1, HoldMaps, ArriveMaps, DeliverMaps, CommitMaps DEF WorkEffect
  <2> QED
    BY <2>1, <2>2, <2>3, UserMaps, TickMaps DEF StepEffect
<1>3. UNCHANGED vars => UNCHANGED Promise!promiseVars
  BY DEF vars, Promise!promiseVars, Fates, Fate, Arrivals, Returns
<1>4. IInv /\ [Next]_vars => [Promise!Next]_(Promise!promiseVars)
  BY <1>2, <1>3 DEF PromiseStep
<1> QED
  BY <1>1, <1>4, RowsHold, PTL DEF Spec, LetterSpec, Promise!Spec
=============================================================================
