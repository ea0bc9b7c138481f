----------------------- MODULE HostedOperationsProofs -----------------------
(***************************************************************************)
(* Safety of HostedOperations, for any number of requests, messages,       *)
(* failures and restarts.                                                  *)
(*                                                                         *)
(* The inductive invariant says what a request that is under way knows     *)
(* (Handling), and how the rows of a message agree (Row).  A step changes  *)
(* the rows of one message only, and OneHandler keeps them from everybody  *)
(* but the request that takes the step.                                    *)
(***************************************************************************)
EXTENDS HostedOperations, TLAPS

Results == Replies \cup {"none", "bad", "rejected", "broken"}
Handler == [stage : Stages, msg : Messages \cup {None}, input : Inputs \cup {None},
            result : Results]

TurnOf(r) == [input |-> at[r].input, answer |-> at[r].result]

Handled(r) ==
  /\ M(r) \in Messages /\ at[r].input \in Inputs
  /\ op[M(r)].status = "running" /\ op[M(r)].input = at[r].input
  /\ at[r].stage \in {"thinking", "answered"} => turn[M(r)] = NoTurn
  /\ at[r].stage = "answered" =>
       \/ at[r].result \in Answers /\ saved[M(r)] = at[r].result
       \/ at[r].result = "fallback" /\ saved[M(r)] = "none"
  /\ at[r].stage = "committed" => at[r].result \in Replies /\ turn[M(r)] = TurnOf(r)
  /\ at[r].stage = "replying" =>
       \/ at[r].result \in Replies /\ turn[M(r)] = TurnOf(r)
       \/ at[r].result = "rejected" /\ turn[M(r)] = NoTurn
       \/ at[r].result = "broken"

Handling == \A r \in Requests : IF at[r].stage = "idle" THEN at[r] = Gone ELSE Handled(r)

Row(m) ==
  /\ op[m].status = "none" => turn[m] = NoTurn /\ op[m].input = None
  /\ op[m].status = "failed" => turn[m] = NoTurn
  /\ op[m].status = "completed" => /\ op[m].input \in Inputs /\ op[m].result \in Replies
                                   /\ turn[m] = [input |-> op[m].input, answer |-> op[m].result]
  /\ turn[m] # NoTurn => /\ turn[m].input = op[m].input /\ turn[m].input \in Inputs
                         /\ turn[m].answer \in Replies
                         /\ turn[m].answer = saved[m] \/ saved[m] = "none"

Rows == \A m \in Messages : Row(m)

OperationInv == TypeOK /\ OneHandler /\ Handling /\ Rows /\ ToldIsStored

-----------------------------------------------------------------------------
(* What a step of a request does to the requests.                          *)

\* Request r goes on within its handler.
LEMMA GoesOn ==
  ASSUME TypeOK, NEW r \in Requests, NEW s \in Stages, NEW x \in Results, Goes(r, s, x)
  PROVE  /\ at' \in [Requests -> Handler]
         /\ at'[r] = [stage |-> s, msg |-> at[r].msg, input |-> at[r].input, result |-> x]
         /\ \A q \in Requests \ {r} : at'[q] = at[q]
<1>1. at \in [Requests -> Handler]
  BY DEF TypeOK, Handler, Results
<1>2. at' = [at EXCEPT ![r] = [stage |-> s, msg |-> at[r].msg, input |-> at[r].input, result |-> x]]
  BY DEF Goes, M
<1>3. [stage |-> s, msg |-> at[r].msg, input |-> at[r].input, result |-> x] \in Handler
  BY <1>1 DEF Handler
<1> QED
  BY <1>1, <1>2, <1>3

\* A request that goes on keeps its message.
LEMMA GoingKeepsHandlers ==
  ASSUME OperationInv, NEW r \in Requests, at[r].stage # "idle",
         NEW s \in Stages \ {"idle"},
         NEW x \in Results, Goes(r, s, x), UNCHANGED live
  PROVE  OneHandler'
<1>1. at'[r].stage = s /\ at'[r].msg = at[r].msg /\ \A q \in Requests \ {r} : at'[q] = at[q]
  <2>1. TypeOK /\ s \in Stages
    BY DEF OperationInv
  <2>2. /\ at'[r] = [stage |-> s, msg |-> at[r].msg, input |-> at[r].input, result |-> x]
        /\ \A q \in Requests \ {r} : at'[q] = at[q]
    BY <2>1, GoesOn, Zenon
  <2> QED
    BY <2>2
<1>2. Busy' = Busy
  <2>1. \A q \in Requests : at'[q].stage # "idle" <=> at[q].stage # "idle"
    BY <1>1
  <2> QED
    BY <2>1 DEF Busy
<1>3. \A q \in Requests : M(q)' = M(q)
  BY <1>1 DEF M
<1> QED
  <2>1. OneHandler /\ Busy \subseteq Requests
    BY DEF OperationInv, Busy
  <2> QED
    BY <1>2, <1>3, <2>1 DEF OneHandler

\* The requests of other messages see nothing of a step of r.
LEMMA OthersGoOn ==
  ASSUME OperationInv, NEW r \in Requests, at[r].stage # "idle",
         NEW q \in Requests \ {r}, at'[q] = at[q],
         \A m \in Messages \ {M(r)} : /\ op'[m] = op[m]
                                      /\ saved'[m] = saved[m] /\ turn'[m] = turn[m]
  PROVE  IF at'[q].stage = "idle" THEN at'[q] = Gone ELSE Handled(q)'
<1>1. CASE at[q].stage = "idle"
  BY <1>1 DEF OperationInv, Handling
<1>2. CASE at[q].stage # "idle"
  <2>1. Handled(q) /\ M(q) # M(r)
    BY <1>2 DEF OperationInv, Handling, OneHandler, Busy
  <2>2. M(q)' = M(q) /\ TurnOf(q)' = TurnOf(q)
    BY DEF M, TurnOf
  <2> QED
    BY <1>2, <2>1, <2>2 DEF Handled
<1> QED
  BY <1>1, <1>2

\* What a handler owes when it goes on: its own message, nothing else.
LEMMA OneMessageChanges ==
  ASSUME OperationInv, NEW r \in Requests, at[r].stage # "idle",
         NEW k \in Messages, k = M(r),
         NEW s \in Stages \ {"idle"}, NEW x \in Results, Goes(r, s, x),
         UNCHANGED <<op, live, told, crashes>>, faults' \in 0..MaxFaults,
         saved' \in [Messages -> Answers \cup {"none"}],
         turn' \in [Messages -> [input : Inputs \cup {None}, answer : Replies \cup {"none"}]],
         \A m \in Messages \ {k} : saved'[m] = saved[m] /\ turn'[m] = turn[m],
         turn'[k] = turn[k] \/ turn[k] = NoTurn,
         Handled(r)', Row(k)'
  PROVE  OperationInv'
<1>1. TypeOK /\ s \in Stages
  BY DEF OperationInv
<1>2. /\ at' \in [Requests -> Handler]
      /\ at'[r] = [stage |-> s, msg |-> at[r].msg, input |-> at[r].input, result |-> x]
      /\ \A q \in Requests \ {r} : at'[q] = at[q]
  BY <1>1, GoesOn, Zenon
<1>3. TypeOK'
  BY <1>1, <1>2 DEF TypeOK, Handler, Results
<1>4. OneHandler'
  BY GoingKeepsHandlers
<1>5. Handling'
  <2>1. ASSUME NEW q \in Requests \ {r}
        PROVE  IF at'[q].stage = "idle" THEN at'[q] = Gone ELSE Handled(q)'
    BY <1>2, OthersGoOn
  <2>2. at'[r].stage # "idle"
    BY <1>2
  <2> QED
    BY <2>1, <2>2 DEF Handling
<1>6. Rows'
  <2>1. ASSUME NEW m \in Messages \ {k} PROVE Row(m)'
    <3>1. Row(m) /\ op'[m] = op[m] /\ saved'[m] = saved[m] /\ turn'[m] = turn[m]
      BY DEF OperationInv, Rows
    <3> QED
      BY <3>1 DEF Row
  <2> QED
    BY <2>1 DEF Rows
<1>7. ToldIsStored'
  <2> SUFFICES ASSUME NEW t \in told PROVE turn'[t[1]] = [input |-> t[2], answer |-> t[3]]
    BY DEF ToldIsStored
  <2>1. turn[t[1]] = [input |-> t[2], answer |-> t[3]]
    BY DEF OperationInv, ToldIsStored
  <2>3. t[1] \in Messages /\ t[3] \in Replies
    BY <1>1 DEF TypeOK
  <2>2. turn[t[1]] # NoTurn
    BY <2>1, <2>3 DEF NoTurn, Replies
  <2> QED
    BY <2>1, <2>2, <2>3
<1> QED
  BY <1>3, <1>4, <1>5, <1>6, <1>7 DEF OperationInv

\* What it knows of itself when it went on.
LEMMA Arrives ==
  ASSUME OperationInv, NEW r \in Requests, NEW s \in Stages, NEW x \in Results, Goes(r, s, x)
  PROVE  /\ M(r)' = M(r) /\ at'[r].stage = s /\ at'[r].input = at[r].input
         /\ at'[r].result = x
<1>1. TypeOK
  BY DEF OperationInv
<1>2. at'[r] = [stage |-> s, msg |-> at[r].msg, input |-> at[r].input, result |-> x]
  BY <1>1, GoesOn, Zenon
<1> QED
  BY <1>2 DEF M

\* What a request knows that is under way.
LEMMA Knows ==
  ASSUME OperationInv, NEW r \in Requests, at[r].stage # "idle"
  PROVE  TypeOK /\ Handled(r) /\ M(r) \in Messages /\ Row(M(r))
BY DEF OperationInv, Handling, Handled, Rows

-----------------------------------------------------------------------------
(* One lemma for each action.                                              *)

\* No rows and idle requests satisfy the invariant.
LEMMA Initially == Init => OperationInv
<1> SUFFICES ASSUME Init PROVE OperationInv
  OBVIOUS
<1>1. TypeOK
  BY OperationAssumption DEF Init, TypeOK, NoOp, NoTurn, Gone, Stages, Answers, Replies
<1>2. OneHandler
  BY DEF Init, OneHandler, Busy, Gone
<1>3. Handling
  BY DEF Init, Handling, Gone
<1>4. Rows
  BY DEF Init, Rows, Row, NoOp
<1>5. ToldIsStored
  BY DEF Init, ToldIsStored
<1> QED
  BY <1>1, <1>2, <1>3, <1>4, <1>5 DEF OperationInv

\* A request that enters its section finds no turn, or its own.
LEMMA EnterKeeps ==
  ASSUME OperationInv, NEW r \in Requests, Enter(r)
  PROVE  OperationInv'
<1>0. PICK k : k = M(r)
  OBVIOUS
<1> USE <1>0
<1>1. at[r].stage = "waiting"
  BY DEF Enter
<1>2. TypeOK /\ Handled(r) /\ k \in Messages /\ Row(k)
  BY <1>1, Knows
<1>3. UNCHANGED <<op, saved, turn, live, told, faults, crashes>>
  BY DEF Enter, databases
<1>4. Row(k)'
  BY <1>2, <1>3 DEF Row
<1>5. CASE turn[k] # NoTurn
  <2>1. turn[k].answer \in Replies /\ turn[k] = [input |-> at[r].input, answer |-> turn[k].answer]
    BY <1>2, <1>5 DEF Row, TypeOK, Handled
  <2>2. Goes(r, "replying", turn[k].answer) /\ "replying" \in Stages \ {"idle"} /\ turn[k].answer \in Results
    BY <1>5, <2>1 DEF Enter, HasTurn, Stages, Results
  <2>3. M(r)' = M(r) /\ at'[r].stage = "replying" /\ at'[r].input = at[r].input /\ at'[r].result = turn[k].answer
    BY <2>2, Arrives
  <2>4. Handled(r)'
    BY <1>2, <1>3, <2>1, <2>3 DEF Handled, TurnOf
  <2> QED
    BY <1>1, <1>2, <1>3, <1>4, <2>2, <2>4, OneMessageChanges DEF TypeOK
<1>6. CASE turn[k] = NoTurn
  <2>2. Goes(r, "thinking", "none") /\ "thinking" \in Stages \ {"idle"} /\ "none" \in Results
    BY <1>6 DEF Enter, HasTurn, Stages, Results
  <2>3. M(r)' = M(r) /\ at'[r].stage = "thinking" /\ at'[r].input = at[r].input /\ at'[r].result = "none"
    BY <2>2, Arrives
  <2>4. Handled(r)'
    BY <1>2, <1>3, <1>6, <2>3 DEF Handled
  <2> QED
    BY <1>1, <1>2, <1>3, <1>4, <2>2, <2>4, OneMessageChanges DEF TypeOK
<1> QED
  BY <1>5, <1>6

\* The model answers: only the request itself knows.
LEMMA ThinkKeeps ==
  ASSUME OperationInv, NEW r \in Requests, Think(r)
  PROVE  OperationInv'
<1>0. PICK k : k = M(r)
  OBVIOUS
<1> USE <1>0
<1>1. at[r].stage = "thinking"
  BY DEF Think
<1>2. TypeOK /\ Handled(r) /\ k \in Messages /\ Row(k) /\ turn[k] = NoTurn
  BY <1>1, Knows DEF Handled
<1>3. UNCHANGED <<op, turn, live, told, faults, crashes>>
  BY DEF Think
<1>4. PICK a \in Answers : saved' = [saved EXCEPT ![k] = a] /\ Goes(r, "answered", a)
  BY DEF Think
<1>5. /\ saved' \in [Messages -> Answers \cup {"none"}] /\ saved'[k] = a
      /\ \A m \in Messages \ {k} : saved'[m] = saved[m]
  BY <1>2, <1>4 DEF TypeOK
<1>6. "answered" \in Stages \ {"idle"} /\ a \in Results
  BY DEF Stages, Results, Answers, Replies
<1>7. M(r)' = M(r) /\ at'[r].stage = "answered" /\ at'[r].input = at[r].input /\ at'[r].result = a
  BY <1>4, <1>6, Arrives
<1>8. Handled(r)'
  BY <1>2, <1>3, <1>5, <1>7 DEF Handled
<1>9. Row(k)'
  BY <1>2, <1>3 DEF Row
<1> QED
  BY <1>1, <1>2, <1>3, <1>4, <1>5, <1>6, <1>8, <1>9, OneMessageChanges DEF TypeOK

\* The turn is committed, and it is the turn of this request.
LEMMA CommitKeeps ==
  ASSUME OperationInv, NEW r \in Requests, Commit(r)
  PROVE  OperationInv'
<1>0. PICK k : k = M(r)
  OBVIOUS
<1> USE <1>0
<1>1. at[r].stage = "answered" /\ at[r].result # "bad"
  BY DEF Commit
<1>2. TypeOK /\ Handled(r) /\ k \in Messages /\ Row(k) /\ turn[k] = NoTurn
  BY <1>1, Knows DEF Handled
<1>3. UNCHANGED <<op, saved, live, told, faults, crashes>>
  BY DEF Commit
<1>4. turn' = [turn EXCEPT ![k] = TurnOf(r)] /\ Goes(r, "committed", at[r].result)
  BY <1>2 DEF Commit, HasTurn, TurnOf
<1>5. /\ at[r].result \in Replies /\ at[r].input \in Inputs /\ op[k].status = "running"
      /\ at[r].result = saved[k] \/ saved[k] = "none"
  BY <1>1, <1>2 DEF Handled, Answers, Replies
<1>6. TurnOf(r) \in [input : Inputs \cup {None}, answer : Replies \cup {"none"}]
  BY <1>5 DEF TurnOf
<1>7. /\ turn' \in [Messages -> [input : Inputs \cup {None}, answer : Replies \cup {"none"}]]
      /\ turn'[k] = TurnOf(r) /\ \A m \in Messages \ {k} : turn'[m] = turn[m]
  BY <1>2, <1>4, <1>6 DEF TypeOK
<1>8. "committed" \in Stages \ {"idle"} /\ at[r].result \in Results
  BY <1>5 DEF Stages, Results
<1>9. M(r)' = M(r) /\ at'[r].stage = "committed" /\ at'[r].input = at[r].input /\ at'[r].result = at[r].result
  BY <1>4, <1>8, Arrives
<1>10. Handled(r)'
  BY <1>2, <1>3, <1>5, <1>7, <1>9 DEF Handled, TurnOf
<1>11. Row(k)'
  <2>1. turn'[k].input = op[k].input /\ turn'[k].answer = at[r].result
    BY <1>2, <1>7 DEF TurnOf, Handled
  <2> QED
    BY <1>2, <1>3, <1>5, <2>1 DEF Row, Handled
<1> QED
  BY <1>1, <1>2, <1>3, <1>4, <1>7, <1>8, <1>10, <1>11, OneMessageChanges DEF TypeOK

\* The steps that only end the turn, or fall back, write no database.
LEMMA PlainKeeps ==
  ASSUME OperationInv, NEW r \in Requests,
         FallBack(r) \/ Leave(r) \/ Reject(r) \/ Incomplete(r) \/ Break(r)
  PROVE  OperationInv'
<1>0. PICK k : k = M(r)
  OBVIOUS
<1> USE <1>0
<1>1. at[r].stage \in {"waiting", "thinking", "answered", "committed"}
  BY DEF FallBack, Leave, Reject, Incomplete, Break
<1>2. TypeOK /\ Handled(r) /\ k \in Messages /\ Row(k)
  BY <1>1, Knows
<1>3. UNCHANGED <<op, saved, turn, live, told, crashes>>
  BY DEF FallBack, Leave, Reject, Incomplete, Break, databases
<1>4. faults' \in 0..MaxFaults
  BY <1>2, OperationAssumption DEF TypeOK, FallBack, Leave, Reject, Incomplete, Break
<1>5. Row(k)'
  BY <1>2, <1>3 DEF Row
<1>6. SUFFICES ASSUME NEW s \in Stages \ {"idle"}, NEW x \in Results, Goes(r, s, x),
                      Handled(r)'
               PROVE  OperationInv'
  <2>1. CASE FallBack(r)
    <3>1. Goes(r, "answered", "fallback") /\ "answered" \in Stages \ {"idle"} /\ "fallback" \in Results
      BY <2>1 DEF FallBack, Stages, Results, Replies
    <3>2. M(r)' = M(r) /\ at'[r].stage = "answered" /\ at'[r].input = at[r].input /\ at'[r].result = "fallback"
      BY <3>1, Arrives
    <3>3. Handled(r)'
      BY <1>2, <1>3, <2>1, <3>2 DEF Handled, FallBack
    <3> QED
      BY <1>6, <3>1, <3>3
  <2>2. CASE Leave(r)
    <3>1. at[r].stage = "committed" /\ Goes(r, "replying", at[r].result)
      BY <2>2 DEF Leave
    <3>2. "replying" \in Stages \ {"idle"} /\ at[r].result \in Results /\ at[r].result \in Replies /\ turn[k] = TurnOf(r)
      BY <1>2, <3>1 DEF Handled, Stages, Results
    <3>3. M(r)' = M(r) /\ at'[r].stage = "replying" /\ at'[r].input = at[r].input /\ at'[r].result = at[r].result
      BY <3>1, <3>2, Arrives
    <3>4. Handled(r)'
      BY <1>2, <1>3, <3>2, <3>3 DEF Handled, TurnOf
    <3> QED
      BY <1>6, <3>1, <3>2, <3>4
  <2>3. CASE Reject(r)
    <3>1. Goes(r, "replying", "rejected") /\ "replying" \in Stages \ {"idle"} /\ "rejected" \in Results /\ turn[k] = NoTurn
      BY <2>3 DEF Reject, Stages, Results, HasTurn
    <3>2. M(r)' = M(r) /\ at'[r].stage = "replying" /\ at'[r].input = at[r].input /\ at'[r].result = "rejected"
      BY <3>1, Arrives
    <3>3. Handled(r)'
      BY <1>2, <1>3, <3>1, <3>2 DEF Handled
    <3> QED
      BY <1>6, <3>1, <3>3
  <2>4. CASE Incomplete(r) \/ Break(r)
    <3>1. Goes(r, "replying", "broken") /\ "replying" \in Stages \ {"idle"} /\ "broken" \in Results
      BY <2>4 DEF Incomplete, Break, Stages, Results
    <3>2. M(r)' = M(r) /\ at'[r].stage = "replying" /\ at'[r].input = at[r].input /\ at'[r].result = "broken"
      BY <3>1, Arrives
    <3>3. Handled(r)'
      BY <1>2, <1>3, <3>2 DEF Handled
    <3> QED
      BY <1>6, <3>1, <3>3
  <2> QED
    BY <2>1, <2>2, <2>3, <2>4
<1> QED
  BY <1>1, <1>2, <1>3, <1>4, <1>5, <1>6, OneMessageChanges DEF TypeOK

\* A handler that ends is known to nobody any more.
LEMMA EndingKeeps ==
  ASSUME OperationInv, NEW r \in Requests, Ends(r), NEW k \in Messages, k = M(r),
         op' \in [Messages -> [status : {"none", "running", "completed", "failed"},
                              input : Inputs \cup {None}, result : Replies \cup {"none"}]],
         \A m \in Messages \ {k} : op'[m] = op[m],
         Row(k)', faults' \in 0..MaxFaults,
         told' \subseteq Messages \X Inputs \X Replies, ToldIsStored'
  PROVE  OperationInv'
<1>1. TypeOK /\ at[r].stage = "replying"
  BY DEF OperationInv, Ends
<1>2. /\ UNCHANGED <<saved, turn, crashes>> /\ live' = live \ {k}
      /\ at'[r] = Gone /\ \A q \in Requests \ {r} : at'[q] = at[q]
  BY <1>1 DEF Ends, TypeOK
<1>3. TypeOK'
  <2>1. at' \in [Requests -> Handler]
    <3>1. at \in [Requests -> Handler] /\ Gone \in Handler
      BY <1>1 DEF TypeOK, Handler, Results, Gone, Stages
    <3> QED
      BY <3>1 DEF Ends
  <2> QED
    BY <1>1, <1>2, <2>1 DEF TypeOK, Handler, Results
<1>4. OneHandler'
  <2>1. OneHandler /\ Busy \subseteq Requests /\ r \in Busy
    BY <1>1 DEF OperationInv, Busy
  <2>2. Busy' = Busy \ {r}
    <3>1. \A q \in Requests \ {r} : at'[q].stage # "idle" <=> at[q].stage # "idle"
      BY <1>2
    <3>2. at'[r].stage = "idle"
      BY <1>2 DEF Gone
    <3> QED
      BY <3>1, <3>2 DEF Busy
  <2>3. \A q \in Requests \ {r} : M(q)' = M(q)
    BY <1>2 DEF M
  <2>4. \A p, q \in Busy \ {r} : M(p)' = M(q)' => p = q
    BY <2>1, <2>3 DEF OneHandler
  <2>5. live' = {M(q)' : q \in Busy \ {r}}
    <3>1. \A q \in Busy : M(q) = k => q = r
      BY <2>1 DEF OneHandler
    <3>2. live' = {M(q) : q \in Busy} \ {k}
      BY <1>2, <2>1 DEF OneHandler
    <3> QED
      BY <2>1, <2>3, <3>1, <3>2
  <2> QED
    BY <2>2, <2>4, <2>5 DEF OneHandler
<1>5. Handling'
  <2>1. ASSUME NEW q \in Requests \ {r}
        PROVE  IF at'[q].stage = "idle" THEN at'[q] = Gone ELSE Handled(q)'
    BY <1>1, <1>2, OthersGoOn
  <2>2. at'[r] = Gone /\ at'[r].stage = "idle"
    BY <1>2 DEF Gone
  <2> QED
    BY <2>1, <2>2 DEF Handling
<1>6. Rows'
  <2>1. ASSUME NEW m \in Messages \ {k} PROVE Row(m)'
    <3>1. Row(m) /\ op'[m] = op[m] /\ saved'[m] = saved[m] /\ turn'[m] = turn[m]
      BY <1>2 DEF OperationInv, Rows
    <3> QED
      BY <3>1 DEF Row
  <2> QED
    BY <2>1 DEF Rows
<1> QED
  BY <1>3, <1>4, <1>5, <1>6 DEF OperationInv

\* The row of an operation that runs is finished.
LEMMA Finishing ==
  ASSUME OperationInv, NEW k \in Messages, op[k].status = "running",
         NEW s \in {"completed", "failed"}, NEW x \in Replies \cup {"none"}, Finish(k, s, x)
  PROVE  /\ op' \in [Messages -> [status : {"none", "running", "completed", "failed"},
                                  input : Inputs \cup {None}, result : Replies \cup {"none"}]]
         /\ op'[k].status = s /\ op'[k].input = op[k].input /\ op'[k].result = x
         /\ \A m \in Messages \ {k} : op'[m] = op[m]
<1>1. op' = [op EXCEPT ![k].status = s, ![k].result = x]
  BY DEF Finish
<1>2. op \in [Messages -> [status : {"none", "running", "completed", "failed"},
                          input : Inputs \cup {None}, result : Replies \cup {"none"}]]
  BY DEF OperationInv, TypeOK
<1> QED
  BY <1>1, <1>2

\* The answer is stored before the client is told.
LEMMA AnsweredKeeps ==
  ASSUME OperationInv, NEW r \in Requests, Answered(r)
  PROVE  OperationInv'
<1>0. PICK k : k = M(r)
  OBVIOUS
<1> USE <1>0
<1>1. /\ Ends(r) /\ at[r].stage = "replying" /\ at[r].result \notin {"rejected", "broken"}
      /\ Finish(k, "completed", at[r].result)
      /\ told' = told \cup {<<k, at[r].input, at[r].result>>} /\ faults' = faults
  BY DEF Answered, Ends
<1>2. TypeOK /\ Handled(r) /\ k \in Messages /\ Row(k)
  BY <1>1, Knows
<1>3. /\ at[r].result \in Replies /\ at[r].input \in Inputs /\ turn[k] = TurnOf(r)
      /\ op[k].status = "running" /\ op[k].input = at[r].input /\ UNCHANGED <<turn, saved>>
  BY <1>1, <1>2 DEF Handled, Ends
<1>4. /\ op' \in [Messages -> [status : {"none", "running", "completed", "failed"},
                              input : Inputs \cup {None}, result : Replies \cup {"none"}]]
      /\ op'[k].status = "completed" /\ op'[k].input = op[k].input /\ op'[k].result = at[r].result
      /\ \A m \in Messages \ {k} : op'[m] = op[m]
  BY <1>1, <1>2, <1>3, Finishing
<1>5. Row(k)'
  BY <1>2, <1>3, <1>4 DEF Row, TurnOf
<1>6. told' \subseteq Messages \X Inputs \X Replies
  BY <1>1, <1>2, <1>3 DEF TypeOK
<1>7. ToldIsStored'
  <2> SUFFICES ASSUME NEW t \in told' PROVE turn[t[1]] = [input |-> t[2], answer |-> t[3]]
    BY <1>3 DEF ToldIsStored
  <2>1. CASE t \in told
    BY <2>1 DEF OperationInv, ToldIsStored
  <2>2. CASE t = <<k, at[r].input, at[r].result>>
    BY <1>3, <2>2 DEF TurnOf
  <2> QED
    BY <1>1, <2>1, <2>2
<1> QED
  BY <1>1, <1>2, <1>4, <1>5, <1>6, <1>7, EndingKeeps DEF TypeOK

\* A turn that fails leaves its message failed or open.
LEMMA RejectedKeeps ==
  ASSUME OperationInv, NEW r \in Requests, Rejected(r)
  PROVE  OperationInv'
<1>0. PICK k : k = M(r)
  OBVIOUS
<1> USE <1>0
<1>1. /\ Ends(r) /\ at[r].stage = "replying" /\ at[r].result = "rejected"
      /\ Finish(k, "failed", "none") /\ UNCHANGED <<told, faults>>
  BY DEF Rejected, Ends
<1>2. TypeOK /\ Handled(r) /\ k \in Messages /\ Row(k)
  BY <1>1, Knows
<1>3. turn[k] = NoTurn /\ op[k].status = "running" /\ UNCHANGED <<turn, saved>>
  BY <1>1, <1>2 DEF Handled, Ends, Replies
<1>4. /\ op' \in [Messages -> [status : {"none", "running", "completed", "failed"},
                              input : Inputs \cup {None}, result : Replies \cup {"none"}]]
      /\ op'[k].status = "failed" /\ \A m \in Messages \ {k} : op'[m] = op[m]
  BY <1>1, <1>2, <1>3, Finishing
<1>5. Row(k)'
  BY <1>3, <1>4 DEF Row
<1>6. ToldIsStored'
  BY <1>1, <1>3 DEF OperationInv, ToldIsStored
<1> QED
  BY <1>1, <1>2, <1>4, <1>5, <1>6, EndingKeeps DEF TypeOK

\* A server failure leaves the row as it is.
LEMMA FailedKeeps ==
  ASSUME OperationInv, NEW r \in Requests, Broken(r) \/ Unstored(r)
  PROVE  OperationInv'
<1>0. PICK k : k = M(r)
  OBVIOUS
<1> USE <1>0
<1>1. Ends(r) /\ at[r].stage = "replying" /\ UNCHANGED <<op, told>>
  BY DEF Broken, Unstored, Ends
<1>2. TypeOK /\ Handled(r) /\ k \in Messages /\ Row(k)
  BY <1>1, Knows
<1>3. faults' \in 0..MaxFaults
  BY <1>2, OperationAssumption DEF TypeOK, Broken, Unstored
<1>4. UNCHANGED <<turn, saved>>
  BY <1>1 DEF Ends
<1>5. Row(k)' /\ ToldIsStored'
  BY <1>1, <1>2, <1>4 DEF Row, OperationInv, ToldIsStored
<1> QED
  BY <1>1, <1>2, <1>3, <1>5, EndingKeeps DEF TypeOK

\* A new message has no rows.
LEMMA BeginKeeps ==
  ASSUME OperationInv, NEW r \in Requests, NEW k \in Messages, NEW i \in Inputs,
         Begin(r, k, i)
  PROVE  OperationInv'
<1>1. /\ TypeOK /\ at[r] = Gone /\ SameInput(k, i) /\ op[k].status \in {"none", "running"}
      /\ k \notin live /\ live' = live \cup {k}
      /\ UNCHANGED <<saved, turn, told, faults, crashes>> /\ Row(k)
  BY DEF OperationInv, Begin, Handles, Rows
<1>2. /\ op' = [op EXCEPT ![k] = [status |-> "running", input |-> i, result |-> "none"]]
      /\ at' = [at EXCEPT ![r] = [stage |-> "waiting", msg |-> k, input |-> i, result |-> "none"]]
  BY DEF Begin
<1>3. /\ op'[k] = [status |-> "running", input |-> i, result |-> "none"]
      /\ \A m \in Messages \ {k} : op'[m] = op[m]
      /\ at'[r] = [stage |-> "waiting", msg |-> k, input |-> i, result |-> "none"]
      /\ \A q \in Requests \ {r} : at'[q] = at[q]
  BY <1>1, <1>2 DEF TypeOK
<1>4. at'[r].stage = "waiting" /\ at'[r].input = i /\ M(r)' = k /\ at[r].stage = "idle"
  BY <1>1, <1>3 DEF M, Gone
<1>5. TypeOK'
  <2>1. op' \in [Messages -> [status : {"none", "running", "completed", "failed"},
                             input : Inputs \cup {None}, result : Replies \cup {"none"}]]
    BY <1>1, <1>2 DEF TypeOK
  <2>2. at' \in [Requests -> Handler]
    <3>1. at \in [Requests -> Handler]
      BY <1>1 DEF TypeOK, Handler, Results
    <3>2. [stage |-> "waiting", msg |-> k, input |-> i, result |-> "none"] \in Handler
      BY DEF Handler, Stages, Results
    <3> QED
      BY <1>2, <3>1, <3>2
  <2> QED
    BY <1>1, <2>1, <2>2 DEF TypeOK, Handler, Results
<1>6. \A q \in Busy : M(q) # k /\ q # r
  BY <1>1, <1>4 DEF OperationInv, OneHandler, Busy
<1>7. OneHandler'
  <2>1. OneHandler /\ Busy \subseteq Requests
    BY DEF OperationInv, Busy
  <2>2. Busy' = Busy \cup {r}
    <3>1. \A q \in Requests \ {r} : at'[q].stage # "idle" <=> at[q].stage # "idle"
      BY <1>3
    <3> QED
      BY <1>4, <3>1 DEF Busy
  <2>3. \A q \in Requests \ {r} : M(q)' = M(q)
    BY <1>3 DEF M
  <2>4. \A p, q \in Busy \cup {r} : M(p)' = M(q)' => p = q
    BY <1>4, <1>6, <2>1, <2>3 DEF OneHandler
  <2>5. live' = {M(q)' : q \in Busy \cup {r}}
    <3>1. live = {M(q) : q \in Busy}
      BY <2>1 DEF OneHandler
    <3> QED
      BY <1>1, <1>4, <1>6, <2>1, <2>3, <3>1
  <2> QED
    BY <2>2, <2>4, <2>5 DEF OneHandler
<1>8. Handling'
  <2>1. Handled(r)'
    BY <1>3, <1>4 DEF Handled
  <2>2. ASSUME NEW q \in Requests \ {r}
        PROVE  IF at'[q].stage = "idle" THEN at'[q] = Gone ELSE Handled(q)'
    <3>1. CASE at[q].stage = "idle"
      BY <1>3, <3>1 DEF OperationInv, Handling
    <3>2. CASE at[q].stage # "idle"
      <4>1. Handled(q) /\ M(q) # k
        BY <1>6, <3>2 DEF OperationInv, Handling, Busy
      <4>2. M(q)' = M(q) /\ TurnOf(q)' = TurnOf(q) /\ at'[q] = at[q]
        BY <1>3 DEF M, TurnOf
      <4> QED
        BY <1>1, <1>3, <3>2, <4>1, <4>2 DEF Handled
    <3> QED
      BY <3>1, <3>2
  <2> QED
    BY <1>4, <2>1, <2>2 DEF Handling
<1>9. Rows'
  <2>1. ASSUME NEW m \in Messages \ {k} PROVE Row(m)'
    <3>1. Row(m) /\ op'[m] = op[m]
      BY <1>3 DEF OperationInv, Rows
    <3> QED
      BY <1>1, <3>1 DEF Row
  <2>2. Row(k)'
    <3>1. turn[k] # NoTurn => op[k].input = i
      BY <1>1 DEF SameInput, Row
    <3> QED
      BY <1>1, <1>3, <3>1 DEF Row
  <2> QED
    BY <2>1, <2>2 DEF Rows
<1>10. ToldIsStored'
  BY <1>1 DEF OperationInv, ToldIsStored
<1> QED
  BY <1>5, <1>7, <1>8, <1>9, <1>10 DEF OperationInv

\* A repeated message is answered from its row, or goes on.
LEMMA RepeatKeeps ==
  ASSUME OperationInv, NEW r \in Requests, NEW k \in Messages, NEW i \in Inputs,
         Repeat(r, k, i)
  PROVE  OperationInv'
<1>1. /\ UNCHANGED <<op, saved, turn, live, at, faults, crashes>>
      /\ op[k].status \in {"completed", "failed"} /\ op[k].input = i /\ Row(k)
  BY DEF Repeat, databases, SameInput, OperationInv, Rows
<1>2. /\ told' \subseteq Messages \X Inputs \X Replies
      /\ \A t \in told' : turn[t[1]] = [input |-> t[2], answer |-> t[3]]
  <2>1. told \subseteq Messages \X Inputs \X Replies
        /\ \A t \in told : turn[t[1]] = [input |-> t[2], answer |-> t[3]]
    BY DEF OperationInv, TypeOK, ToldIsStored
  <2>2. CASE op[k].status = "completed"
    <3>1. /\ told' = told \cup {<<k, i, op[k].result>>} /\ op[k].result \in Replies
          /\ turn[k] = [input |-> i, answer |-> op[k].result]
      BY <1>1, <2>2 DEF Repeat, Row
    <3>2. ASSUME NEW t \in told' PROVE turn[t[1]] = [input |-> t[2], answer |-> t[3]]
      <4>1. CASE t \in told
        BY <2>1, <4>1
      <4>2. CASE t = <<k, i, op[k].result>>
        BY <3>1, <4>2
      <4> QED
        BY <3>1, <4>1, <4>2
    <3> QED
      BY <2>1, <3>1, <3>2
  <2>3. CASE op[k].status # "completed"
    BY <2>1, <2>3 DEF Repeat
  <2> QED
    BY <2>2, <2>3
<1>3. TypeOK' /\ ToldIsStored'
  BY <1>1, <1>2 DEF OperationInv, TypeOK, ToldIsStored
<1>4. OneHandler' /\ Rows' /\ Handling'
  BY <1>1 DEF OperationInv, OneHandler, Rows, Row, Handling, Handled, Busy, M, TurnOf
<1> QED
  BY <1>3, <1>4 DEF OperationInv

\* A crash takes the requests away and leaves the rows.
LEMMA CrashKeeps ==
  ASSUME OperationInv, Crash
  PROVE  OperationInv'
<1>1. /\ UNCHANGED <<op, saved, turn, told, faults>> /\ live' = {}
      /\ at' = [q \in Requests |-> Gone] /\ TypeOK /\ crashes' \in 0..MaxCrashes
  BY OperationAssumption DEF Crash, databases, OperationInv, TypeOK
<1>2. \A q \in Requests : at'[q] = Gone /\ at'[q].stage = "idle"
  BY <1>1 DEF Gone
<1>3. TypeOK'
  BY <1>1 DEF TypeOK, Gone, Stages
<1>4. OneHandler' /\ Handling'
  BY <1>1, <1>2 DEF OneHandler, Busy, Handling
<1>5. Rows' /\ ToldIsStored'
  BY <1>1 DEF OperationInv, Rows, Row, ToldIsStored
<1> QED
  BY <1>3, <1>4, <1>5 DEF OperationInv

\* Nothing happens.
LEMMA StutterKeeps ==
  ASSUME OperationInv, UNCHANGED vars
  PROVE  OperationInv'
<1>1. UNCHANGED <<op, saved, turn, live, at, told, faults, crashes>>
  BY DEF vars, databases
<1> QED
  BY <1>1 DEF OperationInv, TypeOK, OneHandler, Rows, Row, Handling, Handled, Busy, M,
              TurnOf, ToldIsStored

-----------------------------------------------------------------------------
\* The invariant is inductive.
LEMMA Inductive == Spec => []OperationInv
<1>1. Init => OperationInv
  BY Initially
<1>2. OperationInv /\ [Next]_vars => OperationInv'
  <2> SUFFICES ASSUME OperationInv, [Next]_vars PROVE OperationInv'
    OBVIOUS
  <2>1. ASSUME NEW r \in Requests, NEW m \in Messages, NEW i \in Inputs,
               Begin(r, m, i) \/ Repeat(r, m, i)
        PROVE  OperationInv'
    BY <2>1, BeginKeeps, RepeatKeeps
  <2>2. ASSUME NEW r \in Requests, Progress(r) PROVE OperationInv'
    <3>1. CASE Reply(r)
      BY <3>1, AnsweredKeeps, RejectedKeeps, FailedKeeps DEF Reply
    <3>2. CASE ~Reply(r)
      BY <2>2, <3>2, EnterKeeps, ThinkKeeps, CommitKeeps, PlainKeeps DEF Progress
    <3> QED
      BY <3>1, <3>2
  <2>3. CASE Crash
    BY <2>3, CrashKeeps
  <2>4. CASE UNCHANGED vars
    BY <2>4, StutterKeeps
  <2> QED
    BY <2>1, <2>2, <2>3, <2>4 DEF Next
<1> QED
  BY <1>1, <1>2, PTL DEF Spec

\* Every variable of the operations and turns keeps its type: what is committed, stored
\* or told is a complete reply.
THEOREM OperationsTypes == Spec => []TypeOK
<1>1. OperationInv => TypeOK
  BY DEF OperationInv
<1> QED
  BY <1>1, Inductive, PTL

\* A message is handled by one request at a time, and liveOperations holds exactly the
\* messages that are handled.
THEOREM OneHandlerAtATime == Spec => []OneHandler
<1>1. OperationInv => OneHandler
  BY DEF OperationInv
<1> QED
  BY <1>1, Inductive, PTL

\* What a client was told of is in the database of the account, whatever failed or
\* restarted between the commit of the turn and the answer.
THEOREM ToldStaysStored == Spec => []ToldIsStored
<1>1. OperationInv => ToldIsStored
  BY DEF OperationInv
<1> QED
  BY <1>1, Inductive, PTL

\* The operation, the turn and the answer that was paid for agree, although they are
\* written to three databases one after the other.
THEOREM RowsAlwaysAgree == Spec => []RowsAgree
<1>1. OperationInv => RowsAgree
  <2> SUFFICES ASSUME OperationInv, NEW m \in Messages
               PROVE  /\ op[m].status = "completed" =>
                           turn[m] = [input |-> op[m].input, answer |-> op[m].result]
                      /\ op[m].status = "failed" => ~HasTurn(m)
                      /\ HasTurn(m) => turn[m].answer = saved[m] \/ saved[m] = "none"
    BY DEF RowsAgree
  <2>1. Row(m)
    BY DEF OperationInv, Rows
  <2> QED
    BY <2>1 DEF Row, HasTurn
<1> QED
  BY <1>1, Inductive, PTL

-----------------------------------------------------------------------------
(* HostedOperations implements MessagePromise.  Only five kinds of step    *)
(* are seen by the promise; each lemma maps one.                           *)

\* What the promise sees of a step that writes the row of one message.
LEMMA RowIsSeen ==
  ASSUME NEW k \in Messages, \A m \in Messages \ {k} : op'[m] = op[m]
  PROVE  /\ InputOf' = [InputOf EXCEPT ![k] = op'[k].input]
         /\ op'[k].status = "completed" => VerdictOf' = [VerdictOf EXCEPT ![k] = "answered"]
         /\ op'[k].status = "failed" => VerdictOf' = [VerdictOf EXCEPT ![k] = "refused"]
         /\ op'[k].status \in {"none", "running"} => VerdictOf' = [VerdictOf EXCEPT ![k] = "open"]
         /\ op'[k].input = op[k].input => InputOf' = InputOf
BY DEF InputOf, VerdictOf

\* A message that runs is open for the promise and has its input.
LEMMA OpenIsSeen ==
  ASSUME OperationInv, NEW k \in Messages, op[k].status = "running"
  PROVE  /\ VerdictOf[k] = "open" /\ InputOf[k] = op[k].input
         /\ VerdictOf = [VerdictOf EXCEPT ![k] = "open"]
         /\ \A i \in Inputs : op[k].input = i => InputOf[k] # None
BY OperationAssumption DEF VerdictOf, InputOf

\* A new message takes its input; a repetition is a stutter.
LEMMA BeginMaps ==
  ASSUME OperationInv, NEW r \in Requests, NEW k \in Messages, NEW i \in Inputs,
         Begin(r, k, i)
  PROVE  Promise!Take(k, i) \/ UNCHANGED Promise!promiseVars
<1>1. /\ op' = [op EXCEPT ![k] = [status |-> "running", input |-> i, result |-> "none"]]
      /\ op[k].status \in {"none", "running"} /\ SameInput(k, i) /\ UNCHANGED <<turn, told>>
  BY DEF Begin, Handles
<1>2. /\ op'[k] = [status |-> "running", input |-> i, result |-> "none"]
      /\ \A m \in Messages \ {k} : op'[m] = op[m]
  BY <1>1 DEF OperationInv, TypeOK
<1>3. VerdictOf' = VerdictOf
  <2>1. VerdictOf' = [VerdictOf EXCEPT ![k] = "open"] /\ VerdictOf = [VerdictOf EXCEPT ![k] = "open"]
    <3>1. op'[k].status = "running"
      BY <1>2
    <3>2. VerdictOf[k] = "open"
      BY <1>1 DEF VerdictOf
    <3> QED
      BY <1>2, <3>1, <3>2, RowIsSeen DEF VerdictOf
  <2> QED
    BY <2>1
<1>4. CASE op[k].status = "none"
  <2>1. op[k].input = None
    BY <1>4 DEF OperationInv, Rows, Row
  <2>2. InputOf' = [InputOf EXCEPT ![k] = i] /\ InputOf[k] = None
    BY <1>2, <2>1, RowIsSeen DEF InputOf
  <2> QED
    BY <1>1, <1>3, <2>2 DEF Promise!Take
<1>5. CASE op[k].status = "running"
  <2>1. op[k].input = i
    BY <1>1, <1>5 DEF SameInput
  <2>2. InputOf' = InputOf
    BY <1>2, <2>1, RowIsSeen
  <2> QED
    BY <1>1, <1>3, <2>2 DEF Promise!promiseVars
<1> QED
  BY <1>1, <1>4, <1>5

\* The steps inside a handler are unseen, but for the commit.
LEMMA InsideMaps ==
  ASSUME OperationInv, NEW r \in Requests,
         Enter(r) \/ Think(r) \/ FallBack(r) \/ Leave(r) \/ Reject(r) \/ Incomplete(r)
           \/ Break(r) \/ Broken(r) \/ Unstored(r)
  PROVE  UNCHANGED Promise!promiseVars
<1>1. UNCHANGED <<op, turn, told>>
  BY DEF Enter, Think, FallBack, Leave, Reject, Incomplete, Break, Broken, Unstored, Ends, databases
<1> QED
  BY <1>1 DEF Promise!promiseVars, InputOf, VerdictOf

\* The commit of a turn decides its message.
LEMMA CommitMaps ==
  ASSUME OperationInv, NEW r \in Requests, Commit(r)
  PROVE  \E m \in Messages, a \in Replies : Promise!Decide(m, a)
<1>0. PICK k : k = M(r)
  OBVIOUS
<1> USE <1>0
<1>1. at[r].stage = "answered" /\ at[r].result # "bad"
  BY DEF Commit
<1>2. TypeOK /\ Handled(r) /\ k \in Messages /\ turn[k] = NoTurn
  BY <1>1, Knows DEF Handled
<1>3. /\ turn' = [turn EXCEPT ![k] = [input |-> at[r].input, answer |-> at[r].result]]
      /\ UNCHANGED <<op, told>>
  BY <1>2 DEF Commit, HasTurn
<1>4. /\ at[r].result \in Replies /\ at[r].input \in Inputs /\ op[k].status = "running"
      /\ op[k].input = at[r].input
  BY <1>1, <1>2 DEF Handled, Answers, Replies
<1>5. VerdictOf[k] = "open" /\ InputOf[k] = at[r].input /\ InputOf[k] # None
  BY <1>2, <1>4, OpenIsSeen
<1>6. UNCHANGED <<InputOf, VerdictOf>>
  BY <1>3 DEF InputOf, VerdictOf
<1>7. Promise!Decide(k, at[r].result)
  BY <1>2, <1>3, <1>5, <1>6 DEF Promise!Decide, Promise!Undecided
<1> QED
  BY <1>2, <1>4, <1>7

\* The answer that is stored and given is the reply of the promise.
LEMMA AnsweredMaps ==
  ASSUME OperationInv, NEW r \in Requests, Answered(r)
  PROVE  \E m \in Messages : Promise!Tell(m)
<1>0. PICK k : k = M(r)
  OBVIOUS
<1> USE <1>0
<1>1. /\ at[r].stage = "replying" /\ at[r].result \notin {"rejected", "broken"}
      /\ Finish(k, "completed", at[r].result) /\ turn' = turn
      /\ told' = told \cup {<<k, at[r].input, at[r].result>>}
  BY DEF Answered, Ends
<1>2. TypeOK /\ Handled(r) /\ k \in Messages
  BY <1>1, Knows
<1>3. /\ at[r].result \in Replies /\ turn[k] = [input |-> at[r].input, answer |-> at[r].result]
      /\ op[k].status = "running"
  BY <1>1, <1>2 DEF Handled, TurnOf
<1>4. /\ op'[k].status = "completed" /\ op'[k].input = op[k].input
      /\ \A m \in Messages \ {k} : op'[m] = op[m]
  BY <1>1, <1>2, <1>3, Finishing
<1>5. VerdictOf' = [VerdictOf EXCEPT ![k] = "answered"] /\ InputOf' = InputOf
  BY <1>2, <1>4, RowIsSeen
<1>6. turn[k] # NoTurn
  BY <1>3 DEF NoTurn, Replies
<1>7. Promise!Tell(k)
  BY <1>1, <1>3, <1>5, <1>6 DEF Promise!Tell
<1> QED
  BY <1>2, <1>7

\* A message is refused only while it is undecided.
LEMMA RejectedMaps ==
  ASSUME OperationInv, NEW r \in Requests, Rejected(r)
  PROVE  \E m \in Messages : Promise!Refuse(m)
<1>0. PICK k : k = M(r)
  OBVIOUS
<1> USE <1>0
<1>1. /\ at[r].stage = "replying" /\ at[r].result = "rejected"
      /\ Finish(k, "failed", "none") /\ UNCHANGED <<turn, told>>
  BY DEF Rejected, Ends
<1>2. TypeOK /\ Handled(r) /\ k \in Messages
  BY <1>1, Knows
<1>3. /\ turn[k] = NoTurn /\ op[k].status = "running" /\ at[r].input \in Inputs
      /\ op[k].input = at[r].input
  BY <1>1, <1>2 DEF Handled, Replies
<1>4. /\ op'[k].status = "failed" /\ op'[k].input = op[k].input
      /\ \A m \in Messages \ {k} : op'[m] = op[m]
  BY <1>1, <1>2, <1>3, Finishing
<1>5. VerdictOf' = [VerdictOf EXCEPT ![k] = "refused"] /\ InputOf' = InputOf
  BY <1>2, <1>4, RowIsSeen
<1>6. VerdictOf[k] = "open" /\ InputOf[k] # None
  BY <1>2, <1>3, OpenIsSeen
<1>7. Promise!Refuse(k)
  BY <1>1, <1>3, <1>5, <1>6 DEF Promise!Refuse, Promise!Undecided
<1> QED
  BY <1>2, <1>7

\* A repetition that is answered from the row is told the reply of the promise again.
LEMMA RepeatMaps ==
  ASSUME OperationInv, NEW r \in Requests, NEW k \in Messages, NEW i \in Inputs,
         Repeat(r, k, i)
  PROVE  Promise!Tell(k) \/ UNCHANGED Promise!promiseVars
<1>1. /\ UNCHANGED <<op, turn>> /\ op[k].status \in {"completed", "failed"}
      /\ op[k].input = i /\ Row(k)
  BY DEF Repeat, databases, SameInput, OperationInv, Rows
<1>2. UNCHANGED <<InputOf, VerdictOf>>
  BY <1>1 DEF InputOf, VerdictOf
<1>3. CASE op[k].status = "completed"
  <2>1. /\ told' = told \cup {<<k, i, op[k].result>>} /\ op[k].result \in Replies
        /\ turn[k] = [input |-> i, answer |-> op[k].result]
    BY <1>1, <1>3 DEF Repeat, Row
  <2>2. turn[k] # NoTurn
    BY <2>1 DEF NoTurn, Replies
  <2>3. VerdictOf' = [VerdictOf EXCEPT ![k] = "answered"]
    BY <1>2, <1>3 DEF VerdictOf
  <2>4. told' = told \cup {<<k, turn[k].input, turn[k].answer>>}
    <3>1. turn[k].input = i /\ turn[k].answer = op[k].result
      BY <2>1
    <3> QED
      BY <2>1, <3>1
  <2> QED
    BY <1>1, <1>2, <2>2, <2>3, <2>4 DEF Promise!Tell
<1>4. CASE op[k].status = "failed"
  BY <1>1, <1>2, <1>4 DEF Repeat, Promise!promiseVars
<1> QED
  BY <1>1, <1>3, <1>4

\* The operations keep the promise of a message: it has one input, one reply and one
\* end, whatever was repeated, failed or restarted.
THEOREM OperationsKeepThePromise == Spec => PromiseSpec
<1>1. Init => Promise!Init
  BY DEF Init, Promise!Init, InputOf, VerdictOf, NoOp
<1>2. OperationInv /\ [Next]_vars => [Promise!Next]_(Promise!promiseVars)
  <2> SUFFICES ASSUME OperationInv, [Next]_vars PROVE [Promise!Next]_(Promise!promiseVars)
    OBVIOUS
  <2>1. ASSUME NEW r \in Requests, NEW m \in Messages, NEW i \in Inputs,
               Begin(r, m, i) \/ Repeat(r, m, i)
        PROVE  Promise!Next \/ UNCHANGED Promise!promiseVars
    BY <2>1, BeginMaps, RepeatMaps DEF Promise!Next
  <2>2. ASSUME NEW r \in Requests, Progress(r)
        PROVE  Promise!Next \/ UNCHANGED Promise!promiseVars
    BY <2>2, InsideMaps, CommitMaps, AnsweredMaps, RejectedMaps DEF Progress, Reply, Promise!Next
  <2>3. CASE Crash
    <3>1. UNCHANGED <<op, turn, told>>
      BY <2>3 DEF Crash, databases
    <3> QED
      BY <3>1 DEF Promise!promiseVars, InputOf, VerdictOf
  <2>4. CASE UNCHANGED vars
    <3>1. UNCHANGED <<op, turn, told>>
      BY <2>4 DEF vars, databases
    <3> QED
      BY <3>1 DEF Promise!promiseVars, InputOf, VerdictOf
  <2> QED
    BY <2>1, <2>2, <2>3, <2>4 DEF Next
<1> QED
  BY <1>1, <1>2, Inductive, PTL DEF Spec, PromiseSpec, Promise!Spec

\* Two clients that were told of a message were told the same reply to the same input.
THEOREM OneReplyForAll ==
  Spec => [](\A s, t \in told : s[1] = t[1] => s = t)
<1>1. OperationInv => \A s, t \in told : s[1] = t[1] => s = t
  <2> SUFFICES ASSUME OperationInv, NEW s \in told, NEW t \in told, s[1] = t[1]
               PROVE  s = t
    OBVIOUS
  <2>1. s \in Messages \X Inputs \X Replies /\ t \in Messages \X Inputs \X Replies
    BY DEF OperationInv, TypeOK
  <2>2. [input |-> s[2], answer |-> s[3]] = [input |-> t[2], answer |-> t[3]]
    <3>1. turn[s[1]] = [input |-> s[2], answer |-> s[3]]
      BY DEF OperationInv, ToldIsStored
    <3>2. turn[t[1]] = [input |-> t[2], answer |-> t[3]]
      BY DEF OperationInv, ToldIsStored
    <3> QED
      BY <3>1, <3>2
  <2>3. s[2] = t[2] /\ s[3] = t[3]
    BY <2>2
  <2> QED
    BY <2>1, <2>3
<1> QED
  BY <1>1, Inductive, PTL
=============================================================================
