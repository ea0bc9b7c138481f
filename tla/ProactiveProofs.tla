-------------------------- MODULE ProactiveProofs --------------------------
(***************************************************************************)
(* Safety of Proactive, for any number of characters, occasions,           *)
(* processes, turns and crashes, and for every length of the windows.      *)
(***************************************************************************)
EXTENDS Proactive, FiniteSetTheorems, SequenceTheorems, TLAPS

SourceT == [status : {"unknown", "pending", "sent", "resolved", "expired"},
            left : Int, declined : BOOLEAN]
TaskT == [status : {"none", "pending", "claimed", "completed", "retryable", "dead_letter"},
          due : Int, lease : Int, attempt : 0..MaxAttempts, failures : 0..(MaxFailures - 1)]
RunT  == [status : {"none", "generating"}, token : 0..MaxAttempts,
          age : 0..Lease, arrivals : 0..MaxTurns, said : 0..MaxTurns]
Message == [source : Sources, ago : 0..(Window + 1), answered : BOOLEAN]
TurnT == [stage : {"none", "open", "over"}, by : Processes \cup {"none"},
          who : Characters \cup {"none"}, lease : 0..Lease, said : BOOLEAN]
PassT == [stage : {"idle", "claimed", "compose", "finish"}, observed : 0..Horizon,
          source : Sources \cup {"none"}, token : 0..MaxAttempts,
          outcome : {"none", "done", "later", "failed", "gone"}]

Shape ==
  /\ source \in [Sources -> SourceT] /\ task \in [Sources -> TaskT] /\ run \in [Sources -> RunT]
  /\ sent \in Seq(Message) /\ turn \in [Turns -> TurnT] /\ spoke \in 0..ActiveWindow
  /\ pass \in [Processes -> PassT] /\ crashes \in 0..MaxCrashes

\* A process that is at a task knows its source.
Held == \A p \in Processes : ~At(p, "idle") => S(p) \in Sources

Types == Shape /\ Held

-----------------------------------------------------------------------------
(* The constants, and the operators a step is built from.                  *)

\* What the assumption says of the constants, in the forms the proofs use.
LEMMA Constants ==
  /\ {Lifetime, Lease, UserLimit, MaxUnanswered, MaxAttempts, MaxFailures} \subseteq Nat \ {0}
  /\ Window \in Nat /\ Cooldown \in Nat /\ ActiveWindow \in Nat /\ Horizon \in Nat
  /\ MaxTurns \in Nat /\ MaxCrashes \in Nat /\ Cooldown <= Window
  /\ \A d \in Delays : d \in Int
  /\ \A s \in Sources : Of[s] \in Characters
  BY ProactiveAssumption DEF ProactiveAssumption

\* The rows that stand for nothing have their types.
LEMMA Blank ==
  /\ NoTask \in TaskT /\ NoRun \in RunT /\ NoTurn \in TurnT
  /\ \A n \in 0..Horizon : Idle(n) \in PassT
  /\ \A status \in {"completed", "dead_letter"} : Over(status) \in TaskT
  BY Constants DEF NoTask, NoRun, NoTurn, Idle, Over, TaskT, RunT, TurnT, PassT

\* The counts of turns stay within their bound.
LEMMA CountTurns ==
  /\ arrivals \in 0..MaxTurns /\ said \in 0..MaxTurns
<1>1. IsFiniteSet(Turns) /\ Cardinality(Turns) = MaxTurns
  <2> DEFINE top == MaxTurns
  <2>1. 1 \in Int /\ top \in Int /\ top \in Nat
    BY Constants
  <2> HIDE DEF top
  <2>2. IsFiniteSet(1..top)
        /\ Cardinality(1..top) = IF 1 > top THEN 0 ELSE top - 1 + 1
    BY <2>1, FS_Interval, Zenon
  <2>3. Cardinality(1..top) = top
    BY <2>1, <2>2
  <2> QED
    BY <2>2, <2>3 DEF Turns, top
<1>2. \A P \in SUBSET Turns : Cardinality(P) \in 0..MaxTurns
  <2> SUFFICES ASSUME NEW P \in SUBSET Turns PROVE Cardinality(P) \in 0..MaxTurns
    OBVIOUS
  <2>1. IsFiniteSet(P) /\ Cardinality(P) <= MaxTurns
    BY <1>1, FS_Subset
  <2>2. Cardinality(P) \in Nat
    BY <2>1, FS_CardinalityType
  <2> QED
    BY <2>1, <2>2, Constants
<1>3. {i \in Turns : turn[i].stage # "none"} \in SUBSET Turns
      /\ {i \in Turns : turn[i].said} \in SUBSET Turns
  OBVIOUS
<1> QED
  BY <1>2, <1>3 DEF arrivals, said

\* A source that is left has its type.
LEMMA LeftType ==
  ASSUME Shape, NEW s \in Sources, NEW status \in {"sent", "resolved", "expired"}
  PROVE  Left(s, status) \in SourceT
  BY DEF Shape, Left, SourceT

\* The sources after the expiry have their type.
LEMMA ExpiredType ==
  ASSUME Shape, NEW at PROVE Expired(at) \in [Sources -> SourceT]
  BY LeftType DEF Expired, Shape

\* The sources of a character after its expiries have their type.
LEMMA LapsedType ==
  ASSUME Shape, NEW c PROVE Lapsed(c) \in [Sources -> SourceT]
  BY LeftType DEF Lapsed, Shape

\* The tasks after the scheduling have their type.
LEMMA ScheduledType ==
  ASSUME Shape, NEW src PROVE Scheduled(src) \in [Sources -> TaskT]
<1>1. [NoTask EXCEPT !.status = "pending"] \in TaskT
  BY Constants DEF NoTask, TaskT
<1> QED
  BY <1>1 DEF Scheduled, Shape

\* The runs after the recovery have their type.
LEMMA RecoveredType ==
  ASSUME Shape, NEW c PROVE Recovered(c) \in [Sources -> RunT]
  BY Blank DEF Recovered, Shape

\* A task that is settled has its type.
LEMMA SettledType ==
  ASSUME NEW t \in TaskT, NEW outcome, NEW d \in Delays, NEW left
  PROVE  Settled(t, outcome, d, left) \in TaskT
<1> DEFINE failed == IF outcome = "failed" THEN 1 ELSE 0
           again == [status |-> "retryable", due |-> d, lease |-> 0, attempt |-> t.attempt,
                     failures |-> t.failures + failed]
           over == \/ outcome = "gone" \/ d >= left
                   \/ t.attempt >= MaxAttempts \/ t.failures + failed >= MaxFailures
<1>1. failed \in {0, 1}
  OBVIOUS
<1>2. Settled(t, outcome, d, left) = IF outcome = "done" THEN Over("completed")
        ELSE IF over THEN Over("dead_letter") ELSE again
  BY DEF Settled
<1> HIDE DEF failed
<1>3. ASSUME ~over PROVE again \in TaskT
  BY <1>1, <1>3, Constants DEF TaskT
<1> HIDE DEF over, again
<1> QED
  BY <1>2, <1>3, Blank

\* A process goes on to its last step.
LEMMA EndsType ==
  ASSUME Types, NEW p \in Processes, ~At(p, "idle"),
         NEW outcome \in {"done", "later", "failed", "gone"}, Ends(p, outcome)
  PROVE  /\ pass' \in [Processes -> PassT]
         /\ Held'
<1> DEFINE first == [pass EXCEPT ![p].stage = "finish"]
<1>1. first \in [Processes -> PassT]
  BY ZenonT(60) DEF Types, Shape, PassT
<1>2. pass' = [first EXCEPT ![p].outcome = outcome]
  BY DEF Ends
<1>3. \A q \in Processes : first[q].source = pass[q].source
                          /\ (first[q].stage # "idle" => pass[q].stage # "idle")
  BY DEF At, Types, Shape, PassT
<1> HIDE DEF first
<1>4. pass' \in [Processes -> PassT]
  BY <1>1, <1>2 DEF PassT
<1>5. \A q \in Processes : pass'[q].source = first[q].source /\ pass'[q].stage = first[q].stage
  BY <1>1, <1>2 DEF PassT
<1> QED
  BY <1>3, <1>4, <1>5 DEF Types, Held, At, S

-----------------------------------------------------------------------------
(* Types: the user's side.                                                 *)

\* The types at the start.
LEMMA InitTypes == Init => Types
<1> SUFFICES ASSUME Init PROVE Types
  OBVIOUS
<1>1. /\ source \in [Sources -> SourceT] /\ task \in [Sources -> TaskT]
      /\ run \in [Sources -> RunT] /\ turn \in [Turns -> TurnT]
      /\ pass \in [Processes -> PassT]
  BY Blank, Constants DEF Init, SourceT
<1>2. sent \in Seq(Message) /\ spoke \in 0..ActiveWindow /\ crashes \in 0..MaxCrashes
  BY Constants DEF Init
<1>3. Held
  BY DEF Init, Held, At, Idle
<1> QED
  BY <1>1, <1>2, <1>3 DEF Types, Shape

\* A source appears.
LEMMA AppearTypes == ASSUME Types, NEW s \in Sources, Appear(s) PROVE Types'
<1>1. source' \in [Sources -> SourceT]
  BY Constants DEF Types, Shape, Appear, SourceT
<1> QED
  BY <1>1 DEF Types, Shape, Held, At, S, Appear, chat

\* A turn begins.
LEMMA BeginTurnTypes ==
  ASSUME Types, NEW p \in Processes, NEW c \in Characters, BeginTurn(p, c) PROVE Types'
<1>1. turn' \in [Turns -> TurnT]
  <2> DEFINE opened == [stage |-> "open", by |-> p, who |-> c, lease |-> Lease, said |-> FALSE]
             i == arrivals + 1
  <2>1. opened \in TurnT
    BY Constants DEF TurnT
  <2>2. turn' = [turn EXCEPT ![i] = opened]
    BY DEF BeginTurn
  <2> HIDE DEF opened, i
  <2> QED
    BY <2>1, <2>2 DEF Types, Shape
<1> QED
  BY <1>1 DEF Types, Shape, Held, At, S, BeginTurn

\* A message is rewritten in place.
LEMMA RewrittenType ==
  ASSUME sent \in Seq(Message), NEW after, after = [n \in DOMAIN sent |-> after[n]],
         \A n \in DOMAIN sent : after[n] \in Message
  PROVE  after \in Seq(Message) /\ Len(after) = Len(sent)
  BY SMTT(60)

\* A message of the user is stored.
LEMMA SayTypes == ASSUME Types, NEW i \in Turns, Say(i) PROVE Types'
<1>1. turn' \in [Turns -> TurnT]
  BY DEF Types, Shape, Say, TurnT
<1>2. source' \in [Sources -> SourceT]
  BY LeftType DEF Types, Shape, Say
<1>3. sent' \in Seq(Message)
  <2>1. ASSUME NEW n \in DOMAIN sent PROVE sent'[n] \in Message
    <3>1. sent[n] \in Message
      BY DEF Types, Shape
    <3>2. sent'[n] = [sent[n] EXCEPT !.answered = @ \/ Of[sent[n].source] = turn[i].who]
      BY DEF Say
    <3> DEFINE m == sent[n]
               new == m.answered \/ Of[m.source] = turn[i].who
    <3>3. new \in BOOLEAN /\ m \in Message /\ sent'[n] = [m EXCEPT !.answered = new]
      BY <3>1, <3>2
    <3> HIDE DEF m, new
    <3> QED
      BY <3>3 DEF Message
  <2>2. sent' = [n \in DOMAIN sent |-> sent'[n]]
    BY DEF Say
  <2> QED
    BY <2>1, <2>2, RewrittenType DEF Types, Shape
<1>4. spoke' \in 0..ActiveWindow
  BY Constants DEF Say
<1> QED
  BY <1>1, <1>2, <1>3, <1>4 DEF Types, Shape, Held, At, S, Say

\* A turn ends.
LEMMA EndTurnTypes == ASSUME Types, NEW i \in Turns, EndTurn(i) PROVE Types'
<1>1. turn' \in [Turns -> TurnT]
  BY Constants DEF Types, Shape, EndTurn, Ended, TurnT
<1> QED
  BY <1>1 DEF Types, Shape, Held, At, S, EndTurn

-----------------------------------------------------------------------------
(* Types: the cycle of a process.                                          *)

\* A process reads a clock that is not ahead.
LEMMA ClockType ==
  ASSUME Types, NEW p \in Processes, NEW at \in Clocks(p)
  PROVE  at \in Int /\ at <= 0 /\ -at \in 0..Horizon
  BY Constants DEF Types, Shape, Clocks, PassT

\* A pass takes a task.
LEMMA TakeTypes ==
  ASSUME Types, NEW p \in Processes, NEW s \in Sources, Take(p, s) PROVE Types'
<1>1. PICK at \in Clocks(p) : Take(p, s)!(at)
  BY DEF Take
<1> DEFINE tasks == Scheduled(Expired(at))
           claimed == [status |-> "claimed", due |-> tasks[s].due, lease |-> at + Lease,
                       attempt |-> tasks[s].attempt + 1, failures |-> tasks[s].failures]
<1>2. tasks \in [Sources -> TaskT]
  BY ScheduledType DEF Types
<1>3. source' \in [Sources -> SourceT]
  BY <1>1, ExpiredType DEF Types
<1>4. UNCHANGED <<run, sent, turn, spoke, crashes>>
  BY <1>1 DEF chat
<1>5. CASE tasks[s].attempt < MaxAttempts /\ Standing(source', s)
  <2>1. claimed \in TaskT /\ claimed.attempt \in 0..MaxAttempts
    BY <1>2, <1>5, ClockType, Constants DEF TaskT
  <2>2. task' = [tasks EXCEPT ![s] = claimed]
        /\ pass' = [pass EXCEPT ![p] = [stage |-> "claimed", observed |-> -at, source |-> s,
                                        token |-> claimed.attempt, outcome |-> "none"]]
    BY <1>1, <1>5
  <2> HIDE DEF tasks, claimed
  <2>3. task' \in [Sources -> TaskT]
    BY <1>2, <2>1, <2>2
  <2>4. pass' \in [Processes -> PassT] /\ Held'
    BY <2>1, <2>2, ClockType DEF Types, Shape, PassT, Held, At, S
  <2> QED
    BY <1>3, <1>4, <2>3, <2>4 DEF Types, Shape
<1>6. CASE ~(tasks[s].attempt < MaxAttempts /\ Standing(source', s))
  <2>1. task' = [tasks EXCEPT ![s] = Over("dead_letter")]
        /\ pass' = [pass EXCEPT ![p].observed = -at]
    BY <1>1, <1>6
  <2> HIDE DEF tasks
  <2>2. task' \in [Sources -> TaskT]
    BY <1>2, <2>1, Blank
  <2>3. pass' \in [Processes -> PassT] /\ Held'
    BY <2>1, ClockType, ZenonT(60) DEF Types, Shape, PassT, Held, At, S
  <2> QED
    BY <1>3, <1>4, <2>2, <2>3 DEF Types, Shape
<1> QED
  BY <1>5, <1>6

\* A pass rests.
LEMMA RestTypes == ASSUME Types, NEW p \in Processes, Rest(p) PROVE Types'
<1>1. PICK at \in Clocks(p) : Rest(p)!(at)
  BY DEF Rest
<1>2. source' \in [Sources -> SourceT] /\ task' \in [Sources -> TaskT]
  BY <1>1, ExpiredType, ScheduledType DEF Types
<1>3. pass' \in [Processes -> PassT] /\ Held'
  <2>1. pass' = [pass EXCEPT ![p].observed = 0] /\ 0 \in 0..Horizon
    BY <1>1, Constants
  <2> QED
    BY <2>1, ZenonT(60) DEF Types, Shape, PassT, Held, At, S
<1> QED
  BY <1>1, <1>2, <1>3 DEF Types, Shape, chat

\* A task is not ready yet.
LEMMA NotReadyTypes == ASSUME Types, NEW p \in Processes, NotReady(p) PROVE Types'
<1>1. pass' \in [Processes -> PassT] /\ Held'
  BY EndsType DEF NotReady, At
<1> QED
  BY <1>1 DEF Types, Shape, NotReady, chat

\* The model is asked.
LEMMA AskTypes == ASSUME Types, NEW p \in Processes, Ask(p) PROVE Types'
<1>1. S(p) \in Sources
  BY DEF Ask, Types, Held, At
<1>2. source' \in [Sources -> SourceT]
  BY LapsedType DEF Ask, Types
<1>3. run' \in [Sources -> RunT]
  <2> DEFINE began == [status |-> "generating", token |-> pass[p].token, age |-> 0,
                       arrivals |-> arrivals, said |-> said]
             runs == Recovered(Of[S(p)])
  <2>1. began \in RunT
    BY CountTurns, Constants DEF Types, Shape, PassT, RunT
  <2>2. runs \in [Sources -> RunT] /\ run' = [runs EXCEPT ![S(p)] = began]
    BY RecoveredType DEF Types, Ask
  <2> HIDE DEF began, runs
  <2> QED
    BY <2>1, <2>2
<1>4. pass' \in [Processes -> PassT] /\ Held'
  <2>1. pass' = [pass EXCEPT ![p].stage = "compose"]
    BY DEF Ask
  <2> QED
    BY <1>1, <2>1, ZenonT(60) DEF Types, Shape, PassT, Held, At, S
<1> QED
  BY <1>2, <1>3, <1>4 DEF Types, Shape, Ask, chat

\* The policy refuses.
LEMMA RefuseTypes == ASSUME Types, NEW p \in Processes, Refuse(p) PROVE Types'
<1>1. source' \in [Sources -> SourceT] /\ run' \in [Sources -> RunT]
  BY LapsedType, RecoveredType DEF Types, Shape, Refuse
<1>2. pass' \in [Processes -> PassT] /\ Held'
  <2>1. PICK outcome \in {"later", "gone"} : Ends(p, outcome)
    BY DEF Refuse
  <2> QED
    BY <2>1, EndsType DEF Refuse, At
<1> QED
  BY <1>1, <1>2 DEF Types, Shape, Refuse, chat

\* A message is sent.
LEMMA SendTypes == ASSUME Types, NEW p \in Processes, Send(p) PROVE Types'
<1>1. S(p) \in Sources
  BY DEF Send, Types, Held, At
<1>2. pass' \in [Processes -> PassT] /\ Held'
  BY EndsType DEF Send, At
<1>3. source' \in [Sources -> SourceT] /\ run' \in [Sources -> RunT]
  BY <1>1, LeftType, Blank DEF Types, Shape, Send
<1>4. sent' \in Seq(Message)
  <2>1. [source |-> S(p), ago |-> 0, answered |-> FALSE] \in Message
    BY <1>1, Constants DEF Message
  <2> QED
    BY <2>1 DEF Types, Shape, Send
<1> QED
  BY <1>2, <1>3, <1>4 DEF Types, Shape, Send, chat

\* The model declines.
LEMMA DeclineTypes == ASSUME Types, NEW p \in Processes, Decline(p) PROVE Types'
<1>1. S(p) \in Sources
  BY DEF Decline, Types, Held, At
<1>2. pass' \in [Processes -> PassT] /\ Held'
  BY EndsType DEF Decline, At
<1>3. source' \in [Sources -> SourceT]
  BY <1>1 DEF Types, Shape, Decline, SourceT
<1>4. run' \in [Sources -> RunT]
  BY <1>1, Blank DEF Types, Shape, Decline
<1> QED
  BY <1>2, <1>3, <1>4 DEF Types, Shape, Decline, chat

\* An answer is discarded.
LEMMA DiscardTypes == ASSUME Types, NEW p \in Processes, Discard(p) PROVE Types'
<1>1. pass' \in [Processes -> PassT] /\ Held'
  BY EndsType DEF Discard, At
<1>2. run' \in [Sources -> RunT]
  BY Blank DEF Types, Shape, Discard
<1> QED
  BY <1>1, <1>2 DEF Types, Shape, Discard, chat

\* A task is settled.
LEMMA FinishTypes == ASSUME Types, NEW p \in Processes, Finish(p) PROVE Types'
<1>1. S(p) \in Sources
  BY DEF Finish, Types, Held, At
<1>2. task' \in [Sources -> TaskT]
  <2>1. CASE UNCHANGED task
    BY <2>1 DEF Types, Shape
  <2>2. ASSUME NEW d \in Delays, NEW left,
               task' = [task EXCEPT ![S(p)] = Settled(@, pass[p].outcome, d, left)]
        PROVE  task' \in [Sources -> TaskT]
    BY <1>1, <2>2, SettledType DEF Types, Shape
  <2> QED
    BY <2>1, <2>2 DEF Finish
<1>3. pass' \in [Processes -> PassT] /\ Held'
  <2>1. pass' = [pass EXCEPT ![p] = Idle(pass[p].observed)]
    BY DEF Finish
  <2> QED
    BY <2>1, Constants DEF Types, Shape, PassT, Held, At, S, Idle
<1> QED
  BY <1>2, <1>3 DEF Types, Shape, Finish, chat

\* Time passes.
LEMMA TickTypes == ASSUME Types, Tick PROVE Types'
<1>1. source' \in [Sources -> SourceT]
  <2>1. ASSUME NEW s \in Sources PROVE source'[s] \in SourceT
    <3>1. source[s] \in SourceT
      BY DEF Types, Shape
    <3>2. CASE source[s].status = "pending"
      <4> DEFINE left == Older(source[s].left)
      <4>1. left \in Int
        BY <3>1, Constants DEF SourceT, Older
      <4>2. source'[s] = [source[s] EXCEPT !.left = left]
        BY <3>2 DEF Tick
      <4> HIDE DEF left
      <4> QED
        BY <3>1, <4>1, <4>2 DEF SourceT
    <3>3. CASE source[s].status # "pending"
      BY <3>1, <3>3 DEF Tick
    <3> QED
      BY <3>2, <3>3
  <2> QED
    BY <2>1 DEF Tick
<1>2. task' \in [Sources -> TaskT]
  <2>1. ASSUME NEW s \in Sources PROVE task'[s] \in TaskT
    <3> DEFINE due == IF task[s].due > -Horizon /\ task[s].status \notin
                           {"none", "completed", "dead_letter"} THEN task[s].due - 1
                      ELSE task[s].due
               lease == IF task[s].status = "claimed" THEN Older(task[s].lease) ELSE task[s].lease
               first == [task[s] EXCEPT !.due = due]
    <3>1. task[s] \in TaskT
      BY DEF Types, Shape
    <3>2. due \in Int /\ lease \in Int
      BY <3>1, Constants DEF TaskT, Older
    <3>3. task'[s] = [first EXCEPT !.lease = lease]
      BY DEF Tick
    <3> HIDE DEF due, lease
    <3>4. first \in TaskT
      BY <3>1, <3>2 DEF TaskT
    <3> HIDE DEF first
    <3> QED
      BY <3>2, <3>3, <3>4 DEF TaskT
  <2> QED
    BY <2>1 DEF Tick
<1>3. run' \in [Sources -> RunT]
  <2>1. ASSUME NEW s \in Sources PROVE run'[s] \in RunT
    <3>1. run[s] \in RunT
      BY DEF Types, Shape
    <3>2. CASE run[s].status = "generating"
      <4> DEFINE age == Past(run[s].age, Lease)
      <4>1. age \in 0..Lease
        BY <3>1, Constants DEF RunT, Past
      <4>2. run'[s] = [run[s] EXCEPT !.age = age]
        BY <3>2 DEF Tick
      <4> HIDE DEF age
      <4> QED
        BY <3>1, <4>1, <4>2 DEF RunT
    <3>3. CASE run[s].status # "generating"
      BY <3>1, <3>3 DEF Tick
    <3> QED
      BY <3>2, <3>3
  <2> QED
    BY <2>1 DEF Tick
<1>4. sent' \in Seq(Message)
  <2>1. ASSUME NEW n \in DOMAIN sent PROVE sent'[n] \in Message
    <3> DEFINE ago == Past(sent[n].ago, Window + 1)
    <3>1. sent[n] \in Message
      BY DEF Types, Shape
    <3>2. ago \in 0..(Window + 1)
      BY <3>1, Constants DEF Message, Past
    <3>3. sent'[n] = [sent[n] EXCEPT !.ago = ago]
      BY DEF Tick
    <3> HIDE DEF ago
    <3> QED
      BY <3>1, <3>2, <3>3 DEF Message
  <2>2. sent' = [n \in DOMAIN sent |-> sent'[n]]
    BY DEF Tick
  <2> QED
    BY <2>1, <2>2, RewrittenType DEF Types, Shape
<1>5. turn' \in [Turns -> TurnT]
  <2>1. ASSUME NEW i \in Turns PROVE turn'[i] \in TurnT
    <3> DEFINE lease == IF turn[i].lease > 0 THEN turn[i].lease - 1 ELSE 0
    <3>1. turn[i] \in TurnT
      BY DEF Types, Shape
    <3>2. lease \in 0..Lease
      BY <3>1, Constants DEF TurnT
    <3>3. turn'[i] = [turn[i] EXCEPT !.lease = lease]
      BY DEF Tick
    <3> HIDE DEF lease
    <3> QED
      BY <3>1, <3>2, <3>3 DEF TurnT
  <2> QED
    BY <2>1 DEF Tick
<1>6. spoke' \in 0..ActiveWindow
  <2>1. spoke' = IF spoke > 0 THEN spoke - 1 ELSE 0
    BY DEF Tick
  <2>2. spoke \in 0..ActiveWindow
    BY DEF Types, Shape
  <2> QED
    BY <2>1, <2>2, Constants
<1>7. pass' \in [Processes -> PassT] /\ Held'
  <2>1. ASSUME NEW p \in Processes
        PROVE  /\ pass'[p] \in PassT /\ pass'[p].stage = pass[p].stage
               /\ pass'[p].source = pass[p].source
    <3>1. pass[p] \in PassT
      BY DEF Types, Shape
    <3>2. CASE At(p, "idle")
      BY <3>1, <3>2 DEF Tick
    <3>3. CASE ~At(p, "idle")
      <4> DEFINE observed == Past(pass[p].observed, Horizon)
      <4>1. observed \in 0..Horizon
        BY <3>1, Constants DEF PassT, Past
      <4>2. pass'[p] = [pass[p] EXCEPT !.observed = observed]
        BY <3>3 DEF Tick
      <4> HIDE DEF observed
      <4> QED
        BY <3>1, <4>1, <4>2 DEF PassT
    <3> QED
      BY <3>2, <3>3
  <2>2. DOMAIN pass' = Processes /\ pass' = [p \in Processes |-> pass'[p]]
    BY DEF Tick
  <2> QED
    BY <2>1, <2>2 DEF Types, Held, At, S
<1> QED
  BY <1>1, <1>2, <1>3, <1>4, <1>5, <1>6, <1>7 DEF Types, Shape, Tick

\* A process dies.
LEMMA CrashTypes == ASSUME Types, NEW p \in Processes, Crash(p) PROVE Types'
<1>1. turn' \in [Turns -> TurnT]
  <2>1. \A i \in Turns : Ended(i, turn[i].lease) \in TurnT
    BY DEF Types, Shape, Ended, TurnT
  <2> QED
    BY <2>1 DEF Types, Shape, Crash
<1>2. pass' \in [Processes -> PassT] /\ Held'
  <2>1. Idle(0) \in PassT
    BY Blank, Constants
  <2> QED
    BY <2>1 DEF Types, Shape, Held, At, S, Crash, Idle
<1>3. crashes' \in 0..MaxCrashes
  BY Constants DEF Types, Shape, Crash
<1> QED
  BY <1>1, <1>2, <1>3 DEF Types, Shape, Crash

\* Every step keeps the types.
LEMMA NextTypes == ASSUME Types, [Next]_vars PROVE Types'
<1>1. CASE User
  BY <1>1, AppearTypes, BeginTurnTypes, SayTypes, EndTurnTypes DEF User
<1>2. ASSUME NEW p \in Processes, Step(p) PROVE Types'
  BY <1>2, TakeTypes, RestTypes, NotReadyTypes, AskTypes, RefuseTypes, SendTypes, DeclineTypes,
     DiscardTypes, FinishTypes DEF Step
<1>3. ASSUME NEW p \in Processes, Crash(p) PROVE Types'
  BY <1>3, CrashTypes
<1>4. CASE Tick
  BY <1>4, TickTypes
<1>5. CASE UNCHANGED vars
  BY <1>5 DEF vars, Types, Shape, Held, At, S
<1> QED
  BY <1>1, <1>2, <1>3, <1>4, <1>5 DEF Next

\* The types, with what every process at a task knows: the invariant the rest leans on.
THEOREM TypesHold == Spec => []Types
<1>1. Init => Types
  BY InitTypes
<1>2. Types /\ [Next]_vars => Types'
  BY NextTypes
<1> QED
  BY <1>1, <1>2, PTL DEF Spec

\* Every occasion, task, run, message, turn and cycle keeps its shape, counters included: a
\* token never exceeds the attempts allowed, and no task fails MaxFailures times and goes on.
THEOREM TypeCorrect == Spec => []TypeOK
<1>1. Types => TypeOK
  BY DEF Types, Shape, TypeOK, SourceT, TaskT, RunT, Message, TurnT, PassT
<1> QED
  BY <1>1, TypesHold, PTL

-----------------------------------------------------------------------------
(* What a step leaves of the messages and of the occasions.                *)

\* The messages keep their occasions; only Send adds one.
SameMessages == Len(sent') = Len(sent) /\ DOMAIN sent' = DOMAIN sent
             /\ \A n \in DOMAIN sent : sent'[n].source = sent[n].source

\* A message of the user answers what was sent and changes no age.
LEMMA SayRewrites ==
  ASSUME Types, NEW i \in Turns, Say(i)
  PROVE  SameMessages /\ \A n \in DOMAIN sent : sent'[n].ago = sent[n].ago
<1>1. Types'
  BY SayTypes
<1>2. DOMAIN sent' = DOMAIN sent /\ Len(sent') = Len(sent)
  BY <1>1 DEF Say, Types, Shape
<1>3. ASSUME NEW n \in DOMAIN sent
      PROVE  sent'[n].source = sent[n].source /\ sent'[n].ago = sent[n].ago
  <2> DEFINE m == sent[n]
             new == m.answered \/ Of[m.source] = turn[i].who
  <2>1. m \in Message /\ sent'[n] = [m EXCEPT !.answered = new]
    BY DEF Types, Shape, Say
  <2> HIDE DEF m, new
  <2>2. sent'[n].source = m.source /\ sent'[n].ago = m.ago
    BY <2>1 DEF Message
  <2> QED
    BY <2>2 DEF m
<1> QED
  BY <1>2, <1>3 DEF SameMessages

\* Time changes nothing but the ages of what was sent.
LEMMA TickRewrites ==
  ASSUME Types, Tick
  PROVE  SameMessages /\ \A n \in DOMAIN sent : sent'[n].ago = Past(sent[n].ago, Window + 1)
<1> DEFINE older == [n \in DOMAIN sent |-> [sent[n] EXCEPT !.ago = Past(@, Window + 1)]]
<1>1. Types' /\ sent' = older
  BY TickTypes DEF Tick
<1>2. DOMAIN sent' = DOMAIN sent /\ Len(sent') = Len(sent)
  <2>1. DOMAIN older = DOMAIN sent
    OBVIOUS
  <2> HIDE DEF older
  <2> QED
    BY <1>1, <2>1 DEF Types, Shape
<1>3. ASSUME NEW n \in DOMAIN sent
      PROVE  sent'[n].source = sent[n].source /\ sent'[n].ago = Past(sent[n].ago, Window + 1)
  <2> DEFINE m == sent[n]
             ago == Past(m.ago, Window + 1)
  <2>1. m \in Message /\ sent'[n] = [m EXCEPT !.ago = ago]
    BY <1>1 DEF Types, Shape
  <2> HIDE DEF m, ago
  <2>2. sent'[n].source = m.source /\ sent'[n].ago = ago
    BY <2>1 DEF Message
  <2> QED
    BY <2>2 DEF m, ago
<1> QED
  BY <1>2, <1>3 DEF SameMessages

\* What is sent comes last and is new.
LEMMA SendAppends ==
  ASSUME Types, NEW p \in Processes, Send(p)
  PROVE  /\ Len(sent') = Len(sent) + 1 /\ DOMAIN sent = 1..Len(sent)
         /\ DOMAIN sent' = 1..(Len(sent) + 1) /\ Len(sent) \in Nat
         /\ \A n \in DOMAIN sent : sent'[n] = sent[n]
         /\ sent'[Len(sent')] = [source |-> S(p), ago |-> 0, answered |-> FALSE]
<1> DEFINE m == [source |-> S(p), ago |-> 0, answered |-> FALSE]
<1>1. sent' = Append(sent, m) /\ sent \in Seq(Message)
  BY DEF Send, Types, Shape
<1>2. m \in Message
  BY Constants DEF Message, Send, Types, Held, At
<1> HIDE DEF m
<1>3. /\ Len(sent') = Len(sent) + 1 /\ DOMAIN sent = 1..Len(sent)
      /\ DOMAIN sent' = 1..(Len(sent) + 1) /\ Len(sent) \in Nat
      /\ \A n \in DOMAIN sent : sent'[n] = sent[n]
      /\ sent'[Len(sent')] = m
  BY <1>1, <1>2
<1> QED
  BY <1>3 DEF m

\* A step that neither says nor sends anything, nor lets time pass.
LEMMA MessagesRest ==
  ASSUME [Next]_vars,
         \/ UNCHANGED sent
         \/ ~(\E i \in Turns : Say(i)) /\ ~Tick /\ ~(\E p \in Processes : Send(p))
  PROVE  UNCHANGED sent
  BY ZenonT(40) DEF Next, User, Step, Appear, BeginTurn, EndTurn, Take, Rest, NotReady, Ask, Refuse, Decline,
     Discard, Finish, Crash, vars

-----------------------------------------------------------------------------
(* One message for an occasion.                                            *)

Unique == \A m, n \in DOMAIN sent : sent[m].source = sent[n].source => m = n

\* No source is sent twice.
LEMMA UniqueKept == ASSUME Types, Unique, [Next]_vars PROVE Unique'
<1>1. ASSUME NEW i \in Turns, Say(i) PROVE Unique'
  BY <1>1, SayRewrites DEF SameMessages, Unique
<1>2. CASE Tick
  BY <1>2, TickRewrites DEF SameMessages, Unique
<1>3. ASSUME NEW p \in Processes, Send(p) PROVE Unique'
  <2>1. \A n \in DOMAIN sent : sent[n].source # S(p)
    BY <1>3 DEF Send, Stands, Discussed
  <2> DEFINE new == Len(sent) + 1
  <2>2. Len(sent) \in Nat /\ DOMAIN sent = 1..Len(sent) /\ DOMAIN sent' = 1..new
    BY <1>3, SendAppends
  <2>3. DOMAIN sent' = DOMAIN sent \cup {new}
    BY <2>2
  <2>4. \A n \in DOMAIN sent : sent'[n] = sent[n]
    BY <1>3, SendAppends
  <2>5. sent'[new].source = S(p)
    <3>1. new = Len(sent') /\ sent'[Len(sent')] = [source |-> S(p), ago |-> 0, answered |-> FALSE]
      BY <1>3, SendAppends
    <3> QED
      BY <3>1
  <2> HIDE DEF new
  <2> QED
    BY <2>1, <2>3, <2>4, <2>5 DEF Unique
<1>4. CASE UNCHANGED sent
  BY <1>4 DEF Unique
<1> QED
  BY <1>1, <1>2, <1>3, <1>4, MessagesRest

\* A source that is resolved or has expired stays so.
LEMMA OverStays ==
  ASSUME Types, [Next]_vars, NEW s \in Sources, source[s].status \in {"resolved", "expired"}
  PROVE  source'[s].status = source[s].status
<1>1. CASE User
  <2>1. ASSUME NEW q \in Sources, Appear(q) PROVE source'[s] = source[s]
    BY <2>1 DEF Appear, Types, Shape
  <2>2. ASSUME NEW i \in Turns, Say(i) PROVE source'[s] = source[s]
    BY <2>2 DEF Say
  <2> QED
    BY <1>1, <2>1, <2>2 DEF User, BeginTurn, EndTurn
<1>2. ASSUME NEW p \in Processes, Step(p) PROVE source'[s].status = source[s].status
  <2>1. \A at : Expired(at)[s] = source[s]
    BY DEF Expired
  <2>2. \A c : Lapsed(c)[s] = source[s]
    BY DEF Lapsed
  <2>3. CASE \E q \in Sources : Take(p, q)
    BY <2>1, <2>3 DEF Take
  <2>4. CASE Rest(p)
    BY <2>1, <2>4 DEF Rest
  <2>5. CASE Ask(p) \/ Refuse(p)
    BY <2>2, <2>5 DEF Ask, Refuse
  <2>6. CASE Send(p)
    BY <2>6 DEF Send, Stands, Standing, Types, Shape
  <2>7. CASE Decline(p)
    BY <2>7 DEF Decline, Stands, Standing, Types, Shape
  <2>8. CASE NotReady(p) \/ Discard(p) \/ Finish(p)
    BY <2>8 DEF NotReady, Discard, Finish
  <2> QED
    BY <1>2, <2>3, <2>4, <2>5, <2>6, <2>7, <2>8 DEF Step
<1>3. ASSUME NEW p \in Processes, Crash(p) PROVE source'[s].status = source[s].status
  BY <1>3 DEF Crash
<1>4. CASE Tick
  BY <1>4 DEF Tick
<1>5. CASE UNCHANGED vars
  BY <1>5 DEF vars
<1> QED
  BY <1>1, <1>2, <1>3, <1>4, <1>5 DEF Next

\* Whatever leases run out and processes crash between the question to the model and its
\* answer, an occasion never leads to two messages, and one that the user has settled or
\* that has expired never comes back.
THEOREM MessageSentOnce == Spec => SentOnce
<1>1. Init => Unique
  BY DEF Init, Unique
<1>2. Types /\ Unique /\ [Next]_vars => Unique'
  BY UniqueKept
<1>3. Types /\ [Next]_vars
        => [\A s \in Sources : source[s].status \in {"resolved", "expired"}
              => source'[s].status = source[s].status]_vars
  BY OverStays
<1>4. Unique <=> \A m, n \in DOMAIN sent : sent[m].source = sent[n].source => m = n
  BY DEF Unique
<1> QED
  BY <1>1, <1>2, <1>3, <1>4, TypesHold, PTL DEF Spec, SentOnce

-----------------------------------------------------------------------------
(* A decision not to write is final.                                       *)

Unasked == \A s \in Sources :
  source[s].declined => run[s].status # "generating" /\ source[s].status # "unknown"

\* What became of one occasion in a step.
Heeded(s) ==
  /\ source[s].declined => source'[s].declined
  /\ source'[s].declined => run'[s].status # "generating" /\ source'[s].status # "unknown"

\* Expiry and recovery neither decline a source nor put it in doubt.
LEMMA SourceFields ==
  ASSUME NEW s \in Sources
  PROVE  /\ \A at : /\ Expired(at)[s].declined = source[s].declined
                    /\ Expired(at)[s].status = "unknown" => source[s].status = "unknown"
         /\ \A c : /\ Lapsed(c)[s].declined = source[s].declined
                   /\ Lapsed(c)[s].status = "unknown" => source[s].status = "unknown"
                   /\ Recovered(c)[s].status = "generating" => run[s].status = "generating"
  BY DEF Expired, Lapsed, Left, Recovered, NoRun

\* The steps of the user leave a declined source unasked.
LEMMA UserHeeds ==
  ASSUME Types, Unasked, User, NEW s \in Sources PROVE Heeded(s)
<1>1. ASSUME NEW q \in Sources, Appear(q) PROVE Heeded(s)
  BY <1>1 DEF Appear, Types, Shape, Unasked, Heeded
<1>2. ASSUME NEW i \in Turns, Say(i) PROVE Heeded(s)
  BY <1>2 DEF Say, Left, Unasked, Heeded
<1> QED
  BY <1>1, <1>2 DEF User, BeginTurn, EndTurn, Unasked, Heeded

\* The steps of a pass leave a declined source unasked.
LEMMA StepHeeds ==
  ASSUME Types, Unasked, NEW p \in Processes, Step(p), NEW s \in Sources PROVE Heeded(s)
<1>1. CASE \E q \in Sources : Take(p, q)
  BY <1>1, SourceFields DEF Take, Unasked, Heeded
<1>2. CASE Rest(p)
  BY <1>2, SourceFields DEF Rest, Unasked, Heeded
<1>3. CASE Ask(p)
  <2>1. source'[s].declined = source[s].declined
        /\ (source'[s].status = "unknown" => source[s].status = "unknown")
    BY <1>3, SourceFields DEF Ask
  <2>2. CASE s = S(p)
    BY <1>3, <2>1, <2>2 DEF Ask, Standing, Heeded
  <2>3. CASE s # S(p)
    BY <1>3, <2>1, <2>3, SourceFields DEF Ask, Recovered, Unasked, Heeded
  <2> QED
    BY <2>2, <2>3
<1>4. CASE Refuse(p)
  BY <1>4, SourceFields DEF Refuse, Unasked, Heeded
<1>5. CASE Send(p)
  BY <1>5 DEF Send, Left, NoRun, Types, Shape, Unasked, Heeded
<1>6. CASE Decline(p)
  <2>1. source[S(p)].status = "pending"
    BY <1>6 DEF Decline, Stands, Standing
  <2>2. source' = [source EXCEPT ![S(p)].declined = TRUE] /\ run' = [run EXCEPT ![S(p)] = NoRun]
    BY <1>6 DEF Decline
  <2>3. CASE s = S(p)
    <3>1. source'[s].declined /\ source'[s].status = "pending" /\ run'[s].status = "none"
      BY <2>1, <2>2, <2>3 DEF NoRun, Types, Shape, SourceT
    <3> QED
      BY <3>1 DEF Heeded
  <2>4. CASE s # S(p)
    BY <2>2, <2>4 DEF Unasked, Heeded, Types, Shape
  <2> QED
    BY <2>3, <2>4
<1>7. CASE Discard(p)
  BY <1>7 DEF Discard, NoRun, Types, Shape, Unasked, Heeded
<1>8. CASE NotReady(p) \/ Finish(p)
  BY <1>8 DEF NotReady, Finish, Unasked, Heeded
<1> QED
  BY <1>1, <1>2, <1>3, <1>4, <1>5, <1>6, <1>7, <1>8 DEF Step

\* Every step leaves a declined source unasked.
LEMMA NextHeeds ==
  ASSUME Types, Unasked, [Next]_vars, NEW s \in Sources PROVE Heeded(s)
<1>1. ASSUME NEW p \in Processes, Crash(p) PROVE Heeded(s)
  BY <1>1 DEF Crash, Unasked, Heeded
<1>2. CASE Tick
  <2> DEFINE old == source[s]
             older == run[s]
  <2>1. old \in SourceT /\ older \in RunT
    BY DEF Types, Shape
  <2>2. /\ source'[s] = old \/ source'[s] = [old EXCEPT !.left = Older(@)]
        /\ run'[s] = older \/ run'[s] = [older EXCEPT !.age = Past(@, Lease)]
    BY <1>2 DEF Tick
  <2> HIDE DEF old, older
  <2>3. source'[s].status = old.status /\ source'[s].declined = old.declined
    BY <2>1, <2>2 DEF SourceT
  <2>4. run'[s].status = older.status
    BY <2>1, <2>2 DEF RunT
  <2> QED
    BY <2>3, <2>4 DEF Unasked, Heeded, old, older
<1>3. CASE UNCHANGED vars
  BY <1>3 DEF vars, Unasked, Heeded
<1> QED
  BY <1>1, <1>2, <1>3, UserHeeds, StepHeeds DEF Next

\* When the model has decided not to write about an occasion, the decision is looked up
\* before every later question, so that no process asks again.
THEOREM DeclinedStaysSo == Spec => DeclinedIsFinal
<1>1. Init => Unasked
  BY DEF Init, Unasked
<1>2. Types /\ Unasked /\ [Next]_vars => Unasked'
  BY NextHeeds DEF Unasked, Heeded
<1>3. Types /\ Unasked /\ [Next]_vars
        => [\A s \in Sources : source[s].declined => run'[s].status # "generating"]_vars
  BY NextHeeds DEF Heeded
<1> QED
  BY <1>1, <1>2, <1>3, TypesHold, PTL DEF Spec, DeclinedIsFinal

-----------------------------------------------------------------------------
(* A message does not interrupt.                                           *)

\* A turn that any process serves under a lease, and all that the user has said, is known
\* to the process that sends.
THEOREM NoInterruption == Spec => NeverInterrupts
<1> DEFINE Kind == Len(sent') > Len(sent) =>
             /\ \A i \in Turns : turn[i].stage = "open" => turn[i].lease = 0
             /\ run[sent'[Len(sent')].source].said = said
<1>1. ASSUME Types, NEW p \in Processes, Send(p) PROVE Kind
  <2>1. \A i \in Turns : turn[i].lease \in 0..Lease /\ ~(turn[i].lease > 0)
    BY <1>1 DEF Send, Undisturbed, Active, Types, Shape, TurnT
  <2>2. \A i \in Turns : turn[i].lease = 0
    BY <2>1, Constants
  <2>3. sent'[Len(sent')].source = S(p)
    <3>1. sent'[Len(sent')] = [source |-> S(p), ago |-> 0, answered |-> FALSE]
      BY <1>1, SendAppends
    <3> QED
      BY <3>1
  <2>4. run[S(p)].said = said
    BY <1>1 DEF Send, Undisturbed
  <2> QED
    BY <2>2, <2>3, <2>4
<1>2. ASSUME Types, [Next]_vars PROVE Kind
  <2>1. ASSUME NEW i \in Turns, Say(i) PROVE Kind
    <3>1. Len(sent') = Len(sent) /\ Len(sent) \in Nat
      BY <1>2, <2>1, SayRewrites DEF SameMessages, Types, Shape
    <3> QED
      BY <3>1
  <2>2. CASE Tick
    <3>1. Len(sent') = Len(sent) /\ Len(sent) \in Nat
      BY <1>2, <2>2, TickRewrites DEF SameMessages, Types, Shape
    <3> QED
      BY <3>1
  <2>3. CASE UNCHANGED sent
    <3>1. Len(sent') = Len(sent) /\ Len(sent) \in Nat
      BY <1>2, <2>3 DEF Types, Shape
    <3> QED
      BY <3>1
  <2> QED
    BY <1>1, <1>2, <2>1, <2>2, <2>3, MessagesRest
<1>3. Types /\ [Next]_vars => [Kind]_vars
  BY <1>2
<1> QED
  BY <1>3, TypesHold, PTL DEF Spec, NeverInterrupts

-----------------------------------------------------------------------------
(* A claim belongs to its holder.                                          *)

\* One claim in a step.
Respected(s) ==
  task[s].status = "claimed" /\ task[s].lease > 0 /\ task'[s].status # "claimed"
    => \E p \in Processes : pass[p].stage = "finish" /\ pass[p].source = s
                           /\ pass[p].token = task[s].attempt

\* Taking a task respects the claims of others.
LEMMA TakeRespects ==
  ASSUME Types, NEW p \in Processes, NEW q \in Sources, NEW s \in Sources, Take(p, q)
  PROVE  Respected(s)
<1> SUFFICES ASSUME task[s].status = "claimed", task[s].lease > 0 PROVE task'[s].status = "claimed"
  BY DEF Respected
<1>1. PICK at \in Clocks(p) : Take(p, q)!(at)
  BY DEF Take
<1> DEFINE tasks == Scheduled(Expired(at))
<1>2. tasks[s] = task[s] /\ tasks \in [Sources -> TaskT]
  BY ScheduledType DEF Scheduled, Types
<1>3. at <= 0 /\ at \in Int /\ task[s].lease \in Int
  BY ClockType DEF Types, Shape, TaskT
<1>4. Due(tasks[q], at)
  BY <1>1
<1>5. s # q
  BY <1>2, <1>3, <1>4 DEF Due
<1>6. \E t : task' = [tasks EXCEPT ![q] = t]
  BY <1>1
<1> HIDE DEF tasks
<1> QED
  BY <1>2, <1>5, <1>6

\* The late work of a holder whose claim has passed to another touches nothing; and nobody
\* claims a task before the lease of its holder has run out.
THEOREM ClaimsKept == Spec => ClaimsAreKept
<1> DEFINE Kept == \A s \in Sources :
       task[s].status = "claimed" /\ task[s].lease > 0 /\ task'[s].status # "claimed"
         => \E p \in Processes : pass[p].stage = "finish" /\ pass[p].source = s
                                /\ pass[p].token = task[s].attempt
<1>1. ASSUME Types, [Next]_vars, NEW s \in Sources PROVE Respected(s)
  <2>1. ASSUME NEW p \in Processes, Step(p) PROVE Respected(s)
    <3>1. CASE \E q \in Sources : Take(p, q)
      BY <1>1, <3>1, TakeRespects
    <3>2. CASE Rest(p)
      BY <3>2 DEF Rest, Scheduled, Respected
    <3>3. CASE Finish(p)
      <4>1. CASE UNCHANGED task
        BY <4>1 DEF Respected
      <4>2. CASE ~UNCHANGED task
        <5>1. Owns(p) /\ At(p, "finish") /\ \E t : task' = [task EXCEPT ![S(p)] = t]
          BY <3>3, <4>2 DEF Finish
        <5> QED
          BY <1>1, <5>1 DEF Owns, At, S, Respected, Types, Shape
      <4> QED
        BY <4>1, <4>2
    <3>4. CASE NotReady(p) \/ Ask(p) \/ Refuse(p) \/ Send(p) \/ Decline(p) \/ Discard(p)
      BY <3>4 DEF NotReady, Ask, Refuse, Send, Decline, Discard, Respected
    <3> QED
      BY <2>1, <3>1, <3>2, <3>3, <3>4 DEF Step
  <2>2. CASE Tick
    <3> DEFINE due == IF task[s].due > -Horizon /\ task[s].status \notin
                           {"none", "completed", "dead_letter"} THEN task[s].due - 1
                      ELSE task[s].due
               lease == IF task[s].status = "claimed" THEN Older(task[s].lease) ELSE task[s].lease
               first == [task[s] EXCEPT !.due = due]
    <3>1. task[s] \in TaskT /\ due \in Int
      BY <1>1, Constants DEF Types, Shape, TaskT
    <3>2. task'[s] = [first EXCEPT !.lease = lease]
      BY <2>2 DEF Tick
    <3> HIDE DEF due, lease
    <3>3. first \in TaskT /\ first.status = task[s].status
      BY <3>1 DEF TaskT
    <3> HIDE DEF first
    <3>4. task'[s].status = task[s].status
      BY <3>2, <3>3 DEF TaskT
    <3> QED
      BY <3>4 DEF Respected
  <2>3. CASE User
    BY <2>3 DEF User, Appear, BeginTurn, Say, EndTurn, Respected
  <2>4. ASSUME NEW p \in Processes, Crash(p) PROVE Respected(s)
    BY <2>4 DEF Crash, Respected
  <2>5. CASE UNCHANGED vars
    BY <2>5 DEF vars, Respected
  <2> QED
    BY <1>1, <2>1, <2>2, <2>3, <2>4, <2>5 DEF Next
<1>2. Types /\ [Next]_vars => [Kept]_vars
  BY <1>1 DEF Respected
<1> QED
  BY <1>2, TypesHold, PTL DEF Spec, ClaimsAreKept

-----------------------------------------------------------------------------
(* The user's budget.                                                      *)

Paced == \A n \in DOMAIN sent : n > 1 => sent[n - 1].ago - sent[n].ago >= Cooldown
                                       \/ sent[n - 1].ago > Window
Budget == Cardinality(Recent) <= UserLimit /\ Paced

\* The types of the ages.
LEMMA AgeType == ASSUME Types, NEW n \in DOMAIN sent PROVE sent[n].ago \in 0..(Window + 1)
<1>1. sent[n] \in Message
  BY DEF Types, Shape
<1> DEFINE m == sent[n]
<1>2. m \in Message
  BY <1>1
<1> HIDE DEF m
<1>3. m.ago \in 0..(Window + 1)
  BY <1>2 DEF Message
<1> QED
  BY <1>3 DEF m

\* What is recent is finite.
LEMMA RecentFinite ==
  ASSUME Types PROVE IsFiniteSet(Recent) /\ Cardinality(Recent) \in Nat
<1>1. Len(sent) \in Nat /\ DOMAIN sent = 1..Len(sent)
  BY DEF Types, Shape
<1> DEFINE top == Len(sent)
<1>2. 1 \in Int /\ top \in Int /\ DOMAIN sent = 1..top
  BY <1>1
<1> HIDE DEF top
<1>3. IsFiniteSet(1..top)
  BY <1>2, FS_Interval, Zenon
<1>4. Recent \subseteq 1..top
  BY <1>2 DEF Recent
<1> QED
  BY <1>3, <1>4, FS_Subset, FS_CardinalityType

\* The messages within the window do not become more.
LEMMA FewerRecent ==
  ASSUME Types, Types', Cardinality(Recent) <= UserLimit, Recent' \subseteq Recent
  PROVE  Cardinality(Recent') <= UserLimit
<1>1. Cardinality(Recent') <= Cardinality(Recent)
  BY RecentFinite, FS_Subset
<1>2. Cardinality(Recent') \in Nat
  BY RecentFinite, FS_Subset, FS_CardinalityType
<1> QED
  BY <1>1, <1>2, RecentFinite, Constants

\* A message of the user keeps the quotas.
LEMMA SayInBudget == ASSUME Types, Budget, NEW i \in Turns, Say(i) PROVE Budget'
<1>1. DOMAIN sent' = DOMAIN sent /\ \A n \in DOMAIN sent : sent'[n].ago = sent[n].ago
  BY SayRewrites DEF SameMessages
<1>2. Recent' \subseteq Recent
  BY <1>1 DEF Recent
<1>3. Paced'
  <2>1. DOMAIN sent = 1..Len(sent) /\ Len(sent) \in Nat
    BY DEF Types, Shape
  <2>2. \A n \in DOMAIN sent : n > 1 => n - 1 \in DOMAIN sent
    BY <2>1
  <2> QED
    BY <1>1, <2>2 DEF Paced, Budget
<1> QED
  BY <1>2, <1>3, FewerRecent, SayTypes DEF Budget

\* Time keeps the quotas: what was recent can only cease to be.
LEMMA TickInBudget == ASSUME Types, Budget, Tick PROVE Budget'
<1>1. DOMAIN sent' = DOMAIN sent
      /\ \A n \in DOMAIN sent : sent'[n].ago = Past(sent[n].ago, Window + 1)
  BY TickRewrites DEF SameMessages
<1>2. \A n \in DOMAIN sent : sent[n].ago \in 0..(Window + 1)
  BY AgeType
<1>3. Recent' \subseteq Recent
  BY <1>1, <1>2, Constants DEF Recent, Past
<1>4. Paced'
  <2>1. DOMAIN sent = 1..Len(sent) /\ Len(sent) \in Nat
    BY DEF Types, Shape
  <2> SUFFICES ASSUME NEW n \in DOMAIN sent, n > 1
               PROVE  sent'[n - 1].ago - sent'[n].ago >= Cooldown \/ sent'[n - 1].ago > Window
    BY <1>1 DEF Paced
  <2> DEFINE a == sent[n - 1].ago
             b == sent[n].ago
  <2>2. n - 1 \in DOMAIN sent
    BY <2>1
  <2>3. a \in 0..(Window + 1) /\ b \in 0..(Window + 1) /\ (a - b >= Cooldown \/ a > Window)
    BY <1>2, <2>2 DEF Budget, Paced
  <2>4. sent'[n - 1].ago = Past(a, Window + 1) /\ sent'[n].ago = Past(b, Window + 1)
    BY <1>1, <2>2
  <2> HIDE DEF a, b
  <2> QED
    BY <2>3, <2>4, Constants DEF Past
<1> QED
  BY <1>3, <1>4, FewerRecent, TickTypes DEF Budget

\* Sending keeps the quotas, because it was counted before.
LEMMA SendInBudget == ASSUME Types, Budget, NEW p \in Processes, Send(p) PROVE Budget'
<1> DEFINE new == Len(sent) + 1
<1>1. /\ Len(sent) \in Nat /\ DOMAIN sent = 1..Len(sent) /\ DOMAIN sent' = 1..new
      /\ \A n \in DOMAIN sent : sent'[n] = sent[n]
  BY SendAppends
<1>2. sent'[new].ago = 0
  <2>1. new = Len(sent') /\ sent'[Len(sent')] = [source |-> S(p), ago |-> 0, answered |-> FALSE]
    BY SendAppends
  <2> QED
    BY <2>1
<1>3. Cardinality(Recent) < UserLimit /\ (sent # <<>> => sent[Len(sent)].ago >= Cooldown)
  BY DEF Send, Quota
<1>4. Recent' \subseteq Recent \cup {new}
  BY <1>1 DEF Recent
<1>5. Cardinality(Recent') <= UserLimit
  <2>1. IsFiniteSet(Recent \cup {new}) /\ Cardinality(Recent \cup {new}) <= Cardinality(Recent) + 1
    <3>1. IsFiniteSet(Recent \cup {new})
          /\ Cardinality(Recent \cup {new})
               = IF new \in Recent THEN Cardinality(Recent) ELSE Cardinality(Recent) + 1
      BY RecentFinite, FS_AddElement
    <3> QED
      BY <3>1, RecentFinite
  <2>2. Cardinality(Recent') <= Cardinality(Recent \cup {new}) /\ IsFiniteSet(Recent')
    BY <1>4, <2>1, FS_Subset
  <2>3. Cardinality(Recent') \in Nat /\ Cardinality(Recent \cup {new}) \in Nat
    BY <2>1, <2>2, FS_CardinalityType
  <2> QED
    BY <1>3, <2>1, <2>2, <2>3, RecentFinite, Constants
<1>6. Paced'
  <2> SUFFICES ASSUME NEW n \in 1..new, n > 1
               PROVE  sent'[n - 1].ago - sent'[n].ago >= Cooldown \/ sent'[n - 1].ago > Window
    BY <1>1 DEF Paced
  <2>1. n - 1 \in DOMAIN sent /\ sent'[n - 1] = sent[n - 1]
    BY <1>1
  <2>2. CASE n = new
    <3>1. sent # <<>> /\ n - 1 = Len(sent)
      BY <1>1, <2>1, <2>2
    <3>2. sent[n - 1].ago \in Int
      BY <2>1, AgeType, Constants
    <3>3. sent[n - 1].ago >= Cooldown
      BY <1>3, <3>1
    <3> QED
      BY <1>2, <2>1, <2>2, <3>2, <3>3, Constants
  <2>3. CASE n # new
    <3>1. n \in DOMAIN sent /\ sent'[n] = sent[n]
      BY <1>1, <2>3
    <3> QED
      BY <2>1, <3>1 DEF Budget, Paced
  <2> QED
    BY <2>2, <2>3
<1> QED
  BY <1>5, <1>6 DEF Budget

\* Characters that write at the same time in several processes share the user's budget: it
\* is looked at again in the transaction that sends.
THEOREM QuotasKept == Spec => []QuotasHeld
<1>1. Init => Budget
  <2> SUFFICES ASSUME Init PROVE Budget
    OBVIOUS
  <2>1. sent = <<>> /\ DOMAIN sent = {} /\ Recent = {}
    BY DEF Init, Recent
  <2> QED
    BY <2>1, FS_EmptySet, Constants DEF Budget, Paced
<1>2. Types /\ Budget /\ [Next]_vars => Budget'
  <2> SUFFICES ASSUME Types, Budget, [Next]_vars PROVE Budget'
    OBVIOUS
  <2>1. CASE UNCHANGED sent
    BY <2>1 DEF Budget, Paced, Recent
  <2> QED
    BY <2>1, MessagesRest, SayInBudget, TickInBudget, SendInBudget
<1>3. Budget => QuotasHeld
  BY DEF Budget, Paced, QuotasHeld
<1> QED
  BY <1>1, <1>2, <1>3, TypesHold, PTL DEF Spec
=============================================================================
