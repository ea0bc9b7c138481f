-------------------------- MODULE KeepsakesProofs ---------------------------
(***************************************************************************)
(* Safety of Keepsakes, for any number of letters, sources, files and      *)
(* workers.                                                                *)
(*                                                                         *)
(* The files are the hard part.  A picture that a source records may be    *)
(* taken away by a worker that cleans up, by a write that replaces it and  *)
(* by the scan for orphans.  The invariant says that such a worker carries *)
(* a file no uncontested source records (Safe), and that the scan spares   *)
(* the files they do record (Stays).                                       *)
(***************************************************************************)
EXTENDS Keepsakes, TLAPS

\* The rows of Keepsakes by their fields.
TaskStates == {"none", "pending", "claimed", "retryable", "completed", "dead_letter"}
KeepStates == {"none", "pending", "generating", "ready", "failed"}
RunStates  == {"none", "pending", "generating", "retryable", "failed", "committed"}
Stages     == {"idle", "mark", "draw", "write", "verify", "commit", "clean", "unlink", "record"}

TaskRow == [status : TaskStates, attempt : 0..MaxAttempts, token : Workers \cup {None},
            lapsed : BOOLEAN]
WorkRow == [stage : Stages, of : Sources \cup {None}, file : Files \cup {None},
            created : BOOLEAN, retryable : BOOLEAN]
ScanRow == [stage : {"idle", "list", "remove"}, refs : SUBSET Files, todo : SUBSET Files]

\* The variables have their types; the rows are named for the lemmas.
Types ==
  /\ reply \in [Letters -> {"none", "sealed", "read"}]
  /\ keep \in [Sources -> KeepStates]
  /\ gifted \in [Sources -> BOOLEAN] /\ link \in [Letters -> BOOLEAN]
  /\ task \in [Sources -> TaskRow] /\ run \in [Sources -> RunStates]
  /\ image \in [Sources -> Files \cup {None}] /\ files \in SUBSET Files
  /\ notice \in [Letters -> {"none", "enqueue", "link"}]
  /\ work \in [Workers -> WorkRow]
  /\ contested \in [Sources -> BOOLEAN] /\ scan \in ScanRow

\* A source has a picture, a committed run and a completed task together, or none.
Whole(k) ==
  /\ keep[k] = "ready" <=> image[k] # None
  /\ keep[k] = "ready" <=> run[k] = "committed"
  /\ keep[k] = "ready" <=> task[k].status = "completed"

\* What a worker carries with it at each stage.
Knows(w) ==
  /\ work[w].stage # "idle" => work[w].of \in Sources
  /\ work[w].stage \in {"write", "verify", "commit", "clean", "unlink"} => work[w].file \in Files
  /\ work[w].stage \in {"mark", "draw", "write"} => ~work[w].created

\* The worker may take away or replace the file it carries.
Removes(w) == At(w, "write") \/ At(w, "unlink") \/ (At(w, "verify") /\ work[w].created)

\* No uncontested source records the file such a worker carries.
Safe(w) == Removes(w) => \A k \in Sources : image[k] = F(w) => contested[k]

\* The file of an uncontested source is there, and the scan does not take it for an orphan.
Stays(k) ==
  image[k] # None /\ ~contested[k] =>
    /\ image[k] \in files /\ image[k] \notin scan.todo
    /\ scan.stage = "list" => image[k] \in scan.refs

FilesInv == (\A w \in Workers : Knows(w) /\ Safe(w)) /\ \A k \in Sources : Stays(k)

\* The inductive invariant of Keepsakes.
KeepsakesInv == Types /\ (\A k \in Sources : Whole(k)) /\ GiftFollowsOpening /\ FilesInv

-----------------------------------------------------------------------------
\* The rows of the lemmas are those of the type invariant.
LEMMA TypesAreTypes == Types => TypeOK
  BY DEF Types, TypeOK, TaskRow, WorkRow, ScanRow, TaskStates, KeepStates, RunStates, Stages

\* A worker with nothing to do, and a scan that is not running, are rows.
LEMMA IdleRow == Idle \in WorkRow /\ Idle.stage = "idle"
  BY DEF Idle, WorkRow, Stages

\* A walk that does not run has nothing to do.
LEMMA NoScanRow == NoScan \in ScanRow /\ NoScan.stage = "idle" /\ NoScan.todo = {}
  BY DEF NoScan, ScanRow

\* A task that leaves its claim is a row.
LEMMA LeftRow ==
  ASSUME Types, NEW k \in Sources, NEW s \in TaskStates
  PROVE  Left(k, s) \in TaskRow /\ Left(k, s).status = s
<1>1. task[k].attempt \in 0..MaxAttempts
  BY DEF Types, TaskRow
<1>2. NoTask \in TaskRow
  BY KeepsakesAssumption DEF NoTask, TaskRow, TaskStates
<1> QED
  BY <1>1, <1>2 DEF Left, TaskRow

\* The invariant of Keepsakes holds initially.
LEMMA InitInv == Init => KeepsakesInv
<1> SUFFICES ASSUME Init PROVE KeepsakesInv
  OBVIOUS
<1>1. NoTask \in TaskRow /\ NoTask.status = "none"
  BY KeepsakesAssumption DEF NoTask, TaskRow, TaskStates
<1>2. Types
  BY <1>1, IdleRow, NoScanRow DEF Init, Types, KeepStates, RunStates
<1>3. ASSUME NEW k \in Sources PROVE Whole(k)
  BY <1>1 DEF Init, Whole
<1>4. GiftFollowsOpening
  BY DEF Init, GiftFollowsOpening, Received, Sources
<1>5. FilesInv
  BY IdleRow, NoScanRow DEF Init, FilesInv, Knows, Safe, Removes, Stays, At
<1> QED
  BY <1>2, <1>3, <1>4, <1>5 DEF KeepsakesInv

-----------------------------------------------------------------------------
(* What a step leaves as it was. *)

\* A step that opens no letter and takes no gift back keeps the order of the two.
LEMMA GiftsStay ==
  ASSUME GiftFollowsOpening, UNCHANGED <<reply, link, gifted>>,
         \A k \in Sources : keep'[k] = "ready" <=> keep[k] = "ready"
  PROVE  GiftFollowsOpening'
  BY DEF GiftFollowsOpening, Received, Sources

\* A step that touches neither files, pictures, workers nor the scan keeps the files safe.
LEMMA FilesStay ==
  ASSUME FilesInv, UNCHANGED <<work, image, contested, files, scan>> PROVE FilesInv'
  BY DEF FilesInv, Knows, Safe, Removes, Stays, At, F

\* A worker goes on; it may write a file.
LEMMA WorkerMoves ==
  ASSUME Types, FilesInv, NEW w \in Workers, NEW r \in WorkRow,
         work' = [work EXCEPT ![w] = r], UNCHANGED <<image, contested, scan>>,
         files \subseteq files', Knows(w)', Safe(w)'
  PROVE  FilesInv'
<1>1. ASSUME NEW v \in Workers, v # w PROVE Knows(v)' /\ Safe(v)'
  <2>1. work'[v] = work[v]
    BY <1>1 DEF Types
  <2> QED
    BY <2>1 DEF FilesInv, Knows, Safe, Removes, At, F
<1>2. ASSUME NEW k \in Sources PROVE Stays(k)'
  BY DEF FilesInv, Stays
<1> QED
  BY <1>1, <1>2 DEF FilesInv

\* A step that sends a worker home and changes no row keeps the invariant.
LEMMA WorkerEnds ==
  ASSUME Types, FilesInv, NEW w \in Workers, Ends(w), UNCHANGED <<image, contested, scan, files>>
  PROVE  FilesInv' /\ work' \in [Workers -> WorkRow]
<1>1. work'[w] = Idle /\ work' \in [Workers -> WorkRow]
  BY IdleRow DEF Ends, Types
<1>2. Knows(w)' /\ Safe(w)'
  BY <1>1, IdleRow DEF Knows, Safe, Removes, At
<1> QED
  BY <1>1, <1>2, IdleRow, WorkerMoves DEF Ends

\* The rows of one keepsake change, and it is as unfinished, or as finished, as before.
LEMMA RowsMove ==
  ASSUME KeepsakesInv, Types', FilesInv', NEW k \in Sources, UNCHANGED <<reply, link, gifted, image>>,
         \A c \in Sources \ {k} : keep'[c] = keep[c] /\ run'[c] = run[c] /\ task'[c] = task[c],
         Whole(k)'
  PROVE  KeepsakesInv'
<1>1. ASSUME NEW c \in Sources PROVE Whole(c)'
  BY DEF KeepsakesInv, Whole
<1>2. \A c \in Sources : keep'[c] = "ready" <=> keep[c] = "ready"
  BY <1>1 DEF KeepsakesInv, Whole
<1> QED
  BY <1>1, <1>2, GiftsStay DEF KeepsakesInv

\* No row of a keepsake changes.
LEMMA FilesMove ==
  ASSUME KeepsakesInv, Types', FilesInv', UNCHANGED <<letterRows, keep, gifted, run, image, task>>
  PROVE  KeepsakesInv'
<1>1. GiftFollowsOpening'
  BY GiftsStay DEF KeepsakesInv, letterRows
<1> QED
  BY <1>1 DEF KeepsakesInv, Whole

-----------------------------------------------------------------------------
(* The letter. *)

\* The reply to a letter is sealed: nothing of a picture changes.
LEMMA CommitReplyKeeps == ASSUME KeepsakesInv, NEW l \in Letters, CommitReply(l) PROVE KeepsakesInv'
<1>1. /\ reply[l] = "none" /\ reply' = [reply EXCEPT ![l] = "sealed"]
      /\ notice' = [notice EXCEPT ![l] = "enqueue"]
      /\ UNCHANGED <<keep, gifted, run, image, contested, link, task, files, work, scan>>
  BY DEF CommitReply, stories
<1>2. Types'
  BY <1>1 DEF KeepsakesInv, Types
<1>3. FilesInv'
  BY <1>1, FilesStay DEF KeepsakesInv
<1>4. reply'[l] = "sealed" /\ \A c \in Letters \ {l} : reply'[c] = reply[c]
  BY <1>1 DEF KeepsakesInv, Types
<1>5. ~gifted[l]
  BY <1>1 DEF KeepsakesInv, GiftFollowsOpening, Received, Sources
<1>6. l \notin Others
  BY KeepsakesAssumption
<1>7. GiftFollowsOpening'
  BY <1>1, <1>4, <1>5, <1>6 DEF KeepsakesInv, GiftFollowsOpening, Received, Sources
<1> QED
  BY <1>1, <1>2, <1>3, <1>7 DEF KeepsakesInv, Whole

\* A keepsake is created pending; one that exists is left alone.
LEMMA CreateKeeps ==
  ASSUME KeepsakesInv, NEW k \in Sources, CreatePending(k),
         UNCHANGED <<reply, link, gifted, image, contested, files, work, scan>>,
         notice' \in [Letters -> {"none", "enqueue", "link"}]
  PROVE  KeepsakesInv'
<1>1. FilesInv'
  BY FilesStay DEF KeepsakesInv
<1>2. CASE keep[k] = "none"
  <2> DEFINE t == [task[k] EXCEPT !.status = "pending"]
  <2>1. t \in TaskRow /\ t.status = "pending"
    BY DEF KeepsakesInv, Types, TaskRow, TaskStates
  <2>2. /\ keep' = [keep EXCEPT ![k] = "pending"] /\ run' = [run EXCEPT ![k] = "pending"]
        /\ task' = [task EXCEPT ![k] = t]
    BY <1>2 DEF CreatePending
  <2> HIDE DEF t
  <2>3. Types'
    BY <2>1, <2>2 DEF KeepsakesInv, Types, KeepStates, RunStates
  <2>4. image[k] = None
    BY <1>2 DEF KeepsakesInv, Whole
  <2>5. keep'[k] = "pending" /\ run'[k] = "pending" /\ task'[k] = t
    BY <2>2 DEF KeepsakesInv, Types
  <2>6. Whole(k)'
    BY <2>1, <2>4, <2>5 DEF Whole
  <2>7. \A c \in Sources \ {k} : keep'[c] = keep[c] /\ run'[c] = run[c] /\ task'[c] = task[c]
    BY <2>2 DEF KeepsakesInv, Types
  <2> QED
    BY <1>1, <2>3, <2>6, <2>7, RowsMove
<1>3. CASE keep[k] # "none"
  <2>1. UNCHANGED <<keep, task, run>>
    BY <1>3 DEF CreatePending
  <2>2. Types'
    BY <2>1 DEF KeepsakesInv, Types
  <2> QED
    BY <1>1, <2>1, <2>2, FilesMove DEF letterRows
<1> QED
  BY <1>2, <1>3

\* A developer, or the notice of a letter, creates the keepsake of a source.
LEMMA EnqueueKeeps ==
  ASSUME KeepsakesInv,
         \/ \E k \in Sources : EnqueueSource(k)
         \/ \E l \in Letters : EnqueueNotice(l)
  PROVE  KeepsakesInv'
<1>1. ASSUME NEW k \in Sources, EnqueueSource(k) PROVE KeepsakesInv'
  BY <1>1, CreateKeeps DEF EnqueueSource, letterRows, memory, KeepsakesInv, Types
<1>2. ASSUME NEW l \in Letters, EnqueueNotice(l) PROVE KeepsakesInv'
  <2>1. l \in Sources
    BY DEF Sources
  <2>2. notice' \in [Letters -> {"none", "enqueue", "link"}]
    BY <1>2 DEF EnqueueNotice, KeepsakesInv, Types
  <2>3. UNCHANGED <<reply, link, gifted, image, contested, files, work, scan>>
    BY <1>2 DEF EnqueueNotice, letterRows
  <2>4. CASE CreatePending(l)
    BY <2>1, <2>2, <2>3, <2>4, CreateKeeps
  <2>5. CASE UNCHANGED <<keep, task, run>>
    <3>1. Types'
      BY <2>2, <2>3, <2>5 DEF KeepsakesInv, Types
    <3>2. FilesInv'
      BY <2>3, FilesStay DEF KeepsakesInv
    <3> QED
      BY <2>3, <2>5, <3>1, <3>2, FilesMove DEF letterRows
  <2> QED
    BY <1>2, <2>4, <2>5 DEF EnqueueNotice
<1> QED
  BY <1>1, <1>2

\* The link and the opening: each looks whether the other has been there.
LEMMA OpeningKeeps ==
  ASSUME KeepsakesInv, NEW l \in Letters, LinkToReply(l) \/ OpenReply(l) PROVE KeepsakesInv'
<1>1. UNCHANGED <<keep, task, run, image, contested, files, work, scan>>
  BY DEF LinkToReply, OpenReply, memory
<1>2. /\ link' \in [Letters -> BOOLEAN] /\ reply' \in [Letters -> {"none", "sealed", "read"}]
      /\ notice' \in [Letters -> {"none", "enqueue", "link"}]
      /\ gifted' \in [Sources -> BOOLEAN]
  BY DEF LinkToReply, OpenReply, memory, KeepsakesInv, Types
<1>3. Types'
  BY <1>1, <1>2 DEF KeepsakesInv, Types
<1>4. FilesInv'
  BY <1>1, FilesStay DEF KeepsakesInv
<1>5. l \in Sources /\ l \notin Others
  BY KeepsakesAssumption DEF Sources
<1>6. gifted'[l] <=> gifted[l] \/ (link'[l] /\ reply'[l] = "read")
  BY <1>5 DEF LinkToReply, OpenReply, KeepsakesInv, Types, GiftFollowsOpening, Received
<1>7. /\ \A c \in Sources \ {l} : gifted'[c] = gifted[c]
      /\ \A c \in Letters \ {l} : link'[c] = link[c] /\ reply'[c] = reply[c]
  BY DEF LinkToReply, OpenReply, KeepsakesInv, Types
<1>8. gifted[l] => link'[l] /\ reply'[l] = "read"
  BY <1>5 DEF LinkToReply, OpenReply, KeepsakesInv, Types, GiftFollowsOpening, Received
<1>9. GiftFollowsOpening'
  BY <1>1, <1>5, <1>6, <1>7, <1>8 DEF KeepsakesInv, GiftFollowsOpening, Received, Sources
<1> QED
  BY <1>1, <1>3, <1>4, <1>9 DEF KeepsakesInv, Whole

-----------------------------------------------------------------------------
(* The task. *)

\* A claim takes a task that is not completed.
LEMMA ClaimKeeps ==
  ASSUME KeepsakesInv, NEW w \in Workers, NEW k \in Sources, Claim(w, k) PROVE KeepsakesInv'
<1> DEFINE t == [status |-> "claimed", attempt |-> task[k].attempt + 1, token |-> w, lapsed |-> FALSE]
           r == [Idle EXCEPT !.stage = "mark", !.of = k]
<1>1. task[k].attempt + 1 \in 0..MaxAttempts /\ task[k].status # "completed"
  BY KeepsakesAssumption
  DEF KeepsakesInv, Types, TaskRow, Claim, HasAttempts, Free, Waiting
<1>2. t \in TaskRow /\ t.status = "claimed"
  BY <1>1 DEF TaskRow, TaskStates
<1>3. r \in WorkRow /\ r.stage = "mark" /\ r.of = k /\ ~r.created
  BY DEF Idle, WorkRow, Stages
<1>4. /\ task' = [task EXCEPT ![k] = t] /\ work' = [work EXCEPT ![w] = r]
      /\ UNCHANGED <<reply, link, keep, gifted, run, image, contested, files, notice, scan>>
  BY DEF Claim, letterRows, stories
<1> HIDE DEF t, r
<1>5. Types'
  BY <1>2, <1>3, <1>4 DEF KeepsakesInv, Types
<1>6. work'[w] = r /\ task'[k] = t
  BY <1>4 DEF KeepsakesInv, Types
<1>7. Knows(w)' /\ Safe(w)'
  BY <1>3, <1>6 DEF Knows, Safe, Removes, At
<1>8. FilesInv'
  BY <1>3, <1>4, <1>7, WorkerMoves DEF KeepsakesInv
<1>9. Whole(k)'
  BY <1>1, <1>2, <1>4, <1>6 DEF KeepsakesInv, Whole
<1>10. \A c \in Sources \ {k} : task'[c] = task[c]
  BY <1>4 DEF KeepsakesInv, Types
<1> QED
  BY <1>4, <1>5, <1>8, <1>9, <1>10, RowsMove

\* A task that is dead or whose lease runs out is not a completed one.
LEMMA TaskKeeps ==
  ASSUME KeepsakesInv, NEW k \in Sources, Exhaust(k) \/ Lapse(k) PROVE KeepsakesInv'
<1>1. PICK t \in TaskRow : /\ task' = [task EXCEPT ![k] = t]
                           /\ t.status # "completed" /\ task[k].status # "completed"
  <2>1. CASE Exhaust(k)
    <3>1. "dead_letter" \in TaskStates /\ task[k].status # "completed"
      BY <2>1 DEF TaskStates, Exhaust, Free, Waiting
    <3> QED
      BY <2>1, <3>1, LeftRow DEF Exhaust, KeepsakesInv
  <2>2. CASE Lapse(k)
    <3> DEFINE t == [task[k] EXCEPT !.lapsed = TRUE]
    <3>1. t \in TaskRow /\ t.status = task[k].status
      BY DEF KeepsakesInv, Types, TaskRow
    <3> QED
      BY <2>2, <3>1 DEF Lapse
  <2> QED
    BY <2>1, <2>2
<1>2. UNCHANGED <<reply, link, keep, gifted, run, image, contested, files, notice, work, scan>>
  BY DEF Exhaust, Lapse, letterRows, stories, memory
<1>3. Types'
  BY <1>1, <1>2 DEF KeepsakesInv, Types
<1>4. FilesInv'
  BY <1>2, FilesStay DEF KeepsakesInv
<1>5. Whole(k)'
  BY <1>1, <1>2 DEF KeepsakesInv, Types, Whole
<1>6. \A c \in Sources \ {k} : task'[c] = task[c]
  BY <1>1 DEF KeepsakesInv, Types
<1> QED
  BY <1>2, <1>3, <1>4, <1>5, <1>6, RowsMove

\* The rows of the worker's own keepsake, while the claim is still its own.
LEMMA MarkKeeps == ASSUME KeepsakesInv, NEW w \in Workers, MarkGenerating(w) PROVE KeepsakesInv'
<1> DEFINE r == [work[w] EXCEPT !.stage = "draw"]
<1>1. PICK k \in Sources : k = K(w)
  BY DEF KeepsakesInv, FilesInv, Knows, MarkGenerating, At, K
<1>2. UNCHANGED <<reply, link, gifted, task, image, contested, files, notice, scan>>
  BY DEF MarkGenerating, letterRows
<1>3. r \in WorkRow /\ r.stage = "draw" /\ r.of = k /\ r.created = work[w].created
  BY <1>1 DEF KeepsakesInv, Types, WorkRow, Stages, K
<1> HIDE DEF r
<1>4. CASE Owns(w)
  <2>1. work' = [work EXCEPT ![w] = r]
    BY <1>4 DEF MarkGenerating, Goes, r
  <2>2. work'[w] = r
    BY <2>1 DEF KeepsakesInv, Types
  <2>3. /\ run' = IF run[k] \in {"pending", "retryable"} THEN [run EXCEPT ![k] = "generating"] ELSE run
        /\ keep' = IF keep[k] \in {"pending", "failed"} THEN [keep EXCEPT ![k] = "generating"] ELSE keep
    BY <1>1, <1>4 DEF MarkGenerating
  <2>4. Types'
    BY <1>1, <1>2, <1>3, <2>1, <2>3 DEF KeepsakesInv, Types, RunStates, KeepStates
  <2>5. Knows(w)' /\ Safe(w)'
    <3>1. ~work[w].created
      BY DEF KeepsakesInv, FilesInv, Knows, MarkGenerating, At
    <3> QED
      BY <1>1, <1>3, <2>2, <3>1 DEF Knows, Safe, Removes, At
  <2>6. FilesInv'
    BY <1>2, <1>3, <2>1, <2>5, WorkerMoves DEF KeepsakesInv
  <2>7. keep[k] # "ready" /\ image[k] = None /\ run[k] # "committed" /\ task[k].status # "completed"
    BY <1>1, <1>4 DEF KeepsakesInv, Whole, Owns
  <2>8. keep'[k] # "ready" /\ run'[k] # "committed"
    BY <1>1, <2>3, <2>7 DEF KeepsakesInv, Types
  <2>9. Whole(k)'
    BY <1>2, <2>7, <2>8 DEF Whole
  <2>10. \A c \in Sources \ {k} : keep'[c] = keep[c] /\ run'[c] = run[c] /\ task'[c] = task[c]
    BY <1>2, <2>3 DEF KeepsakesInv, Types
  <2> QED
    BY <1>1, <1>2, <2>4, <2>6, <2>9, <2>10, RowsMove
<1>5. CASE ~Owns(w)
  <2>1. Ends(w) /\ UNCHANGED <<run, keep>>
    BY <1>5 DEF MarkGenerating
  <2>2. FilesInv' /\ work' \in [Workers -> WorkRow]
    BY <1>2, <2>1, WorkerEnds DEF KeepsakesInv
  <2>3. Types'
    BY <1>2, <2>1, <2>2 DEF KeepsakesInv, Types
  <2> QED
    BY <1>2, <2>1, <2>2, <2>3, FilesMove DEF letterRows
<1> QED
  BY <1>4, <1>5

\* A failure is recorded only under the claim, so never for a keepsake that is finished.
LEMMA RecordKeeps == ASSUME KeepsakesInv, NEW w \in Workers, Record(w) PROVE KeepsakesInv'
<1> DEFINE ts == IF Retryable(w) THEN "retryable" ELSE "dead_letter"
           rs == IF Retryable(w) THEN "retryable" ELSE "failed"
           ks == IF Retryable(w) THEN "pending" ELSE "failed"
<1>1. PICK k \in Sources : k = K(w)
  BY DEF KeepsakesInv, FilesInv, Knows, Record, At, K
<1>2. UNCHANGED <<reply, link, gifted, image, contested, files, notice, scan>> /\ Ends(w)
  BY DEF Record, letterRows
<1>3. FilesInv' /\ work' \in [Workers -> WorkRow]
  BY <1>2, WorkerEnds DEF KeepsakesInv
<1>4. CASE Owns(w)
  <2>1. /\ task' = [task EXCEPT ![k] = Left(k, ts)]
        /\ run' = IF run[k] = "generating" THEN [run EXCEPT ![k] = rs] ELSE run
        /\ keep' = IF keep[k] = "generating" THEN [keep EXCEPT ![k] = ks] ELSE keep
    BY <1>1, <1>4 DEF Record
  <2>2. /\ ts \in TaskStates \ {"completed"} /\ rs \in RunStates \ {"committed"}
        /\ ks \in KeepStates \ {"ready"}
    BY DEF TaskStates, RunStates, KeepStates
  <2>3. keep[k] # "ready" /\ image[k] = None /\ run[k] # "committed"
    BY <1>1, <1>4 DEF KeepsakesInv, Whole, Owns
  <2> HIDE DEF ts, rs, ks
  <2>4. Left(k, ts) \in TaskRow /\ Left(k, ts).status = ts
    BY <1>1, <2>2, LeftRow DEF KeepsakesInv
  <2>5. Types'
    BY <1>1, <1>2, <1>3, <2>1, <2>2, <2>4 DEF KeepsakesInv, Types
  <2>6. keep'[k] # "ready" /\ run'[k] # "committed" /\ task'[k].status # "completed"
    BY <1>1, <2>1, <2>2, <2>3, <2>4 DEF KeepsakesInv, Types
  <2>7. Whole(k)'
    BY <1>2, <2>3, <2>6 DEF Whole
  <2>8. \A c \in Sources \ {k} : keep'[c] = keep[c] /\ run'[c] = run[c] /\ task'[c] = task[c]
    BY <2>1 DEF KeepsakesInv, Types
  <2> QED
    BY <1>1, <1>2, <1>3, <2>5, <2>7, <2>8, RowsMove
<1>5. CASE ~Owns(w)
  <2>1. UNCHANGED <<task, run, keep>>
    BY <1>5 DEF Record
  <2>2. Types'
    BY <1>2, <1>3, <2>1 DEF KeepsakesInv, Types
  <2> QED
    BY <1>2, <1>3, <2>1, <2>2, FilesMove DEF letterRows
<1> QED
  BY <1>4, <1>5

-----------------------------------------------------------------------------
(* The files. *)

\* A worker that goes on without touching a row.
LEMMA WorkKeeps ==
  ASSUME KeepsakesInv, NEW w \in Workers, NEW r \in WorkRow, work' = [work EXCEPT ![w] = r],
         UNCHANGED <<letterRows, stories, task, notice, scan>>,
         files \subseteq files', files' \in SUBSET Files, Knows(w)', Safe(w)'
  PROVE  KeepsakesInv'
<1>1. FilesInv'
  BY WorkerMoves DEF KeepsakesInv, stories
<1>2. Types'
  BY DEF KeepsakesInv, Types, letterRows, stories
<1> QED
  BY <1>1, <1>2, FilesMove DEF stories

\* A worker that fails before anything is stored goes on to record it.
LEMMA GivesKeeps ==
  ASSUME KeepsakesInv, NEW w \in Workers, NEW retryable \in BOOLEAN, Gives(w, retryable),
         K(w) \in Sources, UNCHANGED <<letterRows, stories, task, files, notice, scan>>
  PROVE  KeepsakesInv'
<1> DEFINE r == [[work[w] EXCEPT !.stage = "record"] EXCEPT !.retryable = retryable]
<1>1. work' = [work EXCEPT ![w] = r]
  BY DEF Gives, KeepsakesInv, Types
<1>2. r \in WorkRow /\ r.stage = "record" /\ r.of = K(w)
  BY DEF KeepsakesInv, Types, WorkRow, Stages, K
<1> HIDE DEF r
<1>3. work'[w] = r
  BY <1>1 DEF KeepsakesInv, Types
<1>4. Knows(w)' /\ Safe(w)'
  BY <1>2, <1>3 DEF Knows, Safe, Removes, At
<1> QED
  BY <1>1, <1>2, <1>4, WorkKeeps DEF KeepsakesInv, Types

\* Nobody points to a file that is missing without having been contested.
LEMMA DrawKeeps == ASSUME KeepsakesInv, NEW w \in Workers, Draw(w) PROVE KeepsakesInv'
<1>1. K(w) \in Sources /\ work[w] \in WorkRow
  BY DEF KeepsakesInv, Types, FilesInv, Knows, Draw, At, K
<1>2. UNCHANGED <<letterRows, stories, task, files, notice, scan>> /\ files \in SUBSET Files
  BY DEF Draw, KeepsakesInv, Types
<1>3. ASSUME NEW f \in Pictures[K(w)],
             work' = [work EXCEPT ![w].file = f,
                                  ![w].stage = IF f \in files THEN "verify" ELSE "write"]
      PROVE  KeepsakesInv'
  <2> DEFINE s == IF f \in files THEN "verify" ELSE "write"
             r == [[work[w] EXCEPT !.file = f] EXCEPT !.stage = s]
  <2>1. f \in Files /\ s \in Stages
    BY <1>1 DEF Files, Stages
  <2>2. work' = [work EXCEPT ![w] = r]
    BY <1>3 DEF KeepsakesInv, Types
  <2> HIDE DEF s
  <2>3. r \in WorkRow /\ r.stage = s /\ r.of = K(w) /\ r.file = f
    BY <1>1, <2>1 DEF WorkRow, K
  <2> HIDE DEF r
  <2>4. work'[w] = r
    BY <2>2 DEF KeepsakesInv, Types
  <2>5. Knows(w)'
    <3>1. r.created = work[w].created /\ ~work[w].created
      BY <1>1 DEF r, WorkRow, KeepsakesInv, FilesInv, Knows, Draw, At
    <3> QED
      BY <1>1, <2>1, <2>3, <2>4, <3>1 DEF Knows
  <2>6. Safe(w)'
    <3>1. CASE f \in files
      \* What was there already is not the worker's to take away.
      <4>1. ~work[w].created
        BY DEF KeepsakesInv, FilesInv, Knows, Draw, At
      <4>2. s = "verify" /\ r.created = work[w].created
        BY <1>1, <3>1 DEF s, r, WorkRow
      <4> QED
        BY <2>3, <2>4, <4>1, <4>2 DEF Safe, Removes, At
    <3>2. CASE f \notin files
      BY <1>2, <2>1, <2>3, <2>4, <3>2, KeepsakesAssumption
      DEF KeepsakesInv, FilesInv, Stays, Safe, F, stories
    <3> QED
      BY <3>1, <3>2
  <2> QED
    BY <1>2, <2>2, <2>3, <2>5, <2>6, WorkKeeps
<1>4. ASSUME NEW retryable \in BOOLEAN, Gives(w, retryable) PROVE KeepsakesInv'
  BY <1>1, <1>2, <1>4, GivesKeeps
<1> QED
  BY <1>3, <1>4 DEF Draw

\* The file is put in place: who replaces a file of another is contested with it.
LEMMA WriteKeeps == ASSUME KeepsakesInv, NEW w \in Workers, Write(w) PROVE KeepsakesInv'
<1>1. K(w) \in Sources /\ F(w) \in Files /\ work[w] \in WorkRow
  BY DEF KeepsakesInv, Types, FilesInv, Knows, Write, At, K, F
<1>2. UNCHANGED <<letterRows, stories, task, notice, scan>>
  BY DEF Write
<1>3. CASE /\ files' = files \cup {F(w)}
           /\ work' = [work EXCEPT ![w].stage = "verify", ![w].created = TRUE]
  <2> DEFINE r == [[work[w] EXCEPT !.stage = "verify"] EXCEPT !.created = TRUE]
  <2>1. work' = [work EXCEPT ![w] = r]
    BY <1>3 DEF KeepsakesInv, Types
  <2>2. r \in WorkRow /\ r.stage = "verify" /\ r.of = K(w) /\ r.file = F(w)
    BY <1>1 DEF WorkRow, Stages, K, F
  <2> HIDE DEF r
  <2>3. work'[w] = r
    BY <2>1 DEF KeepsakesInv, Types
  <2>4. Knows(w)'
    BY <1>1, <2>2, <2>3 DEF Knows
  <2>5. \A k \in Sources : image[k] = F(w) => contested[k]
    BY DEF KeepsakesInv, FilesInv, Safe, Removes, Write
  <2>6. Safe(w)'
    BY <1>2, <2>2, <2>3, <2>5 DEF Safe, F, stories
  <2>7. files \subseteq files' /\ files' \in SUBSET Files
    BY <1>1, <1>3 DEF KeepsakesInv, Types
  <2> QED
    BY <1>2, <2>1, <2>2, <2>4, <2>6, <2>7, WorkKeeps
<1>4. CASE Gives(w, TRUE) /\ UNCHANGED files
  BY <1>1, <1>2, <1>4, GivesKeeps
<1> QED
  BY <1>3, <1>4 DEF Write

\* A worker goes on to another stage, with the file it has.
LEMMA GoesKeeps ==
  ASSUME KeepsakesInv, NEW w \in Workers, NEW s \in {"commit", "clean", "unlink", "record"},
         Goes(w, s), K(w) \in Sources, F(w) \in Files,
         s = "unlink" => \A k \in Sources : image[k] = F(w) => contested[k],
         UNCHANGED <<letterRows, stories, task, files, notice, scan>>
  PROVE  KeepsakesInv'
<1> DEFINE r == [work[w] EXCEPT !.stage = s]
<1>1. work' = [work EXCEPT ![w] = r]
  BY DEF Goes
<1>2. r \in WorkRow /\ r.stage = s /\ r.of = K(w) /\ r.file = F(w)
  BY DEF KeepsakesInv, Types, WorkRow, Stages, K, F
<1> HIDE DEF r
<1>3. work'[w] = r
  BY <1>1 DEF KeepsakesInv, Types
<1>4. Knows(w)'
  BY <1>2, <1>3 DEF Knows
<1>5. Safe(w)'
  BY <1>2, <1>3 DEF Safe, Removes, At, F, stories
<1> QED
  BY <1>1, <1>2, <1>4, <1>5, WorkKeeps DEF KeepsakesInv, Types

\* Verification reads the file back and goes on to the commit or to the clean-up.
LEMMA VerifyKeeps ==
  ASSUME KeepsakesInv, NEW w \in Workers, Verify(w) \/ CommitFails(w) \/ Clean(w)
  PROVE  KeepsakesInv'
<1>1. K(w) \in Sources /\ F(w) \in Files
  BY DEF KeepsakesInv, FilesInv, Knows, Verify, CommitFails, Clean, At, K, F
<1>2. UNCHANGED <<letterRows, stories, task, files, notice, scan>>
  BY DEF Verify, CommitFails, Clean
<1>3. CASE Verify(w)
  <2>1. work[w].created => \A k \in Sources : image[k] = F(w) => contested[k]
    BY <1>3 DEF KeepsakesInv, FilesInv, Safe, Removes, Verify
  <2> QED
    BY <1>1, <1>2, <1>3, <2>1, GoesKeeps DEF Verify
<1>4. CASE CommitFails(w)
  BY <1>1, <1>2, <1>4, GoesKeeps DEF CommitFails
<1>5. CASE Clean(w)
  BY <1>1, <1>2, <1>5, GoesKeeps DEF Clean, Referenced
<1> QED
  BY <1>3, <1>4, <1>5

\* The clean-up takes its own file away: no uncontested source records it.
LEMMA UnlinkKeeps == ASSUME KeepsakesInv, NEW w \in Workers, Unlink(w) PROVE KeepsakesInv'
<1> DEFINE r == [work[w] EXCEPT !.stage = "record"]
<1>1. /\ files' = files \ {F(w)} /\ work' = [work EXCEPT ![w] = r]
      /\ UNCHANGED <<letterRows, stories, task, notice, scan>>
  BY DEF Unlink, Goes
<1>2. K(w) \in Sources /\ \A k \in Sources : image[k] = F(w) => contested[k]
  BY DEF KeepsakesInv, FilesInv, Knows, Safe, Removes, Unlink, At, K
<1>3. r \in WorkRow /\ r.stage = "record" /\ r.of = K(w)
  BY DEF KeepsakesInv, Types, WorkRow, Stages, K
<1> HIDE DEF r
<1>4. work'[w] = r /\ \A v \in Workers \ {w} : work'[v] = work[v]
  BY <1>1 DEF KeepsakesInv, Types
<1>5. ASSUME NEW v \in Workers PROVE Knows(v)' /\ Safe(v)'
  <2>1. CASE v = w
    BY <1>2, <1>3, <1>4, <2>1 DEF Knows, Safe, Removes, At
  <2>2. CASE v # w
    BY <1>1, <1>4, <2>2 DEF KeepsakesInv, FilesInv, Knows, Safe, Removes, At, F, stories
  <2> QED
    BY <2>1, <2>2
<1>6. ASSUME NEW k \in Sources PROVE Stays(k)'
  BY <1>1, <1>2 DEF KeepsakesInv, FilesInv, Stays, stories
<1>7. Types'
  BY <1>1, <1>3 DEF KeepsakesInv, Types, letterRows, stories
<1> QED
  BY <1>1, <1>5, <1>6, <1>7, FilesMove DEF FilesInv, stories

\* A run that is committed already is recorded again without a new picture.
LEMMA ReplayKeeps == ASSUME KeepsakesInv, NEW w \in Workers, Replay(w) PROVE KeepsakesInv'
<1>1. FilesInv' /\ work' \in [Workers -> WorkRow]
  BY WorkerEnds DEF Replay, KeepsakesInv, stories
<1>2. Types'
  BY <1>1 DEF Replay, KeepsakesInv, Types, letterRows, stories
<1> QED
  BY <1>1, <1>2, FilesMove DEF Replay, stories

-----------------------------------------------------------------------------
\* The one step that finishes a keepsake.
LEMMA CommitKeeps == ASSUME KeepsakesInv, NEW w \in Workers, Commit(w) PROVE KeepsakesInv'
<1>1. PICK k \in Sources : k = K(w)
  BY DEF KeepsakesInv, FilesInv, Knows, Commit, At, K
<1>2. PICK f \in Files : f = F(w)
  BY DEF KeepsakesInv, FilesInv, Knows, Commit, At, F
<1>3. PICK c \in BOOLEAN : c = Contested(w)
  BY DEF Contested
<1>4. PICK g \in BOOLEAN : g = (gifted[k] \/ ReceivedAtCommit(k))
  BY DEF Types, KeepsakesInv, ReceivedAtCommit
<1>5. PICK t \in TaskRow : t = Left(k, "completed") /\ t.status = "completed"
  BY LeftRow DEF KeepsakesInv, TaskStates
<1>6. /\ image' = [image EXCEPT ![k] = f] /\ contested' = [contested EXCEPT ![k] = c]
      /\ run' = [run EXCEPT ![k] = "committed"] /\ keep' = [keep EXCEPT ![k] = "ready"]
      /\ task' = [task EXCEPT ![k] = t] /\ gifted' = [gifted EXCEPT ![k] = g]
      /\ Ends(w) /\ UNCHANGED <<reply, link, files, notice, scan>>
  BY <1>1, <1>2, <1>3, <1>4, <1>5 DEF Commit, letterRows
<1>7. work' = [work EXCEPT ![w] = Idle] /\ work'[w] = Idle
      /\ \A v \in Workers \ {w} : work'[v] = work[v]
  BY <1>6 DEF Ends, KeepsakesInv, Types
<1>8. Types'
  BY <1>6, <1>7, IdleRow DEF KeepsakesInv, Types, RunStates, KeepStates
<1>9. /\ image'[k] = f /\ contested'[k] = c /\ run'[k] = "committed" /\ keep'[k] = "ready"
      /\ task'[k].status = "completed" /\ gifted'[k] = g
  BY <1>5, <1>6 DEF KeepsakesInv, Types
<1>10. \A d \in Sources \ {k} :
         /\ image'[d] = image[d] /\ contested'[d] = contested[d] /\ run'[d] = run[d]
         /\ keep'[d] = keep[d] /\ task'[d] = task[d] /\ gifted'[d] = gifted[d]
  BY <1>6 DEF KeepsakesInv, Types
<1>11. ASSUME NEW d \in Sources PROVE Whole(d)'
  BY <1>9, <1>10, KeepsakesAssumption DEF KeepsakesInv, Whole
<1>12. GiftFollowsOpening'
  <2>1. Letters \cap Others = {}
    BY KeepsakesAssumption
  <2>2. k \in Letters => (g <=> gifted[k])
    BY <1>4, <2>1 DEF KeepsakesInv, GiftFollowsOpening, Received, ReceivedAtCommit
  <2>3. k \in Others => g
    BY <1>4 DEF ReceivedAtCommit
  <2> QED
    BY <1>6, <1>9, <1>10, <2>1, <2>2, <2>3 DEF KeepsakesInv, GiftFollowsOpening, Received, Sources
<1>13. ASSUME NEW v \in Workers PROVE Knows(v)' /\ Safe(v)'
  <2>1. CASE v = w
    BY <1>7, <2>1, IdleRow DEF Knows, Safe, Removes, At
  <2>2. CASE v # w
    <3>1. work'[v] = work[v] /\ Knows(v) /\ Safe(v)
      BY <1>7, <2>2 DEF KeepsakesInv, FilesInv
    <3>2. Removes(v) /\ F(v) = f => c
      BY <1>2, <1>3, <2>2 DEF Contested, Removes
    <3> QED
      BY <1>9, <1>10, <3>1, <3>2 DEF Knows, Safe, Removes, At, F
  <2> QED
    BY <2>1, <2>2
<1>14. ASSUME NEW d \in Sources PROVE Stays(d)'
  <2>1. CASE d = k
    <3>1. ~c => f \in files /\ f \notin scan.todo /\ (scan.stage = "list" => f \in scan.refs)
      BY <1>2, <1>3 DEF Contested
    <3> QED
      BY <1>6, <1>9, <2>1, <3>1 DEF Stays
  <2>2. CASE d # k
    BY <1>6, <1>10, <2>2 DEF KeepsakesInv, FilesInv, Stays
  <2> QED
    BY <2>1, <2>2
<1> QED
  BY <1>8, <1>11, <1>12, <1>13, <1>14 DEF KeepsakesInv, FilesInv

-----------------------------------------------------------------------------
(* The scan, and the end of the process. *)

\* Only the scan and the disk change.
LEMMA ScanMoves ==
  ASSUME KeepsakesInv, UNCHANGED <<letterRows, stories, task, notice, work>>,
         files' \in SUBSET Files, scan' \in ScanRow, \A k \in Sources : Stays(k)'
  PROVE  KeepsakesInv'
<1>1. Types'
  BY DEF KeepsakesInv, Types, letterRows, stories
<1>2. FilesInv'
  BY DEF KeepsakesInv, FilesInv, Knows, Safe, Removes, At, F, stories
<1> QED
  BY <1>1, <1>2, FilesMove DEF stories

\* The scan for orphans lists the pictures that are recorded first and the files then.
LEMMA ScanKeeps == ASSUME KeepsakesInv, Scan \/ ListFiles \/ RemoveOrphan PROVE KeepsakesInv'
<1>1. CASE Scan
  <2> DEFINE n == [stage |-> "list", refs |-> {f \in Files : Referenced(f)}, todo |-> {}]
  <2>1. n \in ScanRow /\ scan' = n /\ UNCHANGED <<letterRows, stories, task, files, notice, work>>
    BY <1>1 DEF Scan, ScanRow
  <2>2. ASSUME NEW k \in Sources PROVE Stays(k)'
    BY <2>1 DEF KeepsakesInv, Types, FilesInv, Stays, Referenced, stories
  <2> QED
    BY <2>1, <2>2, ScanMoves DEF KeepsakesInv, Types
<1>2. CASE ListFiles
  <2> DEFINE n == [[scan EXCEPT !.stage = "remove"] EXCEPT !.todo = files \ scan.refs]
  <2>1. /\ n \in ScanRow /\ n.stage = "remove" /\ n.todo = files \ scan.refs
        /\ scan' = n /\ UNCHANGED <<letterRows, stories, task, files, notice, work>>
    BY <1>2 DEF ListFiles, ScanRow, KeepsakesInv, Types
  <2> HIDE DEF n
  <2>2. ASSUME NEW k \in Sources PROVE Stays(k)'
    BY <1>2, <2>1 DEF KeepsakesInv, Types, FilesInv, Stays, ListFiles, stories
  <2> QED
    BY <2>1, <2>2, ScanMoves DEF KeepsakesInv, Types
<1>3. CASE RemoveOrphan
  <2>1. UNCHANGED <<letterRows, stories, task, notice, work>> /\ scan.stage = "remove"
    BY <1>3 DEF RemoveOrphan
  <2>2. ASSUME NEW f \in scan.todo, files' = files \ {f}, scan' = [scan EXCEPT !.todo = @ \ {f}]
        PROVE  KeepsakesInv'
    <3> DEFINE n == [scan EXCEPT !.todo = scan.todo \ {f}]
    <3>1. n \in ScanRow /\ n.stage = "remove" /\ n.todo = scan.todo \ {f} /\ scan' = n
      BY <2>1, <2>2 DEF ScanRow, KeepsakesInv, Types
    <3> HIDE DEF n
    <3>2. ASSUME NEW k \in Sources PROVE Stays(k)'
      BY <2>1, <2>2, <3>1 DEF KeepsakesInv, FilesInv, Stays, stories
    <3> QED
      BY <2>1, <2>2, <3>1, <3>2, ScanMoves DEF KeepsakesInv, Types
  <2>3. CASE scan' = NoScan /\ UNCHANGED files
    <3>1. ASSUME NEW k \in Sources PROVE Stays(k)'
      BY <2>1, <2>3, NoScanRow DEF KeepsakesInv, FilesInv, Stays, stories
    <3> QED
      BY <2>1, <2>3, <3>1, NoScanRow, ScanMoves DEF KeepsakesInv, Types
  <2> QED
    BY <1>3, <2>2, <2>3 DEF RemoveOrphan
<1> QED
  BY <1>1, <1>2, <1>3

\* A crash sends the workers and the scan home; the rows and files stay.
LEMMA CrashKeeps == ASSUME KeepsakesInv, Crash PROVE KeepsakesInv'
<1>1. Types'
  BY IdleRow, NoScanRow DEF Crash, KeepsakesInv, Types, letterRows, stories
<1>2. ASSUME NEW w \in Workers PROVE Knows(w)' /\ Safe(w)'
  BY IdleRow DEF Crash, Knows, Safe, Removes, At
<1>3. ASSUME NEW k \in Sources PROVE Stays(k)'
  BY NoScanRow DEF Crash, KeepsakesInv, FilesInv, Stays, stories
<1> QED
  BY <1>1, <1>2, <1>3, FilesMove DEF FilesInv, Crash, stories

-----------------------------------------------------------------------------
\* Every step keeps the invariant of Keepsakes.
LEMMA NextInv == ASSUME KeepsakesInv, [Next]_vars PROVE KeepsakesInv'
<1>1. ASSUME NEW l \in Letters,
             CommitReply(l) \/ EnqueueNotice(l) \/ LinkToReply(l) \/ OpenReply(l)
      PROVE  KeepsakesInv'
  BY <1>1, CommitReplyKeeps, EnqueueKeeps, OpeningKeeps
<1>2. ASSUME NEW k \in Sources, EnqueueSource(k) \/ Exhaust(k) \/ Lapse(k) PROVE KeepsakesInv'
  BY <1>2, EnqueueKeeps, TaskKeeps
<1>3. ASSUME NEW w \in Workers, Step(w) \/ \E k \in Sources : Claim(w, k) PROVE KeepsakesInv'
  BY <1>3, ClaimKeeps, MarkKeeps, DrawKeeps, WriteKeeps, VerifyKeeps, CommitKeeps, ReplayKeeps,
     UnlinkKeeps, RecordKeeps DEF Step
<1>4. CASE UNCHANGED vars
  <2>1. Types' /\ FilesInv'
    BY <1>4, FilesStay DEF vars, KeepsakesInv, Types
  <2> QED
    BY <1>4, <2>1, FilesMove DEF vars, letterRows
<1> QED
  BY <1>1, <1>2, <1>3, <1>4, ScanKeeps, CrashKeeps DEF Next

\* The invariant of Keepsakes holds in every reachable state.
THEOREM KeepsakesInvariant == Spec => []KeepsakesInv
  BY InitInv, NextInv, PTL DEF Spec

\* The variables of Keepsakes keep their types.
THEOREM TypeCorrect == Spec => []TypeOK
<1>1. KeepsakesInv => TypeOK
  BY TypesAreTypes DEF KeepsakesInv
<1> QED
  BY <1>1, KeepsakesInvariant, PTL

\* A commit is whole: a keepsake is ready exactly when its run is committed, its task
\* completed and its picture recorded, whatever workers, lapses and crashes do in between.
THEOREM CommitsAreWhole == Spec => []CommitIsWhole
<1>1. KeepsakesInv => CommitIsWhole
  BY DEF KeepsakesInv, Whole, CommitIsWhole
<1> QED
  BY <1>1, KeepsakesInvariant, PTL

\* In whichever order the notice links the keepsake, the picture is finished and the user
\* opens the letter: an open letter has given what it carries and a closed one nothing.
THEOREM GiftsFollow == Spec => []GiftFollowsOpening
<1>1. KeepsakesInv => GiftFollowsOpening
  BY DEF KeepsakesInv
<1> QED
  BY <1>1, KeepsakesInvariant, PTL

\* The file of a ready keepsake stays on the disk unless two workers wrote it: neither
\* a worker that cleans up after a failure nor the scan for orphans takes it away.
THEOREM PicturesStay == Spec => []PictureKept
<1>1. KeepsakesInv => PictureKept
  BY DEF KeepsakesInv, FilesInv, Whole, Stays, PictureKept
<1> QED
  BY <1>1, KeepsakesInvariant, PTL
=============================================================================
