----------------------------- MODULE Keepsakes -----------------------------
(***************************************************************************)
(* Keepsakes: services/keepsake-service.ts, services/keepsake-asset-       *)
(* store.ts and repositories/keepsake-repository.ts, with the claim of     *)
(* repositories/correspondence-repository.ts.                              *)
(*                                                                         *)
(* A source (an answered letter, or something that happened) gives at most *)
(* one keepsake; a temporal task draws its picture.  The picture is a file *)
(* named by its content: it is written first and committed to the database *)
(* afterwards, and a file that no row refers to is taken away, by the      *)
(* worker that wrote it or by the developer's scan.  The keepsake of a     *)
(* letter is linked to the reply and is the user's once that is opened.    *)
(*                                                                         *)
(* A picture and its thumbnail are one file here.  A keepsake bears the    *)
(* name of its source; a claim token is the worker that holds it.          *)
(***************************************************************************)
EXTENDS Integers

CONSTANTS
  Letters,      \* answered letters of the user
  Others,       \* outcomes, milestones and reflections
  Workers,      \* concurrent calls of processTask
  Pictures,     \* Pictures[k]: what a drawing of k may look like, by content
  None,
  MaxAttempts,  \* attempts of a task (3)
  MaxMishaps    \* bound: scans for orphans and crashes of the process

Sources == Letters \cup Others
Files == UNION {Pictures[k] : k \in Sources}

ASSUME KeepsakesAssumption ==
  /\ Letters \cap Others = {} /\ MaxAttempts \in Nat \ {0}
  /\ MaxMishaps \in Nat
  /\ None \notin Workers /\ None \notin Files

VARIABLES
  reply,     \* database: the reply to a letter
  keep,      \* database: status of the keepsake
  gifted,    \* database: gifted_at_utc is set
  link,      \* database: linked to the reply
  task,      \* database: temporal_tasks
  run,       \* database: keepsake_generation_runs
  image,     \* database: keepsake_assets
  files,     \* disk
  notice,    \* memory: what the commit of a reply left to do
  work,      \* memory: the workers
  scan,      \* memory: the scan for orphans
  contested, \* history: somebody was about to take the picture away when it was committed
  mishaps

vars == <<reply, keep, gifted, link, task, run, image, files, notice, work, scan,
          contested, mishaps>>
letterRows == <<reply, link>>
stories    == <<keep, gifted, run, image, contested>>
memory     == <<notice, work, scan>>

NoTask == [status |-> "none", attempt |-> 0, token |-> None, lapsed |-> FALSE]
Idle == [stage |-> "idle", of |-> None, file |-> None, created |-> FALSE,
         retryable |-> TRUE]
NoScan == [stage |-> "idle", refs |-> {}, todo |-> {}]

Init ==
  /\ reply = [l \in Letters |-> "none"]
  /\ keep = [k \in Sources |-> "none"]
  /\ gifted = [k \in Sources |-> FALSE]
  /\ link = [l \in Letters |-> FALSE]
  /\ task = [k \in Sources |-> NoTask]
  /\ run = [k \in Sources |-> "none"]
  /\ image = [k \in Sources |-> None]
  /\ files = {}
  /\ notice = [l \in Letters |-> "none"]
  /\ work = [w \in Workers |-> Idle]
  /\ scan = NoScan
  /\ contested = [k \in Sources |-> FALSE]
  /\ mishaps = 0

-----------------------------------------------------------------------------
\* The letter.

\* The reply is committed; the notice of it waits in a microtask.
CommitReply(l) ==
  /\ reply[l] = "none"
  /\ reply' = [reply EXCEPT ![l] = "sealed"]
  /\ notice' = [notice EXCEPT ![l] = "enqueue"]
  /\ UNCHANGED <<stories, link, task, files, work, scan, mishaps>>

\* A keepsake with its task and its run, in one transaction, unless it exists.
CreatePending(k) ==
  IF keep[k] = "none"
    THEN /\ keep' = [keep EXCEPT ![k] = "pending"]
         /\ task' = [task EXCEPT ![k].status = "pending"]
         /\ run' = [run EXCEPT ![k] = "pending"]
    ELSE UNCHANGED <<keep, task, run>>

\* A developer asks for the keepsake of a source that is settled.
EnqueueSource(k) ==
  /\ keep[k] = "none"
  /\ k \in Letters => reply[k] # "none"
  /\ CreatePending(k)
  /\ UNCHANGED <<letterRows, gifted, image, contested, files, memory, mishaps>>

\* The notice: the keepsake first (the cooldown of its kind may forbid a new one) ...
EnqueueNotice(l) ==
  /\ notice[l] = "enqueue"
  /\ \/ CreatePending(l) /\ notice' = [notice EXCEPT ![l] = "link"]
     \/ /\ keep[l] = "none" /\ notice' = [notice EXCEPT ![l] = "none"]
        /\ UNCHANGED <<keep, task, run>>
  /\ UNCHANGED <<letterRows, gifted, image, contested, files, work, scan, mishaps>>

\* ... and in a second transaction the link; a reply opened meanwhile delivers it.
LinkToReply(l) ==
  /\ notice[l] = "link"
  /\ link' = [link EXCEPT ![l] = TRUE]
  /\ gifted' = [gifted EXCEPT ![l] = @ \/ reply[l] = "read"]
  /\ notice' = [notice EXCEPT ![l] = "none"]
  /\ UNCHANGED <<reply, keep, task, run, image, contested, files, work, scan, mishaps>>

\* The letter is opened and what it carries is received, in one transaction.
OpenReply(l) ==
  /\ reply[l] = "sealed"
  /\ reply' = [reply EXCEPT ![l] = "read"]
  /\ gifted' = [gifted EXCEPT ![l] = @ \/ link[l]]
  /\ UNCHANGED <<keep, link, task, run, image, contested, files, memory, mishaps>>

\* RECEIVED_KEEPSAKE_SQL.
Received(k) ==
  /\ gifted[k]
  /\ k \in Letters => link[k] /\ reply[k] = "read"

-----------------------------------------------------------------------------
\* The worker.

At(w, stage) == work[w].stage = stage
K(w) == work[w].of
F(w) == work[w].file
Goes(w, stage) == work' = [work EXCEPT ![w].stage = stage]
Ends(w) == work' = [work EXCEPT ![w] = Idle]
\* Mutant of Owns: the claim is not checked again.
OwnsAnyway(w) == TRUE

Owns(w) == task[K(w)].status = "claimed" /\ task[K(w)].token = w

Waiting(k) == task[k].status \in {"pending", "retryable"}
Free(k) == Waiting(k) \/ (task[k].status = "claimed" /\ task[k].lapsed)

Left(k, status) == [NoTask EXCEPT !.status = status, !.attempt = task[k].attempt]

HasAttempts(k) == task[k].attempt < MaxAttempts

\* claimDueTask, of one keepsake's task.
Claim(w, k) ==
  /\ At(w, "idle") /\ Free(k) /\ HasAttempts(k)
  /\ task' = [task EXCEPT ![k] = [status |-> "claimed", attempt |-> @.attempt + 1,
                                  token |-> w, lapsed |-> FALSE]]
  /\ work' = [work EXCEPT ![w] = [Idle EXCEPT !.stage = "mark", !.of = k]]
  /\ UNCHANGED <<letterRows, stories, files, notice, scan, mishaps>>

\* Its attempts are spent: the task is dead, and the call ends with an error.
Exhaust(k) ==
  /\ Free(k) /\ ~HasAttempts(k)
  /\ task' = [task EXCEPT ![k] = Left(k, "dead_letter")]
  /\ UNCHANGED <<letterRows, stories, files, memory, mishaps>>

MarkGenerating(w) ==
  /\ At(w, "mark")
  /\ IF Owns(w)
       THEN /\ run' = IF run[K(w)] \in {"pending", "retryable"}
                        THEN [run EXCEPT ![K(w)] = "generating"] ELSE run
            /\ keep' = IF keep[K(w)] \in {"pending", "failed"}
                         THEN [keep EXCEPT ![K(w)] = "generating"] ELSE keep
            /\ Goes(w, "draw")
       ELSE Ends(w) /\ UNCHANGED <<run, keep>>
  /\ UNCHANGED <<letterRows, gifted, task, image, contested, files, notice, scan, mishaps>>

\* A failure before anything is stored.
Gives(w, retryable) ==
  work' = [work EXCEPT ![w].stage = "record", ![w].retryable = retryable]

\* The provider or the template answers, and #atomicWrite looks for the file; or the
\* provider or the normalisation fails.
Draw(w) ==
  /\ At(w, "draw")
  /\ \/ \E f \in Pictures[K(w)] :
          work' = [work EXCEPT ![w].file = f,
                               ![w].stage = IF f \in files THEN "verify" ELSE "write"]
     \/ \E retryable \in BOOLEAN : Gives(w, retryable)
  /\ UNCHANGED <<letterRows, stories, task, files, notice, scan, mishaps>>

\* The temporary file is renamed over whatever is there by now; or the disk fails.
Write(w) ==
  /\ At(w, "write")
  /\ \/ /\ files' = files \cup {F(w)}
        /\ work' = [work EXCEPT ![w].stage = "verify", ![w].created = TRUE]
     \/ Gives(w, TRUE) /\ UNCHANGED files
  /\ UNCHANGED <<letterRows, stories, task, notice, scan, mishaps>>

\* The file is read back.  When that or the thumbnail fails, persist removes what it wrote
\* without asking the rows.
Verify(w) ==
  /\ At(w, "verify")
  /\ \/ F(w) \in files /\ Goes(w, "commit")
     \/ Goes(w, IF work[w].created THEN "unlink" ELSE "record")
  /\ UNCHANGED <<letterRows, stories, task, files, notice, scan, mishaps>>

\* The claim is checked as of the time it was made, so a lapsed lease is no obstacle.
MayCommit(w) ==
  /\ Owns(w) /\ run[K(w)] = "generating"
  /\ \A k \in Sources : image[k] # F(w)

\* Somebody else is about to take the file of w away, or has done so since w read it back.
Contested(w) ==
  \/ F(w) \notin files \/ F(w) \in scan.todo
  \/ scan.stage = "list" /\ F(w) \notin scan.refs
  \/ \E v \in Workers \ {w} :
       /\ F(v) = F(w)
       /\ At(v, "write") \/ At(v, "unlink") \/ (At(v, "verify") /\ work[v].created)

\* Mutant of ReceivedAtCommit: the picture itself grants the keepsake.
PictureGrants(k) == TRUE

ReceivedAtCommit(k) == k \in Others \/ (link[k] /\ reply[k] = "read")

\* commitGeneration: the asset, the run, the keepsake and the task in one transaction.
Commit(w) ==
  /\ At(w, "commit") /\ keep[K(w)] # "ready" /\ MayCommit(w)
  /\ image' = [image EXCEPT ![K(w)] = F(w)]
  /\ contested' = [contested EXCEPT ![K(w)] = Contested(w)]
  /\ run' = [run EXCEPT ![K(w)] = "committed"]
  /\ keep' = [keep EXCEPT ![K(w)] = "ready"]
  /\ task' = [task EXCEPT ![K(w)] = Left(K(w), "completed")]
  /\ gifted' = [gifted EXCEPT ![K(w)] = @ \/ ReceivedAtCommit(K(w))]
  /\ Ends(w)
  /\ UNCHANGED <<letterRows, files, notice, scan, mishaps>>

\* Somebody else finished: the call returns the keepsake, and what it wrote stays.
Replay(w) ==
  /\ At(w, "commit") /\ keep[K(w)] = "ready"
  /\ Ends(w)
  /\ UNCHANGED <<letterRows, stories, task, files, notice, scan, mishaps>>

\* The fence or the database refuses the commit.
CommitFails(w) ==
  /\ At(w, "commit") /\ keep[K(w)] # "ready"
  /\ Goes(w, "clean")
  /\ UNCHANGED <<letterRows, stories, task, files, notice, scan, mishaps>>

\* Mutant of Referenced: the rows are not asked.
Unasked(f) == FALSE

Referenced(f) == \E k \in Sources : image[k] = f

\* removeIfCreated: the rows are asked first, and the file goes a moment later.
Clean(w) ==
  /\ At(w, "clean")
  /\ Goes(w, IF work[w].created /\ ~Referenced(F(w)) THEN "unlink" ELSE "record")
  /\ UNCHANGED <<letterRows, stories, task, files, notice, scan, mishaps>>

Unlink(w) ==
  /\ At(w, "unlink")
  /\ files' = files \ {F(w)}
  /\ Goes(w, "record")
  /\ UNCHANGED <<letterRows, stories, task, notice, scan, mishaps>>

Retryable(w) == work[w].retryable /\ task[K(w)].attempt < MaxAttempts

\* recordFailure; a claim that was lost records nothing.
Record(w) ==
  /\ At(w, "record")
  /\ IF Owns(w)
       THEN /\ task' = [task EXCEPT ![K(w)] =
                          Left(K(w), IF Retryable(w) THEN "retryable" ELSE "dead_letter")]
            /\ run' = IF run[K(w)] = "generating"
                        THEN [run EXCEPT ![K(w)] = IF Retryable(w) THEN "retryable" ELSE "failed"]
                        ELSE run
            /\ keep' = IF keep[K(w)] = "generating"
                         THEN [keep EXCEPT ![K(w)] = IF Retryable(w) THEN "pending" ELSE "failed"]
                         ELSE keep
       ELSE UNCHANGED <<task, run, keep>>
  /\ Ends(w)
  /\ UNCHANGED <<letterRows, gifted, image, contested, files, notice, scan, mishaps>>

-----------------------------------------------------------------------------
\* The developer's scan for orphans: the rows are read once, then the directory.

Scan ==
  /\ scan.stage = "idle" /\ mishaps < MaxMishaps
  /\ scan' = [stage |-> "list", refs |-> {f \in Files : Referenced(f)}, todo |-> {}]
  /\ mishaps' = mishaps + 1
  /\ UNCHANGED <<letterRows, stories, task, files, notice, work>>

ListFiles ==
  /\ scan.stage = "list"
  /\ scan' = [scan EXCEPT !.stage = "remove", !.todo = files \ scan.refs]
  /\ UNCHANGED <<letterRows, stories, task, files, notice, work, mishaps>>

RemoveOrphan ==
  /\ scan.stage = "remove"
  /\ \/ \E f \in scan.todo : /\ files' = files \ {f}
                             /\ scan' = [scan EXCEPT !.todo = @ \ {f}]
     \/ scan.todo = {} /\ scan' = NoScan /\ UNCHANGED files
  /\ UNCHANGED <<letterRows, stories, task, notice, work, mishaps>>

-----------------------------------------------------------------------------
\* A lease runs out.
Lapse(k) ==
  /\ task[k].status = "claimed" /\ ~task[k].lapsed
  /\ task' = [task EXCEPT ![k].lapsed = TRUE]
  /\ UNCHANGED <<letterRows, stories, files, memory, mishaps>>

\* The process dies and starts again: the disk and the database remain.
Crash ==
  /\ mishaps < MaxMishaps
  /\ mishaps' = mishaps + 1
  /\ notice' = [l \in Letters |-> "none"]
  /\ work' = [w \in Workers |-> Idle]
  /\ scan' = NoScan
  /\ UNCHANGED <<letterRows, stories, task, files>>

Step(w) ==
  \/ MarkGenerating(w) \/ Draw(w) \/ Write(w) \/ Verify(w)
  \/ Commit(w) \/ Replay(w) \/ CommitFails(w) \/ Clean(w) \/ Unlink(w) \/ Record(w)

Next ==
  \/ \E l \in Letters : CommitReply(l) \/ EnqueueNotice(l) \/ LinkToReply(l) \/ OpenReply(l)
  \/ \E k \in Sources : EnqueueSource(k) \/ Exhaust(k) \/ Lapse(k)
  \/ \E w \in Workers : Step(w) \/ \E k \in Sources : Claim(w, k)
  \/ Scan \/ ListFiles \/ RemoveOrphan
  \/ Crash

Spec == Init /\ [][Next]_vars

-----------------------------------------------------------------------------
TypeOK ==
  /\ reply \in [Letters -> {"none", "sealed", "read"}]
  /\ keep \in [Sources -> {"none", "pending", "generating", "ready", "failed"}]
  /\ gifted \in [Sources -> BOOLEAN] /\ link \in [Letters -> BOOLEAN]
  /\ task \in [Sources ->
       [status : {"none", "pending", "claimed", "retryable", "completed", "dead_letter"},
        attempt : 0..MaxAttempts, token : Workers \cup {None}, lapsed : BOOLEAN]]
  /\ run \in [Sources -> {"none", "pending", "generating", "retryable", "failed", "committed"}]
  /\ image \in [Sources -> Files \cup {None}]
  /\ files \subseteq Files
  /\ notice \in [Letters -> {"none", "enqueue", "link"}]
  /\ work \in [Workers ->
       [stage : {"idle", "mark", "draw", "write", "verify", "commit", "clean", "unlink", "record"},
        of : Sources \cup {None}, file : Files \cup {None}, created : BOOLEAN,
        retryable : BOOLEAN]]
  /\ contested \in [Sources -> BOOLEAN]
  /\ scan \in [stage : {"idle", "list", "remove"}, refs : SUBSET Files, todo : SUBSET Files]

\* Whatever workers whose lease ran out, retries and crashes do, the four tables agree on
\* a finished keepsake: it has its picture, its run is committed, and its task is done.
CommitIsWhole ==
  \A k \in Sources :
    /\ keep[k] = "ready" <=> image[k] # None
    /\ keep[k] = "ready" <=> run[k] = "committed"
    /\ keep[k] = "ready" <=> task[k].status = "completed"

\* In whichever order the notice links the keepsake, the picture is finished and the user
\* opens the letter: an open letter has given what it carries, a closed one has given nothing,
\* and a keepsake of any other origin is the user's exactly when its picture is there.
GiftFollowsOpening ==
  /\ \A l \in Letters : link[l] /\ reply[l] = "read" => Received(l)
  /\ \A k \in Sources : gifted[k] => Received(k)
  /\ \A k \in Others : Received(k) <=> keep[k] = "ready"

\* A keepsake that is ready can be looked at: its picture stays on the disk, through late
\* workers that failed with the same picture, scans and crashes, unless one of these was
\* already taking the file away while it was being committed.
PictureKept ==
  \A k \in Sources : keep[k] = "ready" /\ ~contested[k] => image[k] \in files
=============================================================================
