----------------------------- MODULE JobPipeline -----------------------------
(***************************************************************************)
(* The life of a grading job: the API's submit_job handler, the broker,    *)
(* the worker's run_job, and the handlers that dismiss jobs, all of them   *)
(* interleaved at every await on Redis, MongoDB or the object store.       *)
(*                                                                         *)
(* JobStore.update is a read of the whole hash followed, one await later,  *)
(* by a write of the whole hash.  A process that is between the two holds  *)
(* the hash it read in its field "snap" (None otherwise).                  *)
(***************************************************************************)
EXTENDS Stores, FiniteSets

CONSTANTS
  Requests,    \* profile names clients ask for
  Qualities,   \* values of max_quality clients ask for
  Workers,     \* worker processes, one actor thread each
  Dismissers,  \* concurrent requests that dismiss jobs
  MaxDisplayNameAttempts, \* _MAX_DISPLAY_NAME_ATTEMPTS
  MaxProgress, \* bound: progress updates per encode
  MaxCrashes,  \* bound: worker processes killed
  MaxAborts,   \* bound: runs ended by an exception nobody catches
  MaxApiDeaths,\* bound: submissions that end half way
  MaxExpiries  \* bound: job hashes whose TTL runs out

ASSUME PipelineAssumption ==
  /\ Qualities \subseteq BOOLEAN
  /\ MaxDisplayNameAttempts \in Nat \ {0}
  /\ {MaxProgress, MaxCrashes, MaxAborts, MaxApiDeaths, MaxExpiries} \subseteq Nat

VARIABLES
  jobs,     \* Redis: the job hashes
  videos,   \* MongoDB: the video documents
  objects,  \* the object store's result, thumbnail and clip keys
  uploads,  \* number of uuids drawn so far for each job's result key
  queue,    \* the broker's messages, as the job ids they carry
  submit,   \* POST /jobs handlers; the job one creates takes its id
  worker,   \* worker processes and the run_job each executes
  dismiss,  \* POST /jobs/{id}/dismiss and /jobs/dismiss-all handlers
  budget    \* faults that may still happen

vars == <<jobs, videos, objects, uploads, queue, submit, worker, dismiss, budget>>

SubmitPc == {"new", "create_job", "create_video", "duplicate", "send",
             "accepted", "rejected", "died"}
WorkerPc == {"idle", "resolve", "resolved", "check", "start", "download",
             "processing", "encode", "progress", "uploading", "result",
             "thumbnail", "clips", "name", "done", "fail", "fail_video", "ack"}

\* Where run_job is inside a JobStore.update.
UpdatePc == {"resolved", "start", "processing", "progress", "uploading",
             "done", "fail"}

IdleWorker == [ pc |-> "idle", job |-> None, profile |-> None, snap |-> None,
                attempt |-> 0, result_key |-> None, ticks |-> 0 ]
IdleDismisser == [ pc |-> "idle", unread |-> {}, todo |-> {}, job |-> None,
                   snap |-> None ]

\* The states of a submission, of a worker and of a dismissing request.
Submission == [ pc         : SubmitPc,
                file       : Files \cup {None},
                profile    : Implemented \cup {"auto", None},
                max_quality: BOOLEAN,
                snap       : Job \cup {None} ]

WorkerState == [ pc        : WorkerPc,
                 job       : Jobs \cup {None},
                 profile   : Implemented \cup {None},
                 snap      : Job \cup {None},
                 attempt   : Nat,
                 result_key: ResultKey \cup {None},
                 ticks     : Nat ]

Dismissal == [ pc    : {"idle", "scan", "update"},
               unread: SUBSET Jobs,
               todo  : SUBSET Jobs,
               job   : Jobs \cup {None},
               snap  : Job \cup {None} ]

Budget == [ crashes: Nat, aborts: Nat, api_deaths: Nat, expiries: Nat ]

\* Every store and every process holds values of its type: in particular what
\* is written back to Redis and MongoDB is a whole record.
TypeOK ==
  /\ jobs \in [Jobs -> Job \cup {None}]
  /\ videos \in [Jobs -> Video \cup {None}]
  /\ objects \subseteq ObjectKey
  /\ uploads \in [Jobs -> Nat]
  /\ queue \subseteq Jobs
  /\ submit \in [Jobs -> Submission]
  /\ worker \in [Workers -> WorkerState]
  /\ dismiss \in [Dismissers -> Dismissal]
  /\ budget \in Budget

Init ==
  /\ jobs = [j \in Jobs |-> None]
  /\ videos = [j \in Jobs |-> None]
  /\ objects = {}
  /\ uploads = [j \in Jobs |-> 0]
  /\ queue = {}
  /\ submit = [j \in Jobs |-> [ pc |-> "new", file |-> None, profile |-> None,
                                max_quality |-> FALSE, snap |-> None ]]
  /\ worker = [w \in Workers |-> IdleWorker]
  /\ dismiss = [d \in Dismissers |-> IdleDismisser]
  /\ budget = [ crashes |-> MaxCrashes, aborts |-> MaxAborts,
                api_deaths |-> MaxApiDeaths, expiries |-> MaxExpiries ]

-----------------------------------------------------------------------------
(* POST /jobs.                                                             *)

\* _validate_explicit_profile; "auto" is not validated.
Acceptable(profile, quality) ==
  \/ profile = "auto"
  \/ /\ profile \in Implemented
     /\ quality => profile \in GpuProfiles

\* The request arrives, its source object is looked up, the profile validated,
\* the fingerprint computed, and find_by_fingerprint asked for a duplicate.
Submit(j) ==
  /\ submit[j].pc = "new"
  /\ \E file \in Files, profile \in Requests, quality \in Qualities :
       \/ /\ Acceptable(profile, quality)
          /\ FindByFingerprint(videos, file, profile, quality) = {}
          /\ submit' = [submit EXCEPT ![j] =
               [ pc |-> "create_job", file |-> file, profile |-> profile,
                 max_quality |-> quality, snap |-> None ]]
       \/ /\ \/ ~Acceptable(profile, quality)
             \/ FindByFingerprint(videos, file, profile, quality) # {}
          /\ submit' = [submit EXCEPT ![j].pc = "rejected"]
  /\ UNCHANGED <<jobs, videos, objects, uploads, queue, worker, dismiss, budget>>

\* Seeded fault: the message is sent before the video is inserted.
CreateJobAndSend(j) ==
  /\ submit[j].pc = "create_job"
  /\ jobs' = [jobs EXCEPT ![j] =
       NewJob(submit[j].file, submit[j].profile, submit[j].max_quality)]
  /\ queue' = queue \cup {j}
  /\ submit' = [submit EXCEPT ![j].pc = "create_video"]
  /\ UNCHANGED <<videos, objects, uploads, worker, dismiss, budget>>

CreateJob(j) ==
  /\ submit[j].pc = "create_job"
  /\ jobs' = [jobs EXCEPT ![j] =
       NewJob(submit[j].file, submit[j].profile, submit[j].max_quality)]
  /\ submit' = [submit EXCEPT ![j].pc = "create_video"]
  /\ UNCHANGED <<videos, objects, uploads, queue, worker, dismiss, budget>>

\* video_store.create: the index closes the race the pre-check leaves open.
CreateVideo(j) ==
  LET v == NewVideo(submit[j].file, submit[j].profile, submit[j].max_quality) IN
  /\ submit[j].pc = "create_video"
  /\ \/ /\ ~DuplicateKey(videos, j, v)
        /\ videos' = [videos EXCEPT ![j] = v]
        /\ submit' = [submit EXCEPT ![j].pc = "send"]
     \/ /\ DuplicateKey(videos, j, v)
        /\ submit' = [submit EXCEPT ![j].pc = "duplicate"]
        /\ UNCHANGED videos
  /\ UNCHANGED <<jobs, objects, uploads, queue, worker, dismiss, budget>>

\* The handler of that DuplicateKeyError fails the job it has just created.
ReadDuplicate(j) ==
  /\ submit[j].pc = "duplicate"
  /\ submit[j].snap = None
  /\ submit' = IF jobs[j] = None
               THEN [submit EXCEPT ![j].pc = "died"]   \* JobNotFoundError
               ELSE [submit EXCEPT ![j].snap = jobs[j]]
  /\ UNCHANGED <<jobs, videos, objects, uploads, queue, worker, dismiss, budget>>

\* Seeded fault: the failed submission is sent to the workers all the same.
FailDuplicateAndSend(j) ==
  /\ submit[j].pc = "duplicate"
  /\ submit[j].snap # None
  /\ jobs' = [jobs EXCEPT ![j] =
       [submit[j].snap EXCEPT !.status = "failed", !.error = TRUE]]
  /\ queue' = queue \cup {j}
  /\ submit' = [submit EXCEPT ![j] = [@ EXCEPT !.pc = "rejected", !.snap = None]]
  /\ UNCHANGED <<videos, objects, uploads, worker, dismiss, budget>>

FailDuplicate(j) ==
  /\ submit[j].pc = "duplicate"
  /\ submit[j].snap # None
  /\ jobs' = [jobs EXCEPT ![j] =
       [submit[j].snap EXCEPT !.status = "failed", !.error = TRUE]]
  /\ submit' = [submit EXCEPT ![j] = [@ EXCEPT !.pc = "rejected", !.snap = None]]
  /\ UNCHANGED <<videos, objects, uploads, queue, worker, dismiss, budget>>

\* grade_video.send
Send(j) ==
  /\ submit[j].pc = "send"
  /\ queue' = queue \cup {j}
  /\ submit' = [submit EXCEPT ![j].pc = "accepted"]
  /\ UNCHANGED <<jobs, videos, objects, uploads, worker, dismiss, budget>>

\* The API process is killed, or a store call raises, half way through.
SubmitDies(j) ==
  /\ submit[j].pc \in {"create_job", "create_video", "duplicate", "send"}
  /\ budget.api_deaths > 0
  /\ budget' = [budget EXCEPT !.api_deaths = @ - 1]
  /\ submit' = [submit EXCEPT ![j] = [@ EXCEPT !.pc = "died", !.snap = None]]
  /\ UNCHANGED <<jobs, videos, objects, uploads, queue, worker, dismiss>>

-----------------------------------------------------------------------------
(* The worker: run_job, one action per await on a store.                   *)

Goto(w, pc) == worker' = [worker EXCEPT ![w].pc = pc]

\* An idle worker is delivered a message and reads the job; a job that has
\* expired before pickup is left alone.
Pickup(w, j) ==
  /\ worker[w].pc = "idle"
  /\ j \in queue
  /\ queue' = queue \ {j}
  /\ worker' = [worker EXCEPT ![w] = [IdleWorker EXCEPT
       !.pc = IF jobs[j] = None THEN "ack" ELSE "resolve", !.job = j]]
  /\ UNCHANGED <<jobs, videos, objects, uploads, submit, dismiss, budget>>

\* _resolve_profile.  What is available is a fact of the host, so "auto" may
\* find any implemented profile, or none.  The requested profile and max_quality
\* of a job are never rewritten: they are read here from the submission.
Resolve(w) ==
  LET requested == submit[worker[w].job].profile IN
  /\ worker[w].pc = "resolve"
  /\ \/ \E p \in IF requested = "auto" THEN Implemented ELSE {requested} :
          worker' = [worker EXCEPT ![w] =
            [@ EXCEPT !.pc = "resolved", !.profile = p]]
     \/ requested = "auto" /\ Goto(w, "fail")
  /\ UNCHANGED <<jobs, videos, objects, uploads, queue, submit, dismiss, budget>>

\* Seeded fault: _reject_if_unrunnable returns True without calling _fail.
CheckRunnableSilently(w) ==
  LET quality == submit[worker[w].job].max_quality IN
  /\ worker[w].pc = "check"
  /\ \/ /\ quality => worker[w].profile \in GpuProfiles
        /\ Goto(w, "start")
     \/ Goto(w, "ack")
  /\ UNCHANGED <<jobs, videos, objects, uploads, queue, submit, dismiss, budget>>

\* _reject_if_unrunnable
CheckRunnable(w) ==
  LET quality == submit[worker[w].job].max_quality IN
  /\ worker[w].pc = "check"
  /\ \/ /\ quality => worker[w].profile \in GpuProfiles
        /\ Goto(w, "start")
     \/ Goto(w, "fail")       \* unavailable, or unfit for max_quality
  /\ UNCHANGED <<jobs, videos, objects, uploads, queue, submit, dismiss, budget>>

\* JobStore.update, first half.  JobNotFoundError ends run_job.
ReadJob(w) ==
  /\ worker[w].pc \in UpdatePc
  /\ worker[w].snap = None
  /\ worker' = IF jobs[worker[w].job] = None
               THEN [worker EXCEPT ![w].pc = "ack"]
               ELSE [worker EXCEPT ![w].snap = jobs[worker[w].job]]
  /\ UNCHANGED <<jobs, videos, objects, uploads, queue, submit, dismiss, budget>>

\* JobStore.update, second half, called at pc "at"; run_job goes on at "next".
WriteJob(w, at, updated, next) ==
  /\ worker[w].pc = at
  /\ worker[w].snap # None
  /\ jobs' = [jobs EXCEPT ![worker[w].job] = updated]
  /\ worker' = [worker EXCEPT ![w] = [@ EXCEPT !.pc = next, !.snap = None]]
  /\ UNCHANGED <<videos, objects, uploads, queue, submit, dismiss, budget>>

\* Seeded fault: the requested name is recorded instead of the resolved one.
RecordRequested(w) ==
  WriteJob(w, "resolved", [worker[w].snap EXCEPT
    !.resolved_profile = submit[worker[w].job].profile], "check")

RecordResolved(w) ==
  WriteJob(w, "resolved",
    [worker[w].snap EXCEPT !.resolved_profile = worker[w].profile], "check")

StartRunning(w) ==
  WriteJob(w, "start",
    [worker[w].snap EXCEPT !.status = "running", !.stage = "downloading"],
    "download")

StartProcessing(w) ==
  WriteJob(w, "processing",
    [worker[w].snap EXCEPT !.stage = "processing"], "encode")

RecordProgress(w) == WriteJob(w, "progress", worker[w].snap, "encode")

StartUploading(w) ==
  WriteJob(w, "uploading",
    [worker[w].snap EXCEPT !.stage = "uploading_result"], "result")

CompleteJob(w) ==
  WriteJob(w, "done",
    [worker[w].snap EXCEPT !.status = "done", !.stage = None,
                           !.result_key = worker[w].result_key], "ack")

\* Seeded fault: _fail forgets the video.
RecordFailureOnly(w) ==
  WriteJob(w, "fail",
    [worker[w].snap EXCEPT !.status = "failed", !.error = TRUE], "ack")

\* _fail updates the job first ...
RecordFailure(w) ==
  WriteJob(w, "fail",
    [worker[w].snap EXCEPT !.status = "failed", !.error = TRUE], "fail_video")

\* Seeded fault: a missing return after _fail, and the run goes on.
FailVideoAndGoOn(w) ==
  LET j == worker[w].job IN
  /\ worker[w].pc = "fail_video"
  /\ videos' = IF videos[j] = None THEN videos
               ELSE [videos EXCEPT ![j].status = "failed"]
  /\ Goto(w, "processing")
  /\ UNCHANGED <<jobs, objects, uploads, queue, submit, dismiss, budget>>

\* Seeded fault: the update of the video is an upsert.
FailVideoUpsert(w) ==
  LET j == worker[w].job IN
  /\ worker[w].pc = "fail_video"
  /\ videos' = [videos EXCEPT ![j] =
       [ (IF videos[j] # None THEN videos[j]
          ELSE NewVideo(submit[j].file, submit[j].profile, submit[j].max_quality))
         EXCEPT !.status = "failed" ]]
  /\ Goto(w, "ack")
  /\ UNCHANGED <<jobs, objects, uploads, queue, submit, dismiss, budget>>

\* ... and the video second; VideoNotFoundError escapes run_job.
FailVideo(w) ==
  LET j == worker[w].job IN
  /\ worker[w].pc = "fail_video"
  /\ videos' = IF videos[j] = None THEN videos
               ELSE [videos EXCEPT ![j].status = "failed"]
  /\ Goto(w, "ack")
  /\ UNCHANGED <<jobs, objects, uploads, queue, submit, dismiss, budget>>

\* Download and probe; either may fail, and so does a zero duration.
Download(w) ==
  /\ worker[w].pc = "download"
  /\ \E next \in {"processing", "fail"} : Goto(w, next)
  /\ UNCHANGED <<jobs, videos, objects, uploads, queue, submit, dismiss, budget>>

\* ffmpeg reports progress, or exits.
Encode(w) ==
  /\ worker[w].pc = "encode"
  /\ \/ /\ worker[w].ticks < MaxProgress
        /\ worker' = [worker EXCEPT ![w] =
             [@ EXCEPT !.pc = "progress", !.ticks = worker[w].ticks + 1]]
     \/ \E next \in {"uploading", "fail"} : Goto(w, next)
  /\ UNCHANGED <<jobs, videos, objects, uploads, queue, submit, dismiss, budget>>

\* _upload_result_with_display_name, object by object.
UploadResult(w) ==
  LET j == worker[w].job
      key == <<j, "result", uploads[j] + 1>> IN
  /\ worker[w].pc = "result"
  /\ uploads' = [uploads EXCEPT ![j] = @ + 1]
  /\ objects' = objects \cup {key}
  /\ worker' = [worker EXCEPT ![w] =
       [@ EXCEPT !.pc = "thumbnail", !.result_key = key]]
  /\ UNCHANGED <<jobs, videos, queue, submit, dismiss, budget>>

UploadThumbnail(w) ==
  /\ worker[w].pc = "thumbnail"
  /\ objects' = objects \cup {ThumbnailKey(worker[w].job)}
  /\ Goto(w, "clips")
  /\ UNCHANGED <<jobs, videos, uploads, queue, submit, dismiss, budget>>

UploadClips(w) ==
  /\ worker[w].pc = "clips"
  /\ objects' = objects \cup {ClipsKey(worker[w].job)}
  /\ worker' = [worker EXCEPT ![w] = [@ EXCEPT !.pc = "name", !.attempt = 0]]
  /\ UNCHANGED <<jobs, videos, uploads, queue, submit, dismiss, budget>>

\* Seeded fault: the exception is swallowed and the result published.
UploadFailsSilently(w) ==
  /\ worker[w].pc \in {"result", "thumbnail", "clips"}
  /\ Goto(w, "name")
  /\ UNCHANGED <<jobs, videos, objects, uploads, queue, submit, dismiss, budget>>

\* Extracting or uploading one of them raises: caught, the job fails.
UploadFails(w) ==
  /\ worker[w].pc \in {"result", "thumbnail", "clips"}
  /\ Goto(w, "fail")
  /\ UNCHANGED <<jobs, videos, objects, uploads, queue, submit, dismiss, budget>>

\* Seeded fault: after the last name the loop ends without raising.
NextNameThenDone(w) ==
  worker' = [worker EXCEPT ![w] = [@ EXCEPT
    !.attempt = worker[w].attempt + 1,
    !.pc = IF worker[w].attempt + 1 < MaxDisplayNameAttempts
           THEN "name" ELSE "done"]]

\* Seeded fault: every iteration tries the same name.
SameName(w) == UNCHANGED worker

\* The next attempt; after the last one a RuntimeError, caught by _grade.
NextName(w) ==
  worker' = [worker EXCEPT ![w] = [@ EXCEPT
    !.attempt = worker[w].attempt + 1,
    !.pc = IF worker[w].attempt + 1 < MaxDisplayNameAttempts
           THEN "name" ELSE "fail"]]

Published(w) ==
  LET j == worker[w].job IN
  [videos[j] EXCEPT
    !.status = "done", !.profile = worker[w].profile,
    !.display_name = MakeDisplayName(j, submit[j].file, worker[w].profile,
                                     worker[w].attempt),
    !.result_key = worker[w].result_key, !.previews = TRUE]

\* Seeded fault: _grade does not catch VideoNotFoundError.
PublishVideoUncaught(w) ==
  LET j == worker[w].job IN
  /\ worker[w].pc = "name"
  /\ \/ /\ videos[j] = None
        /\ Goto(w, "ack")
        /\ UNCHANGED videos
     \/ /\ videos[j] # None
        /\ ~DuplicateKey(videos, j, Published(w))
        /\ videos' = [videos EXCEPT ![j] = Published(w)]
        /\ Goto(w, "done")
     \/ /\ videos[j] # None
        /\ DuplicateKey(videos, j, Published(w))
        /\ NextName(w)
        /\ UNCHANGED videos
  /\ UNCHANGED <<jobs, objects, uploads, queue, submit, dismiss, budget>>

\* One iteration of the display-name loop.  A DuplicateKeyError is taken for a
\* name collision whichever of the two indexes raised it.
PublishVideo(w) ==
  LET j == worker[w].job IN
  /\ worker[w].pc = "name"
  /\ \/ /\ videos[j] = None            \* VideoNotFoundError
        /\ Goto(w, "fail")
        /\ UNCHANGED videos
     \/ /\ videos[j] # None
        /\ ~DuplicateKey(videos, j, Published(w))
        /\ videos' = [videos EXCEPT ![j] = Published(w)]
        /\ Goto(w, "done")
     \/ /\ videos[j] # None
        /\ DuplicateKey(videos, j, Published(w))
        /\ NextName(w)
        /\ UNCHANGED videos
  /\ UNCHANGED <<jobs, objects, uploads, queue, submit, dismiss, budget>>

\* The actor returns and the broker forgets the message.
Ack(w) ==
  /\ worker[w].pc = "ack"
  /\ worker' = [worker EXCEPT ![w] = IdleWorker]
  /\ UNCHANGED <<jobs, videos, objects, uploads, queue, submit, dismiss, budget>>

\* An exception nobody catches ends the run: dramatiq's time limit, build_command
\* or create_subprocess_exec raising, a store that fails.  With max_retries=0
\* the broker drops the message.
Abort(w) ==
  /\ worker[w].pc \notin {"idle", "ack"}
  /\ budget.aborts > 0
  /\ budget' = [budget EXCEPT !.aborts = @ - 1]
  /\ worker' = [worker EXCEPT ![w] = [@ EXCEPT !.pc = "ack", !.snap = None]]
  /\ UNCHANGED <<jobs, videos, objects, uploads, queue, submit, dismiss>>

\* The worker process dies; the broker delivers its unacknowledged message
\* again, and the container restarts the worker.
Crash(w) ==
  /\ worker[w].pc # "idle"
  /\ budget.crashes > 0
  /\ budget' = [budget EXCEPT !.crashes = @ - 1]
  /\ queue' = queue \cup {worker[w].job}
  /\ worker' = [worker EXCEPT ![w] = IdleWorker]
  /\ UNCHANGED <<jobs, videos, objects, uploads, submit, dismiss>>

-----------------------------------------------------------------------------
(* Dismissing jobs, and the TTL.                                           *)

\* Seeded fault: the status is not checked.
DismissAny(d, j) ==
  /\ dismiss[d].pc = "idle"
  /\ jobs[j] # None
  /\ dismiss' = [dismiss EXCEPT ![d] = [@ EXCEPT !.pc = "update", !.todo = {j}]]
  /\ UNCHANGED <<jobs, videos, objects, uploads, queue, submit, worker, budget>>

\* JobStore.dismiss up to its call of update; anything else is answered with an
\* error and changes nothing.
DismissOne(d, j) ==
  /\ dismiss[d].pc = "idle"
  /\ jobs[j] # None
  /\ jobs[j].status \in Dismissable
  /\ dismiss' = [dismiss EXCEPT ![d] = [@ EXCEPT !.pc = "update", !.todo = {j}]]
  /\ UNCHANGED <<jobs, videos, objects, uploads, queue, submit, worker, budget>>

\* JobStore.dismiss_all reads every hash, one await each, ...
DismissAll(d) ==
  /\ dismiss[d].pc = "idle"
  /\ dismiss' = [dismiss EXCEPT ![d] = [@ EXCEPT !.pc = "scan", !.unread = Jobs]]
  /\ UNCHANGED <<jobs, videos, objects, uploads, queue, submit, worker, budget>>

Eligible(j) ==
  /\ jobs[j] # None
  /\ jobs[j].status \in Dismissable
  /\ ~jobs[j].dismissed

ScanJob(d, j) ==
  LET unread == dismiss[d].unread \ {j}
      todo == dismiss[d].todo \cup {k \in {j} : Eligible(k)} IN
  /\ dismiss[d].pc = "scan"
  /\ j \in dismiss[d].unread
  /\ dismiss' = [dismiss EXCEPT ![d] = [@ EXCEPT
       !.unread = unread, !.todo = todo,
       !.pc = IF unread # {} THEN "scan"
              ELSE IF todo # {} THEN "update" ELSE "idle"]]
  /\ UNCHANGED <<jobs, videos, objects, uploads, queue, submit, worker, budget>>

\* ... then updates those that were eligible (newest first in the code, in any
\* order here).  JobNotFoundError ends the request and leaves the rest as is.
ReadDismissed(d, j) ==
  /\ dismiss[d].pc = "update"
  /\ dismiss[d].snap = None
  /\ j \in dismiss[d].todo
  /\ dismiss' = IF jobs[j] = None
                THEN [dismiss EXCEPT ![d] = IdleDismisser]
                ELSE [dismiss EXCEPT ![d] = [@ EXCEPT !.job = j, !.snap = jobs[j]]]
  /\ UNCHANGED <<jobs, videos, objects, uploads, queue, submit, worker, budget>>

WriteDismissed(d) ==
  LET left == dismiss[d].todo \ {dismiss[d].job} IN
  /\ dismiss[d].pc = "update"
  /\ dismiss[d].snap # None
  /\ jobs' = [jobs EXCEPT ![dismiss[d].job] =
       [dismiss[d].snap EXCEPT !.dismissed = TRUE]]
  /\ dismiss' = [dismiss EXCEPT ![d] =
       [IdleDismisser EXCEPT !.todo = left,
                             !.pc = IF left = {} THEN "idle" ELSE "update"]]
  /\ UNCHANGED <<videos, objects, uploads, queue, submit, worker, budget>>

\* Redis drops a hash whose TTL ran out.
Expire(j) ==
  /\ jobs[j] # None
  /\ budget.expiries > 0
  /\ budget' = [budget EXCEPT !.expiries = @ - 1]
  /\ jobs' = [jobs EXCEPT ![j] = None]
  /\ UNCHANGED <<videos, objects, uploads, queue, submit, worker, dismiss>>

-----------------------------------------------------------------------------

SubmitStep(j) ==
  \/ Submit(j) \/ CreateJob(j) \/ CreateVideo(j)
  \/ ReadDuplicate(j) \/ FailDuplicate(j) \/ Send(j)

WriteStep(w) ==
  \/ RecordResolved(w) \/ StartRunning(w) \/ StartProcessing(w)
  \/ RecordProgress(w) \/ StartUploading(w) \/ CompleteJob(w)
  \/ RecordFailure(w)

WorkerStep(w) ==
  \/ \E j \in Jobs : Pickup(w, j)
  \/ Resolve(w) \/ CheckRunnable(w) \/ ReadJob(w) \/ WriteStep(w)
  \/ Download(w) \/ Encode(w)
  \/ UploadResult(w) \/ UploadThumbnail(w) \/ UploadClips(w) \/ UploadFails(w)
  \/ PublishVideo(w) \/ FailVideo(w) \/ Ack(w)

DismissStep(d) ==
  \/ DismissAll(d) \/ WriteDismissed(d)
  \/ \E j \in Jobs : DismissOne(d, j) \/ ScanJob(d, j) \/ ReadDismissed(d, j)

Next ==
  \/ \E j \in Jobs : SubmitStep(j) \/ SubmitDies(j) \/ Expire(j)
  \/ \E w \in Workers : WorkerStep(w) \/ Abort(w) \/ Crash(w)
  \/ \E d \in Dismissers : DismissStep(d)

Spec == Init /\ [][Next]_vars

\* A request handler that has begun goes on, and so does a live worker: ffmpeg
\* terminates and the stores answer.  Nobody has to submit or dismiss anything.
Fairness ==
  /\ \A j \in Jobs : WF_vars(submit[j].pc # "new" /\ SubmitStep(j))
  /\ \A w \in Workers : WF_vars(WorkerStep(w))

LiveSpec == Spec /\ Fairness

-----------------------------------------------------------------------------
(* Properties.                                                             *)

Running(j) == \E w \in Workers : worker[w].job = j
Delivered(j) == j \in queue \/ Running(j)
IsDone(v) == v # None /\ v.status = "done"

\* A job's message is in one place only: never in the queue and with a worker,
\* never with two workers, and never before submit_job has sent it.  This is
\* what stands in for a lock on the job: JobStore.update takes none.
SingleDelivery ==
  \A j \in Jobs :
    /\ Delivered(j) => submit[j].pc = "accepted"
    /\ Running(j) => j \notin queue
    /\ \A w, x \in Workers : worker[w].job = j /\ worker[x].job = j => w = x

\* The hashes of j that somebody has read and is about to write back.
HeldSnaps(j) ==
  {worker[w].snap : w \in {x \in Workers : worker[x].job = j}}
    \cup {submit[j].snap}
    \cup {dismiss[d].snap : d \in {x \in Dismissers : dismiss[x].job = j}}

\* What JobLifecycle keeps of a job: one whose hash has expired lives on in
\* the hands of whoever is about to write it back.
StatusOf(j) ==
  IF jobs[j] # None THEN jobs[j].status
  ELSE IF submit[j].pc \in {"new", "create_job"} THEN "none"
  ELSE IF HeldSnaps(j) \subseteq {None} THEN "gone"
  ELSE (CHOOSE snap \in HeldSnaps(j) : snap # None).status

AbstractJob(j) ==
  [ status    |-> StatusOf(j),
    dismissed |-> jobs[j] # None /\ jobs[j].dismissed,
    stored    |-> jobs[j] # None ]

Lifecycle ==
  INSTANCE JobLifecycle WITH job <- [j \in Jobs |-> AbstractJob(j)]

\* All that readers of the job store may come to see of a job is a job that is
\* queued, run, ended and dismissed in this order, missing at times while it
\* is written, and gone in the end: the abstraction the dashboard relies on.
JobsAreLifecycles == Lifecycle!Spec

UpToDismissal(job) == [job EXCEPT !.dismissed = TRUE]

\* Whoever is about to write a job hash back still holds what is stored there:
\* the read-modify-write of JobStore.update loses no other writer's update,
\* though it is not atomic.  (A hash that expired in between is written anew.)
NoLostUpdate ==
  /\ \A w \in Workers : worker[w].snap # None =>
       jobs[worker[w].job] \in {None, worker[w].snap}
  /\ \A j \in Jobs : submit[j].snap # None => jobs[j] \in {None, submit[j].snap}
  /\ \A d \in Dismissers : dismiss[d].snap # None =>
       \/ jobs[dismiss[d].job] = None
       \/ UpToDismissal(jobs[dismiss[d].job]) = UpToDismissal(dismiss[d].snap)

\* A job marked dismissed is done or failed: no interleaving of the dismiss
\* handlers' two reads and one write with the worker hides a job in progress.
DismissedIsTerminal ==
  \A j \in Jobs : jobs[j] # None /\ jobs[j].dismissed =>
    jobs[j].status \in Dismissable

\* A done job's video is in the library, under the result key the job links to.
DoneIsPublished ==
  \A j \in Jobs : jobs[j] # None /\ jobs[j].status = "done" =>
    IsDone(videos[j]) /\ videos[j].result_key = jobs[j].result_key

\* Once a failed job's run is over, its video no longer holds the fingerprint:
\* the file may be submitted again (_fail's second write has happened).
FailedFreesFile ==
  \A j \in Jobs :
    /\ jobs[j] # None /\ jobs[j].status = "failed"
    /\ ~Delivered(j)
    => videos[j] = None \/ videos[j].status = "failed"

\* Everything a video of the library links to has been uploaded, also when the
\* worker that publishes it is the second to run the job.
PublishedIsStored ==
  \A j \in Jobs : IsDone(videos[j]) =>
    /\ videos[j].display_name # None
    /\ {videos[j].result_key, ThumbnailKey(j), ClipsKey(j)} \subseteq objects

\* At most one active video per fingerprint, profile and quality, through the
\* insert of submit_job and the profile rewritten by _upload_result_with_display_name.
ActiveKeysUnique ==
  \A j, k \in Jobs :
    /\ videos[j] # None /\ videos[j].status \in ActiveStatus
    /\ Matches(videos[k], videos[j].fingerprint, videos[j].profile,
               videos[j].max_quality)
    => j = k

\* No two videos share a display name, however their names collided at first.
DisplayNamesUnique ==
  \A j, k \in Jobs :
    /\ videos[j] # None /\ videos[j].display_name # None
    /\ videos[k] # None /\ videos[k].display_name = videos[j].display_name
    => j = k

\* Both unique keys hold through every insert, rewrite and failure of a video.
Indexed == ActiveKeysUnique /\ DisplayNamesUnique

\* A video in progress that nobody is going to settle: its file is blocked.
Stranded(j) ==
  /\ videos[j] # None /\ videos[j].status = "in_progress"
  /\ submit[j].pc # "send" /\ j \notin queue
  /\ \A w \in Workers : worker[w].job = j => worker[w].pc = "ack"

\* Each aborted run, half-way submission and expired hash strands one video at
\* most.  A killed worker strands none, whatever it was doing, and neither does
\* any failure that submit_job and run_job handle.
StrandedByFaults ==
  Cardinality({j \in Jobs : Stranded(j)})
    <= (MaxAborts - budget.aborts) + (MaxApiDeaths - budget.api_deaths)
         + (MaxExpiries - budget.expiries)

\* A done or failed job never changes again, but for being dismissed, and a
\* resolved profile is written once.
TerminalStays(job, next) ==
  /\ job.status \in Dismissable =>
       next \in {job, [job EXCEPT !.dismissed = TRUE]}
  /\ job.resolved_profile # None => next.resolved_profile = job.resolved_profile

TerminalIsFinal ==
  [][\A j \in Jobs : jobs[j] # None /\ jobs'[j] # None =>
       TerminalStays(jobs[j], jobs'[j])]_vars

\* A published video keeps its status, its name and its result key.
PublishedIsFinal ==
  [][\A j \in Jobs : IsDone(videos[j]) =>
       /\ IsDone(videos'[j])
       /\ videos'[j].display_name = videos[j].display_name
       /\ videos'[j].result_key = videos[j].result_key]_vars

\* No fault has struck that nothing handles (Abort; SubmitDies and Expire): what
\* those leave behind is what StrandedByFaults counts.
NoAbort == budget.aborts = MaxAborts
NoDeath == budget.api_deaths = MaxApiDeaths /\ budget.expiries = MaxExpiries

\* Every accepted submission is eventually done or failed, or its hash expires,
\* also when workers are killed, unless a run is interrupted.
AcceptedSettles ==
  \A j \in Jobs : submit[j].pc = "accepted" ~>
    jobs[j] = None \/ jobs[j].status \in Dismissable \/ ~NoAbort

\* Every video leaves in_progress, also when workers are killed: a file is never
\* held by a run that is over, unless a run was interrupted, an API process died
\* or a hash expired.
VideoSettles ==
  \A j \in Jobs : (videos[j] # None /\ videos[j].status = "in_progress") ~>
    \/ videos[j] = None \/ videos[j].status # "in_progress"
    \/ ~NoAbort \/ ~NoDeath

(* What the documents say, and the code does not do.                       *)

\* FR-021, SC-005: a file that was processed through a profile, or is being so,
\* is not processed through the profile a second time.  An accepted submission
\* is the start of processing; "auto" is a choice of the same list.
OneRunPerRequest ==
  \A j, k \in Jobs :
    /\ submit[j].pc = "accepted" /\ submit[k].pc = "accepted"
    /\ submit[j].file = submit[k].file
    /\ submit[j].profile = submit[k].profile
    /\ submit[j].max_quality = submit[k].max_quality
    /\ videos[j].status \in ActiveStatus /\ videos[k].status \in ActiveStatus
    => j = k

-----------------------------------------------------------------------------
(* What the type invariant needs to be inductive: which fields of a process *)
(* are set at which point.                                                  *)

SubmitOK(j) ==
  /\ submit[j].pc \notin {"new", "rejected"} =>
       submit[j].file \in Files /\ submit[j].profile \in Implemented \cup {"auto"}
  /\ submit[j].snap # None => submit[j].pc = "duplicate"
  /\ Delivered(j) => submit[j].pc = "accepted"

WorkerOK(w) ==
  /\ worker[w].pc = "idle" <=> worker[w].job = None
  /\ worker[w].pc \notin {"idle", "resolve", "fail", "fail_video", "ack"} =>
       worker[w].profile \in Implemented
  /\ worker[w].pc \in {"thumbnail", "clips", "name", "done"} =>
       worker[w].result_key \in ResultKey
  /\ worker[w].snap # None => worker[w].pc \in UpdatePc

DismissOK(d) ==
  dismiss[d].snap # None => dismiss[d].pc = "update" /\ dismiss[d].job \in Jobs

WellFormed ==
  /\ TypeOK
  /\ \A j \in Jobs : SubmitOK(j)
  /\ \A w \in Workers : WorkerOK(w)
  /\ \A d \in Dismissers : DismissOK(d)
=============================================================================
