-------------------------- MODULE JobUpdates_proofs --------------------------
(***************************************************************************)
(* Why JobStore.update may read and write a job hash in two steps without  *)
(* a lock: as long as no message is redelivered, a job has one writer at a *)
(* time, the API until the message is sent, then the worker it is with,    *)
(* and only once that one has written a terminal status the requests that  *)
(* dismiss it.                                                             *)
(*                                                                         *)
(* From this it follows that whatever hash of a job is stored or held is   *)
(* one hash up to its dismissal (HashesAgree), that its status is the one  *)
(* its run has come to (Phases), that it agrees with the video document on *)
(* how the run ended (Ledgers, Freeing), and that readers see a            *)
(* JobLifecycle.                                                           *)
(***************************************************************************)
EXTENDS JobPipeline_proofs

\* run_job has not yet written its last word to the job.
Active(w) == worker[w].pc \notin {"idle", "fail_video", "ack"}

\* Somebody other than a dismissing request is still going to write the job.
Owned(j) ==
  \/ submit[j].pc \in {"create_video", "duplicate", "send"}
  \/ j \in queue
  \/ \E w \in Workers : worker[w].job = j /\ Active(w)

\* The job's profile has not been resolved yet.
Unresolved(j) ==
  \/ submit[j].pc \in {"create_video", "duplicate", "send"}
  \/ j \in queue
  \/ \E w \in Workers : worker[w].job = j /\ worker[w].pc \in {"resolve", "resolved"}

Unsent(j) == submit[j].pc \in {"new", "create_job"}

Pending(job) == job.status \in {"queued", "running"} /\ ~job.dismissed

\* The inductive invariant, for runs without a crash.
JobOK(j) ==
  /\ Unsent(j) => jobs[j] = None
  /\ Owned(j) /\ jobs[j] # None => Pending(jobs[j])
  /\ Unresolved(j) /\ jobs[j] # None => jobs[j].resolved_profile = None
  /\ jobs[j] # None /\ jobs[j].dismissed => jobs[j].status \in Dismissable

\* A reader that is about to write holds what is stored, or what has expired.
Reader(snap, job) == snap # None => Pending(snap) /\ job \in {None, snap}

Dismissing(d) ==
  /\ \A k \in dismiss[d].todo :
       /\ ~Unsent(k) /\ ~Owned(k)
       /\ jobs[k] # None => jobs[k].status \in Dismissable
  /\ dismiss[d].snap # None =>
       /\ dismiss[d].job \in dismiss[d].todo
       /\ dismiss[d].snap.status \in Dismissable
       /\ jobs[dismiss[d].job] # None =>
            UpToDismissal(jobs[dismiss[d].job]) = UpToDismissal(dismiss[d].snap)

\* Two requests that dismiss the same job hold the same hash.
Agree ==
  \A d, e \in Dismissers :
    /\ dismiss[d].snap # None /\ dismiss[e].snap # None
    /\ dismiss[d].job = dismiss[e].job
    => UpToDismissal(dismiss[d].snap) = UpToDismissal(dismiss[e].snap)

OneWriter ==
  /\ budget.crashes = 0
  /\ \A j \in Jobs : JobOK(j) /\ Reader(submit[j].snap, jobs[j])
  /\ \A w \in Workers : worker[w].snap # None =>
       Reader(worker[w].snap, jobs[worker[w].job])
  /\ \A d \in Dismissers : Dismissing(d)
  /\ Agree

-----------------------------------------------------------------------------

LEMMA InitOneWriter ==
  ASSUME MaxCrashes = 0, Init
  PROVE  OneWriter
<1>1. /\ budget.crashes = 0
      /\ \A j \in Jobs : jobs[j] = None /\ submit[j].pc = "new" /\ submit[j].snap = None
      /\ \A w \in Workers : worker[w].snap = None
      /\ \A d \in Dismissers : dismiss[d].snap = None /\ dismiss[d].todo = {}
  BY DEF Init, IdleWorker, IdleDismisser
<1> QED
  BY <1>1 DEF OneWriter, JobOK, Reader, Dismissing, Agree

\* A step that writes no job and lets nobody new in.
LEMMA QuietStep ==
  ASSUME WellFormed, OneWriter, jobs' = jobs, dismiss' = dismiss,
         budget'.crashes = budget.crashes,
         \A j \in Jobs :
           /\ Owned(j)' => Owned(j)
           /\ Unresolved(j)' => Unresolved(j)
           /\ Unsent(j)' => Unsent(j)
           /\ \/ submit'[j].snap \in {None, submit[j].snap}
              \/ submit'[j].snap = jobs[j] /\ Owned(j),
         \A w \in Workers : worker'[w].snap # None =>
           /\ worker'[w].job = worker[w].job
           /\ worker'[w].job \in Jobs
           /\ \/ worker'[w].snap = worker[w].snap
              \/ worker'[w].snap = jobs[worker[w].job] /\ Active(w)
  PROVE  OneWriter'
<1>1. ASSUME NEW j \in Jobs PROVE JobOK(j)'
  BY DEF OneWriter, JobOK, Pending
<1>2. ASSUME NEW j \in Jobs PROVE Reader(submit[j].snap, jobs[j])'
  BY DEF OneWriter, JobOK, Reader, Pending
<1>3. ASSUME NEW w \in Workers, worker'[w].snap # None
      PROVE  Reader(worker[w].snap, jobs[worker[w].job])'
  <2>1. CASE worker'[w].snap = worker[w].snap
    BY <1>3, <2>1 DEF OneWriter, Reader, Pending
  <2>2. CASE worker'[w].snap = jobs[worker[w].job] /\ Active(w)
    <3>1. Owned(worker[w].job)
      BY <2>2 DEF Owned
    <3> QED
      BY <1>3, <2>2, <3>1 DEF OneWriter, JobOK, Reader, Pending
  <2> QED
    BY <1>3, <2>1, <2>2
<1>4. ASSUME NEW d \in Dismissers PROVE Dismissing(d)'
  <2>1. dismiss[d].todo \subseteq Jobs /\ dismiss'[d] = dismiss[d]
    BY DEF WellFormed, TypeOK, Dismissal
  <2> QED
    BY <2>1 DEF OneWriter, Dismissing, UpToDismissal
<1>5. Agree'
  BY DEF OneWriter, Agree
<1> QED
  BY <1>1, <1>2, <1>3, <1>4, <1>5 DEF OneWriter

\* A worker moves on with its job.
LEMMA WorkerMove ==
  ASSUME WellFormed, OneWriter, NEW w \in Workers, worker[w].pc # "idle",
         NEW r, worker' = [worker EXCEPT ![w] = r],
         UNCHANGED <<jobs, queue, submit, dismiss>>,
         budget'.crashes = budget.crashes,
         r.job = worker[w].job,
         r.pc \in {"fail_video", "ack"} \/ Active(w),
         r.pc \in {"resolve", "resolved"} => worker[w].pc \in {"resolve", "resolved"},
         \/ r.snap \in {None, worker[w].snap}
         \/ r.snap = jobs[worker[w].job] /\ Active(w)
  PROVE  OneWriter'
<1>1. /\ worker'[w] = r /\ worker[w].job \in Jobs
      /\ \A x \in Workers \ {w} : worker'[x] = worker[x]
  BY DEF WellFormed, TypeOK, WorkerOK, WorkerState
<1>2. ASSUME NEW j \in Jobs
      PROVE  /\ Owned(j)' => Owned(j)
             /\ Unresolved(j)' => Unresolved(j)
             /\ Unsent(j)' => Unsent(j)
  BY <1>1 DEF Owned, Unresolved, Unsent, Active
<1>3. ASSUME NEW x \in Workers, worker'[x].snap # None
      PROVE  /\ worker'[x].job = worker[x].job
             /\ worker'[x].job \in Jobs
             /\ \/ worker'[x].snap = worker[x].snap
                \/ worker'[x].snap = jobs[worker[x].job] /\ Active(x)
  <2>1. CASE x = w
    BY <1>1, <1>3, <2>1
  <2>2. CASE x # w
    BY <1>1, <1>3, <2>2 DEF WellFormed, TypeOK, WorkerOK, WorkerState, UpdatePc
  <2> QED
    BY <2>1, <2>2
<1> QED
  BY <1>2, <1>3, QuietStep

LEMMA WorkerGoto ==
  ASSUME WellFormed, OneWriter, NEW w \in Workers, NEW pc, Goto(w, pc),
         worker[w].pc # "idle",
         UNCHANGED <<jobs, queue, submit, dismiss, budget>>,
         pc \in {"fail_video", "ack"} \/ Active(w),
         pc \notin {"resolve", "resolved"}
  PROVE  OneWriter'
<1> DEFINE r == [worker[w] EXCEPT !.pc = pc]
<1>1. worker[w] \in WorkerState /\ worker' = [worker EXCEPT ![w] = r]
  BY DEF Goto, WellFormed, TypeOK
<1>2. r.job = worker[w].job /\ r.pc = pc /\ r.snap = worker[w].snap
  BY <1>1 DEF WorkerState
<1> QED
  BY <1>1, <1>2, WorkerMove

LEMMA PickupOneWriter ==
  ASSUME WellFormed, OneWriter, NEW w \in Workers, NEW j \in Jobs, Pickup(w, j)
  PROVE  OneWriter'
<1> DEFINE r == [IdleWorker EXCEPT
                   !.pc = IF jobs[j] = None THEN "ack" ELSE "resolve", !.job = j]
<1>1. /\ r.job = j /\ r.snap = None
      /\ worker'[w] = r /\ j \in queue /\ queue' = queue \ {j}
      /\ \A x \in Workers \ {w} : worker'[x] = worker[x]
  BY DEF Pickup, IdleWorker, WellFormed, TypeOK
<1>2. ASSUME NEW k \in Jobs
      PROVE  /\ Owned(k)' => Owned(k)
             /\ Unresolved(k)' => Unresolved(k)
             /\ Unsent(k)' => Unsent(k)
  BY <1>1 DEF Pickup, Owned, Unresolved, Unsent, Active
<1>3. ASSUME NEW x \in Workers, worker'[x].snap # None
      PROVE  /\ worker'[x] = worker[x] /\ worker[x].job \in Jobs
  BY <1>1, <1>3 DEF WellFormed, TypeOK, WorkerOK, WorkerState, UpdatePc
<1> QED
  BY <1>2, <1>3, QuietStep DEF Pickup

LEMMA AckOneWriter ==
  ASSUME WellFormed, OneWriter, NEW w \in Workers, Ack(w)
  PROVE  OneWriter'
<1>1. /\ worker'[w] = IdleWorker
      /\ \A x \in Workers \ {w} : worker'[x] = worker[x]
  BY DEF Ack, WellFormed, TypeOK
<1>2. IdleWorker.pc = "idle" /\ IdleWorker.snap = None
  BY DEF IdleWorker
<1>3. ASSUME NEW k \in Jobs
      PROVE  /\ Owned(k)' => Owned(k)
             /\ Unresolved(k)' => Unresolved(k)
             /\ Unsent(k)' => Unsent(k)
  BY <1>1, <1>2 DEF Ack, Owned, Unresolved, Unsent, Active
<1>4. ASSUME NEW x \in Workers, worker'[x].snap # None
      PROVE  /\ worker'[x] = worker[x] /\ worker[x].job \in Jobs
  BY <1>1, <1>2, <1>4 DEF WellFormed, TypeOK, WorkerOK, WorkerState, UpdatePc
<1> QED
  BY <1>3, <1>4, QuietStep DEF Ack

\* Every other step of a worker that writes no job.
LEMMA RunOneWriter ==
  ASSUME WellFormed, OneWriter, NEW w \in Workers,
         \/ Resolve(w) \/ CheckRunnable(w) \/ ReadJob(w) \/ Download(w)
         \/ Encode(w) \/ UploadResult(w) \/ UploadThumbnail(w)
         \/ UploadClips(w) \/ UploadFails(w) \/ PublishVideo(w)
         \/ FailVideo(w) \/ Abort(w)
  PROVE  OneWriter'
<1>1. worker[w] \in WorkerState
  BY DEF WellFormed, TypeOK
<1>2. CASE Resolve(w)
  <2>1. ASSUME NEW p, worker' = [worker EXCEPT ![w] =
                        [worker[w] EXCEPT !.pc = "resolved", !.profile = p]]
        PROVE  OneWriter'
    <3> DEFINE r == [worker[w] EXCEPT !.pc = "resolved", !.profile = p]
    <3>1. r.job = worker[w].job /\ r.pc = "resolved" /\ r.snap = worker[w].snap
      BY <1>1 DEF WorkerState
    <3> QED
      BY <1>2, <2>1, <3>1, WorkerMove DEF Resolve, Active
  <2> QED
    BY <1>2, <2>1, WorkerGoto DEF Resolve, Active
<1>3. CASE ReadJob(w)
  <2> DEFINE r == [worker[w] EXCEPT !.snap = jobs[worker[w].job]]
  <2>1. /\ r.job = worker[w].job /\ r.pc = worker[w].pc
        /\ r.snap = jobs[worker[w].job]
    BY <1>1 DEF WorkerState
  <2>2. CASE jobs[worker[w].job] = None
    <3>1. Goto(w, "ack")
      BY <1>3, <2>2 DEF ReadJob, Goto
    <3> QED
      BY <1>3, <3>1, WorkerGoto DEF ReadJob, UpdatePc
  <2>3. CASE jobs[worker[w].job] # None
    BY <1>3, <2>1, <2>3, WorkerMove DEF ReadJob, Active, UpdatePc
  <2> QED
    BY <2>2, <2>3
<1>4. CASE Encode(w)
  <2> DEFINE r == [worker[w] EXCEPT !.pc = "progress", !.ticks = worker[w].ticks + 1]
  <2>1. r.job = worker[w].job /\ r.pc = "progress" /\ r.snap = worker[w].snap
    BY <1>1 DEF WorkerState
  <2>2. ASSUME worker' = [worker EXCEPT ![w] = r] PROVE OneWriter'
    BY <1>4, <2>1, <2>2, WorkerMove DEF Encode, Active
  <2> QED
    BY <1>4, <2>2, WorkerGoto DEF Encode, Active
<1>5. CASE UploadResult(w)
  <2> DEFINE key == <<worker[w].job, "result", uploads[worker[w].job] + 1>>
             r == [worker[w] EXCEPT !.pc = "thumbnail", !.result_key = key]
  <2>1. r.job = worker[w].job /\ r.pc = "thumbnail" /\ r.snap = worker[w].snap
    BY <1>1 DEF WorkerState
  <2> QED
    BY <1>5, <2>1, WorkerMove DEF UploadResult, Active
<1>6. CASE UploadClips(w)
  <2> DEFINE r == [worker[w] EXCEPT !.pc = "name", !.attempt = 0]
  <2>1. r.job = worker[w].job /\ r.pc = "name" /\ r.snap = worker[w].snap
    BY <1>1 DEF WorkerState
  <2> QED
    BY <1>6, <2>1, WorkerMove DEF UploadClips, Active
<1>7. CASE PublishVideo(w)
  <2> DEFINE pc == IF worker[w].attempt + 1 < MaxDisplayNameAttempts
                   THEN "name" ELSE "fail"
             r == [worker[w] EXCEPT !.attempt = worker[w].attempt + 1, !.pc = pc]
  <2>1. /\ r.job = worker[w].job /\ r.pc \in {"name", "fail"}
        /\ r.snap = worker[w].snap
    BY <1>1 DEF WorkerState
  <2>2. NextName(w) => worker' = [worker EXCEPT ![w] = r]
    BY DEF NextName
  <2> HIDE DEF r
  <2>3. /\ worker[w].pc = "name"
        /\ UNCHANGED <<jobs, objects, uploads, queue, submit, dismiss, budget>>
        /\ NextName(w) \/ Goto(w, "fail") \/ Goto(w, "done")
    BY <1>7 DEF PublishVideo
  <2>4. CASE NextName(w)
    BY <2>1, <2>2, <2>3, <2>4, WorkerMove DEF Active
  <2> QED
    BY <2>3, <2>4, WorkerGoto DEF Active
<1>8. CASE Abort(w)
  <2> DEFINE r == [worker[w] EXCEPT !.pc = "ack", !.snap = None]
  <2>1. r.job = worker[w].job /\ r.pc = "ack" /\ r.snap = None
    BY <1>1 DEF WorkerState
  <2>2. budget'.crashes = budget.crashes
    BY <1>8 DEF Abort, WellFormed, TypeOK, Budget
  <2> QED
    BY <1>8, <2>1, <2>2, WorkerMove DEF Abort
<1>9. CASE CheckRunnable(w) \/ Download(w) \/ UploadThumbnail(w)
             \/ UploadFails(w) \/ FailVideo(w)
  BY <1>9, WorkerGoto
     DEF CheckRunnable, Download, UploadThumbnail, UploadFails, FailVideo, Active
<1> QED
  BY <1>2, <1>3, <1>4, <1>5, <1>6, <1>7, <1>8, <1>9

-----------------------------------------------------------------------------
(* The steps that write a job.                                              *)

LEMMA WriteOneWriter ==
  ASSUME WellFormed, Exclusive, OneWriter, NEW w \in Workers,
         NEW at \in UpdatePc, NEW updated, NEW next,
         WriteJob(w, at, updated, next),
         next \notin {"idle", "resolve", "resolved"},
         next \in {"fail_video", "ack"} \/ Pending(updated),
         ~updated.dismissed
  PROVE  OneWriter'
<1> DEFINE j == worker[w].job
           r == [worker[w] EXCEPT !.pc = next, !.snap = None]
<1>1. /\ worker[w].pc = at /\ Active(w) /\ j \in Jobs /\ worker[w] \in WorkerState
  BY DEF WriteJob, UpdatePc, Active, WellFormed, TypeOK, WorkerOK, WorkerState
<1>2. r.job = j /\ r.pc = next /\ r.snap = None
  BY <1>1 DEF WorkerState
<1>3. /\ worker'[w] = r
      /\ \A x \in Workers \ {w} : worker'[x] = worker[x]
      /\ jobs'[j] = updated
      /\ \A k \in Jobs \ {j} : jobs'[k] = jobs[k]
      /\ UNCHANGED <<queue, submit, dismiss, budget>>
  BY <1>1 DEF WriteJob, WellFormed, TypeOK
<1> HIDE DEF r
<1>4. /\ submit[j].pc = "accepted" /\ submit[j].snap = None /\ j \notin queue
      /\ \A x \in Workers \ {w} : worker[x].job # j
  BY <1>1 DEF WellFormed, SubmitOK, Delivered, Running, Exclusive
<1>5. Owned(j)
  BY <1>1 DEF Owned
<1>6. ASSUME NEW k \in Jobs PROVE JobOK(k)' /\ Reader(submit[k].snap, jobs[k])'
  <2>1. CASE k = j
    <3>1. ~Unsent(k)' /\ ~Unresolved(k)' /\ (Owned(k)' => Pending(updated))
      BY <1>2, <1>3, <1>4, <2>1 DEF Unsent, Unresolved, Owned, Active
    <3>2. JobOK(k)'
      BY <1>3, <2>1, <3>1 DEF JobOK, Pending
    <3>3. submit'[k].snap = None
      BY <1>3, <1>4, <2>1
    <3> QED
      BY <3>2, <3>3 DEF Reader
  <2>2. CASE k # j
    <3>1. /\ Owned(k)' => Owned(k)
          /\ Unresolved(k)' => Unresolved(k)
          /\ Unsent(k)' => Unsent(k)
      BY <1>2, <1>3, <2>2 DEF Unsent, Unresolved, Owned, Active
    <3> QED
      BY <1>3, <2>2, <3>1 DEF OneWriter, JobOK, Reader, Pending
  <2> QED
    BY <2>1, <2>2
<1>7. ASSUME NEW x \in Workers, worker'[x].snap # None
      PROVE  Reader(worker[x].snap, jobs[worker[x].job])'
  <2>1. /\ x # w /\ worker'[x] = worker[x] /\ worker[x].job \in Jobs \ {j}
    BY <1>2, <1>3, <1>4, <1>7 DEF WellFormed, TypeOK, WorkerOK, WorkerState, UpdatePc
  <2> QED
    BY <1>3, <1>7, <2>1 DEF OneWriter, Reader, Pending
<1>8. ASSUME NEW d \in Dismissers PROVE Dismissing(d)'
  <2>1. /\ j \notin dismiss[d].todo /\ dismiss[d].todo \subseteq Jobs
        /\ Dismissing(d)
    BY <1>5 DEF OneWriter, Dismissing, WellFormed, TypeOK, Dismissal
  <2>2. ASSUME NEW k \in dismiss[d].todo
        PROVE  /\ ~Unsent(k)' /\ ~Owned(k)' /\ jobs'[k] = jobs[k]
               /\ jobs[k] # None => jobs[k].status \in Dismissable
    BY <1>2, <1>3, <2>1, <2>2 DEF Dismissing, Unsent, Owned, Active
  <2>3. dismiss'[d] = dismiss[d]
    BY <1>3
  <2> QED
    BY <2>1, <2>2, <2>3 DEF Dismissing, UpToDismissal
<1>9. Agree'
  BY <1>3 DEF OneWriter, Agree
<1> QED
  BY <1>3, <1>6, <1>7, <1>8, <1>9 DEF OneWriter

LEMMA WriteStepOneWriter ==
  ASSUME WellFormed, Exclusive, OneWriter, NEW w \in Workers, WriteStep(w)
  PROVE  OneWriter'
<1> DEFINE snap == worker[w].snap
<1>1. snap \in Job /\ Pending(snap)
  BY DEF WriteStep, RecordResolved, StartRunning, StartProcessing,
         RecordProgress, StartUploading, CompleteJob, RecordFailure, WriteJob,
         WellFormed, TypeOK, WorkerState, OneWriter, Reader
<1> HIDE DEF snap
<1>2. CASE RecordResolved(w)
  <2> DEFINE updated == [snap EXCEPT !.resolved_profile = worker[w].profile]
  <2>1. Pending(updated) /\ ~updated.dismissed
    BY <1>1 DEF Pending, Job
  <2>2. WriteJob(w, "resolved", updated, "check")
    BY <1>2 DEF RecordResolved, snap
  <2> HIDE DEF updated
  <2> QED
    BY <2>1, <2>2, WriteOneWriter DEF UpdatePc
<1>3. CASE StartRunning(w)
  <2> DEFINE updated == [snap EXCEPT !.status = "running", !.stage = "downloading"]
  <2>1. Pending(updated) /\ ~updated.dismissed
    BY <1>1 DEF Pending, Job
  <2>2. WriteJob(w, "start", updated, "download")
    BY <1>3 DEF StartRunning, snap
  <2> HIDE DEF updated
  <2> QED
    BY <2>1, <2>2, WriteOneWriter DEF UpdatePc
<1>4. CASE StartProcessing(w)
  <2> DEFINE updated == [snap EXCEPT !.stage = "processing"]
  <2>1. Pending(updated) /\ ~updated.dismissed
    BY <1>1 DEF Pending, Job
  <2>2. WriteJob(w, "processing", updated, "encode")
    BY <1>4 DEF StartProcessing, snap
  <2> HIDE DEF updated
  <2> QED
    BY <2>1, <2>2, WriteOneWriter DEF UpdatePc
<1>5. CASE RecordProgress(w)
  <2>1. WriteJob(w, "progress", snap, "encode")
    BY <1>5 DEF RecordProgress, snap
  <2> QED
    BY <1>1, <2>1, WriteOneWriter DEF UpdatePc, Pending
<1>6. CASE StartUploading(w)
  <2> DEFINE updated == [snap EXCEPT !.stage = "uploading_result"]
  <2>1. Pending(updated) /\ ~updated.dismissed
    BY <1>1 DEF Pending, Job
  <2>2. WriteJob(w, "uploading", updated, "result")
    BY <1>6 DEF StartUploading, snap
  <2> HIDE DEF updated
  <2> QED
    BY <2>1, <2>2, WriteOneWriter DEF UpdatePc
<1>7. CASE CompleteJob(w)
  <2> DEFINE updated == [snap EXCEPT !.status = "done", !.stage = None,
                                     !.result_key = worker[w].result_key]
  <2>1. ~updated.dismissed
    BY <1>1 DEF Pending, Job
  <2>2. WriteJob(w, "done", updated, "ack")
    BY <1>7 DEF CompleteJob, snap
  <2> HIDE DEF updated
  <2> QED
    BY <2>1, <2>2, WriteOneWriter DEF UpdatePc
<1>8. CASE RecordFailure(w)
  <2> DEFINE updated == [snap EXCEPT !.status = "failed", !.error = TRUE]
  <2>1. ~updated.dismissed
    BY <1>1 DEF Pending, Job
  <2>2. WriteJob(w, "fail", updated, "fail_video")
    BY <1>8 DEF RecordFailure, snap
  <2> HIDE DEF updated
  <2> QED
    BY <2>1, <2>2, WriteOneWriter DEF UpdatePc
<1> QED
  BY <1>2, <1>3, <1>4, <1>5, <1>6, <1>7, <1>8 DEF WriteStep

-----------------------------------------------------------------------------
(* POST /jobs.                                                              *)

\* The steps of a submission that write no job.
LEMMA SubmitQuiet ==
  ASSUME WellFormed, OneWriter, NEW j \in Jobs,
         \/ Submit(j) \/ CreateVideo(j) \/ ReadDuplicate(j) \/ Send(j)
         \/ SubmitDies(j)
  PROVE  OneWriter'
<1>1. /\ UNCHANGED <<jobs, worker, dismiss>> /\ budget'.crashes = budget.crashes
      /\ submit[j] \in Submission
  BY DEF Submit, CreateVideo, ReadDuplicate, Send, SubmitDies, WellFormed, TypeOK, Budget
<1>2. \A k \in Jobs \ {j} : submit'[k] = submit[k]
  BY DEF Submit, CreateVideo, ReadDuplicate, Send, SubmitDies, WellFormed, TypeOK
<1>3. /\ Owned(j)' => Owned(j)
      /\ Unresolved(j)' => Unresolved(j)
      /\ Unsent(j)' => Unsent(j)
      /\ \/ submit'[j].snap \in {None, submit[j].snap}
         \/ submit'[j].snap = jobs[j] /\ Owned(j)
      /\ queue' \in {queue, queue \cup {j}}
  <2>0. submit \in [Jobs -> Submission]
    BY DEF WellFormed, TypeOK
  <2>1. CASE Submit(j)
    <3>1. /\ submit[j].pc = "new" /\ queue' = queue
          /\ \/ submit'[j].pc = "create_job" /\ submit'[j].snap = None
             \/ submit'[j].pc = "rejected" /\ submit'[j].snap = submit[j].snap
      BY <1>1, <2>0, <2>1 DEF Submit, Submission
    <3> QED
      BY <1>1, <3>1 DEF Owned, Unresolved, Unsent, Active
  <2>2. CASE CreateVideo(j)
    <3>1. /\ submit[j].pc = "create_video" /\ queue' = queue
          /\ submit'[j].pc \in {"send", "duplicate"}
          /\ submit'[j].snap = submit[j].snap
      BY <1>1, <2>0, <2>2 DEF CreateVideo, Submission
    <3> QED
      BY <1>1, <3>1 DEF Owned, Unresolved, Unsent, Active
  <2>3. CASE ReadDuplicate(j)
    <3>1. /\ submit[j].pc = "duplicate" /\ queue' = queue
          /\ \/ submit'[j].pc = "died" /\ submit'[j].snap = submit[j].snap
             \/ submit'[j].pc = "duplicate" /\ submit'[j].snap = jobs[j]
      BY <1>1, <2>0, <2>3 DEF ReadDuplicate, Submission
    <3> QED
      BY <1>1, <3>1 DEF Owned, Unresolved, Unsent, Active
  <2>4. CASE Send(j)
    <3>1. /\ submit[j].pc = "send" /\ queue' = queue \cup {j}
          /\ submit'[j].pc = "accepted" /\ submit'[j].snap = submit[j].snap
      BY <1>1, <2>0, <2>4 DEF Send, Submission
    <3> QED
      BY <1>1, <3>1 DEF Owned, Unresolved, Unsent, Active
  <2>5. CASE SubmitDies(j)
    <3> DEFINE r == [submit[j] EXCEPT !.pc = "died", !.snap = None]
    <3>1. r.pc = "died" /\ r.snap = None
      BY <1>1 DEF Submission
    <3>2. submit'[j] = r /\ queue' = queue
      BY <2>0, <2>5 DEF SubmitDies
    <3> HIDE DEF r
    <3> QED
      BY <1>1, <3>1, <3>2 DEF Owned, Unresolved, Unsent, Active
  <2> QED
    BY <2>1, <2>2, <2>3, <2>4, <2>5
<1>4. ASSUME NEW k \in Jobs, k # j
      PROVE  /\ Owned(k)' => Owned(k)
             /\ Unresolved(k)' => Unresolved(k)
             /\ Unsent(k)' => Unsent(k)
             /\ submit'[k].snap = submit[k].snap
  BY <1>1, <1>2, <1>3, <1>4 DEF Owned, Unresolved, Unsent, Active
<1>5. ASSUME NEW w \in Workers, worker'[w].snap # None
      PROVE  worker'[w] = worker[w] /\ worker[w].job \in Jobs
  BY <1>1, <1>5 DEF WellFormed, TypeOK, WorkerOK, WorkerState, UpdatePc
<1> QED
  BY <1>1, <1>3, <1>4, <1>5, QuietStep

\* The steps of a submission that write its job: its creation, and its failure
\* when the insert of its video was refused.
LEMMA SubmitWrites ==
  ASSUME WellFormed, OneWriter, NEW j \in Jobs, CreateJob(j) \/ FailDuplicate(j)
  PROVE  OneWriter'
<1> DEFINE rest == <<queue, worker, dismiss, budget>>
<1>1. /\ UNCHANGED rest /\ submit[j] \in Submission
      /\ \A k \in Jobs \ {j} : submit'[k] = submit[k] /\ jobs'[k] = jobs[k]
      /\ submit[j].pc \in {"create_job", "duplicate"}
  BY DEF CreateJob, FailDuplicate, WellFormed, TypeOK
<1>2. ~Delivered(j)
  BY <1>1 DEF WellFormed, SubmitOK
<1>3. JobOK(j)' /\ submit'[j].snap = None
  <2>1. CASE CreateJob(j)
    <3> DEFINE new == NewJob(submit[j].file, submit[j].profile, submit[j].max_quality)
    <3>1. jobs'[j] = new /\ submit'[j].pc = "create_video" /\ submit'[j].snap = None
      BY <1>1, <2>1 DEF CreateJob, WellFormed, TypeOK, SubmitOK, Submission
    <3>2. Pending(new) /\ new.resolved_profile = None /\ ~new.dismissed
      BY DEF Pending, NewJob
    <3> QED
      BY <3>1, <3>2 DEF JobOK, Unsent, Pending
  <2>2. CASE FailDuplicate(j)
    <3> DEFINE failed == [submit[j].snap EXCEPT !.status = "failed", !.error = TRUE]
               r == [submit[j] EXCEPT !.pc = "rejected", !.snap = None]
    <3>1. jobs'[j] = failed /\ submit'[j] = r
      BY <2>2 DEF FailDuplicate, WellFormed, TypeOK
    <3>2. r.pc = "rejected" /\ r.snap = None
      BY <1>1 DEF Submission
    <3>3. submit[j].snap \in Job /\ Pending(submit[j].snap)
      BY <1>1, <2>2 DEF FailDuplicate, Submission, OneWriter, Reader
    <3>4. failed.status = "failed" /\ ~failed.dismissed
      BY <3>3 DEF Job, Pending
    <3> HIDE DEF r, failed
    <3>5. ~Owned(j)' /\ ~Unresolved(j)' /\ ~Unsent(j)'
      BY <1>1, <1>2, <3>1, <3>2
         DEF Owned, Unresolved, Unsent, Active, Delivered, Running
    <3> QED
      BY <3>1, <3>2, <3>4, <3>5 DEF JobOK
  <2> QED
    BY <2>1, <2>2
<1>4. ASSUME NEW k \in Jobs PROVE JobOK(k)' /\ Reader(submit[k].snap, jobs[k])'
  <2>1. CASE k = j
    BY <1>3, <2>1 DEF Reader
  <2>2. CASE k # j
    BY <1>1, <2>2 DEF OneWriter, JobOK, Reader, Owned, Unresolved, Unsent, Active, Pending
  <2> QED
    BY <2>1, <2>2
<1>5. ASSUME NEW w \in Workers, worker'[w].snap # None
      PROVE  Reader(worker[w].snap, jobs[worker[w].job])'
  <2>1. worker'[w] = worker[w] /\ worker[w].job \in Jobs \ {j}
    BY <1>1, <1>2, <1>5
       DEF WellFormed, TypeOK, WorkerOK, WorkerState, UpdatePc, Delivered, Running
  <2> QED
    BY <1>1, <1>5, <2>1 DEF OneWriter, Reader, Pending
<1>6. ASSUME NEW d \in Dismissers PROVE Dismissing(d)'
  <2>1. /\ j \notin dismiss[d].todo /\ dismiss[d].todo \subseteq Jobs
        /\ Dismissing(d) /\ dismiss'[d] = dismiss[d]
    BY <1>1 DEF OneWriter, Dismissing, Owned, Unsent, WellFormed, TypeOK, Dismissal
  <2>2. ASSUME NEW k \in dismiss[d].todo
        PROVE  /\ ~Unsent(k)' /\ ~Owned(k)' /\ jobs'[k] = jobs[k]
               /\ jobs[k] # None => jobs[k].status \in Dismissable
    BY <1>1, <2>1, <2>2 DEF Dismissing, Unsent, Owned, Active
  <2> QED
    BY <2>1, <2>2 DEF Dismissing, UpToDismissal
<1>7. Agree'
  BY <1>1 DEF OneWriter, Agree
<1> QED
  BY <1>1, <1>4, <1>5, <1>6, <1>7 DEF OneWriter

-----------------------------------------------------------------------------
(* Dismissing jobs, and the TTL.                                            *)

\* A dismissing request moves on without writing.
LEMMA DismissMove ==
  ASSUME WellFormed, OneWriter, NEW d \in Dismissers, NEW r,
         dismiss' = [dismiss EXCEPT ![d] = r],
         UNCHANGED <<jobs, queue, submit, worker, budget>>,
         r.todo \subseteq Jobs,
         \A k \in r.todo : \/ k \in dismiss[d].todo
                           \/ jobs[k] # None /\ jobs[k].status \in Dismissable,
         r.snap # None => /\ r.job \in dismiss[d].todo \cap r.todo
                          /\ jobs[r.job] # None /\ r.snap = jobs[r.job]
  PROVE  OneWriter'
<1>1. /\ dismiss'[d] = r
      /\ \A e \in Dismissers \ {d} : dismiss'[e] = dismiss[e]
  BY DEF WellFormed, TypeOK
<1>2. \A k \in Jobs : /\ Owned(k)' <=> Owned(k)
                      /\ Unresolved(k)' <=> Unresolved(k)
                      /\ Unsent(k)' <=> Unsent(k)
  BY DEF Owned, Unresolved, Unsent, Active
<1>3. ASSUME NEW k \in Jobs PROVE JobOK(k)' /\ Reader(submit[k].snap, jobs[k])'
  BY <1>2 DEF OneWriter, JobOK, Reader, Pending
<1>4. ASSUME NEW w \in Workers, worker'[w].snap # None
      PROVE  Reader(worker[w].snap, jobs[worker[w].job])'
  BY <1>4 DEF OneWriter, Reader, Pending
<1>5. ASSUME NEW e \in Dismissers PROVE Dismissing(e)'
  <2>1. CASE e = d
    <3>1. ASSUME NEW k \in r.todo
          PROVE  /\ ~Unsent(k)' /\ ~Owned(k)'
                 /\ jobs'[k] # None => jobs'[k].status \in Dismissable
      <4>1. CASE k \in dismiss[d].todo
        BY <1>2, <4>1 DEF OneWriter, Dismissing
      <4>2. CASE jobs[k] # None /\ jobs[k].status \in Dismissable
        BY <1>2, <4>2 DEF OneWriter, JobOK, Pending, Dismissable
      <4> QED
        BY <3>1, <4>1, <4>2
    <3>2. r.snap # None => r.snap.status \in Dismissable
      BY DEF OneWriter, Dismissing
    <3> QED
      BY <1>1, <2>1, <3>1, <3>2 DEF Dismissing
  <2>2. CASE e # d
    <3>1. dismiss[e].todo \subseteq Jobs /\ dismiss'[e] = dismiss[e] /\ Dismissing(e)
      BY <1>1, <2>2 DEF WellFormed, TypeOK, Dismissal, OneWriter
    <3> QED
      BY <1>2, <3>1 DEF Dismissing, UpToDismissal
  <2> QED
    BY <2>1, <2>2
<1>6. Agree'
  <2> SUFFICES ASSUME NEW e \in Dismissers, NEW f \in Dismissers,
                      dismiss'[e].snap # None, dismiss'[f].snap # None,
                      dismiss'[e].job = dismiss'[f].job
               PROVE  UpToDismissal(dismiss'[e].snap) = UpToDismissal(dismiss'[f].snap)
    BY DEF Agree, UpToDismissal
  <2>1. ASSUME NEW x \in Dismissers, dismiss'[x].snap # None,
               jobs[dismiss'[x].job] # None
        PROVE  UpToDismissal(jobs[dismiss'[x].job]) = UpToDismissal(dismiss'[x].snap)
    BY <1>1, <2>1 DEF OneWriter, Dismissing
  <2>2. CASE e = d \/ f = d
    <3>1. jobs[dismiss'[e].job] # None
      BY <1>1, <2>2
    <3> QED
      BY <2>1, <3>1
  <2>3. CASE e # d /\ f # d
    BY <1>1, <2>3 DEF OneWriter, Agree
  <2> QED
    BY <2>2, <2>3
<1> QED
  BY <1>3, <1>4, <1>5, <1>6 DEF OneWriter

\* A dismissing request writes the hash it has read, marked dismissed.
LEMMA WriteDismissedOneWriter ==
  ASSUME WellFormed, OneWriter, NEW d \in Dismissers, WriteDismissed(d)
  PROVE  OneWriter'
<1> DEFINE j == dismiss[d].job
           updated == [dismiss[d].snap EXCEPT !.dismissed = TRUE]
           left == dismiss[d].todo \ {j}
           r == [IdleDismisser EXCEPT !.todo = left,
                                      !.pc = IF left = {} THEN "idle" ELSE "update"]
<1>1. /\ dismiss[d].snap \in Job /\ j \in Jobs /\ j \in dismiss[d].todo
      /\ dismiss[d].todo \subseteq Jobs /\ ~Unsent(j) /\ ~Owned(j)
      /\ dismiss[d].snap # None /\ dismiss[d].snap.status \in Dismissable
  BY DEF WriteDismissed, WellFormed, TypeOK, DismissOK, Dismissal, OneWriter, Dismissing
<1>2. /\ r.todo = left /\ r.snap = None
      /\ updated.status \in Dismissable
      /\ UpToDismissal(updated) = UpToDismissal(dismiss[d].snap)
  BY <1>1 DEF IdleDismisser, Job, UpToDismissal
<1>3. /\ dismiss'[d] = r
      /\ \A e \in Dismissers \ {d} : dismiss'[e] = dismiss[e]
      /\ jobs'[j] = updated
      /\ \A k \in Jobs \ {j} : jobs'[k] = jobs[k]
      /\ UNCHANGED <<queue, submit, worker, budget>>
  BY <1>1 DEF WriteDismissed, WellFormed, TypeOK
<1> HIDE DEF r, updated
<1>4. \A k \in Jobs : /\ Owned(k)' <=> Owned(k)
                      /\ Unresolved(k)' <=> Unresolved(k)
                      /\ Unsent(k)' <=> Unsent(k)
  BY <1>3 DEF Owned, Unresolved, Unsent, Active
<1>5. ASSUME NEW k \in Jobs PROVE JobOK(k)' /\ Reader(submit[k].snap, jobs[k])'
  <2>1. CASE k = j
    <3>1. ~Unresolved(k)' /\ submit'[k].snap = None
      BY <1>1, <1>3, <2>1
         DEF Owned, Unresolved, Active, WellFormed, SubmitOK
    <3> QED
      BY <1>1, <1>2, <1>3, <1>4, <2>1, <3>1 DEF JobOK, Reader
  <2>2. CASE k # j
    BY <1>3, <1>4, <2>2 DEF OneWriter, JobOK, Reader, Pending
  <2> QED
    BY <2>1, <2>2
<1>6. ASSUME NEW w \in Workers, worker'[w].snap # None
      PROVE  Reader(worker[w].snap, jobs[worker[w].job])'
  <2>1. worker'[w] = worker[w] /\ Active(w) /\ worker[w].job \in Jobs
    BY <1>3, <1>6 DEF Active, WellFormed, TypeOK, WorkerOK, WorkerState, UpdatePc
  <2>2. worker[w].job # j
    BY <1>1, <2>1 DEF Owned
  <2> QED
    BY <1>3, <1>6, <2>1, <2>2 DEF OneWriter, Reader, Pending
<1>7. ASSUME NEW e \in Dismissers PROVE Dismissing(e)'
  <2>1. /\ dismiss'[e].todo \subseteq dismiss[e].todo
        /\ dismiss[e].todo \subseteq Jobs
        /\ Dismissing(e)
    BY <1>2, <1>3 DEF WellFormed, TypeOK, Dismissal, OneWriter
  <2>2. ASSUME NEW k \in dismiss'[e].todo
        PROVE  /\ ~Unsent(k)' /\ ~Owned(k)'
               /\ jobs'[k] # None => jobs'[k].status \in Dismissable
    BY <1>2, <1>3, <1>4, <2>1, <2>2 DEF Dismissing
  <2>3. ASSUME dismiss'[e].snap # None
        PROVE  /\ dismiss'[e] = dismiss[e]
               /\ dismiss[e].job \in dismiss[e].todo
               /\ dismiss[e].snap.status \in Dismissable
               /\ jobs'[dismiss[e].job] # None =>
                    UpToDismissal(jobs'[dismiss[e].job]) = UpToDismissal(dismiss[e].snap)
    <3>1. dismiss'[e] = dismiss[e]
      BY <1>2, <1>3, <2>3
    <3>2. CASE dismiss[e].job = j
      BY <1>1, <1>2, <1>3, <2>1, <2>3, <3>1, <3>2 DEF Dismissing, OneWriter, Agree
    <3>3. CASE dismiss[e].job # j
      BY <1>3, <2>1, <2>3, <3>1, <3>3 DEF Dismissing
    <3> QED
      BY <3>1, <3>2, <3>3
  <2> QED
    BY <2>2, <2>3 DEF Dismissing, UpToDismissal
<1>8. Agree'
  BY <1>2, <1>3 DEF OneWriter, Agree, UpToDismissal
<1> QED
  BY <1>3, <1>5, <1>6, <1>7, <1>8 DEF OneWriter

LEMMA DismissOneWriter ==
  ASSUME WellFormed, OneWriter, NEW d \in Dismissers, DismissStep(d)
  PROVE  OneWriter'
<1>1. dismiss[d] \in Dismissal /\ DismissOK(d)
  BY DEF WellFormed, TypeOK
<1>2. CASE DismissAll(d)
  <2> DEFINE r == [dismiss[d] EXCEPT !.pc = "scan", !.unread = Jobs]
  <2>1. r.todo = dismiss[d].todo /\ r.snap = None
    BY <1>1, <1>2 DEF Dismissal, DismissAll, DismissOK
  <2>2. dismiss' = [dismiss EXCEPT ![d] = r]
    BY <1>2 DEF DismissAll
  <2> HIDE DEF r
  <2> QED
    BY <1>1, <1>2, <2>1, <2>2, DismissMove DEF DismissAll, Dismissal
<1>3. ASSUME NEW j \in Jobs, DismissOne(d, j) PROVE OneWriter'
  <2> DEFINE r == [dismiss[d] EXCEPT !.pc = "update", !.todo = {j}]
  <2>1. r.todo = {j} /\ r.snap = None
    BY <1>1, <1>3 DEF Dismissal, DismissOne, DismissOK
  <2>2. dismiss' = [dismiss EXCEPT ![d] = r]
    BY <1>3 DEF DismissOne
  <2>3. /\ UNCHANGED <<jobs, queue, submit, worker, budget>>
        /\ jobs[j] # None /\ jobs[j].status \in Dismissable
    BY <1>3 DEF DismissOne
  <2> HIDE DEF r
  <2>4. /\ r.todo \subseteq Jobs
        /\ \A k \in r.todo : jobs[k] # None /\ jobs[k].status \in Dismissable
    BY <2>1, <2>3
  <2> QED
    BY <2>1, <2>2, <2>3, <2>4, DismissMove
<1>4. ASSUME NEW j \in Jobs, ScanJob(d, j) PROVE OneWriter'
  <2> DEFINE unread == dismiss[d].unread \ {j}
             todo == dismiss[d].todo \cup {k \in {j} : Eligible(k)}
             pc == IF unread # {} THEN "scan"
                   ELSE IF todo # {} THEN "update" ELSE "idle"
             r == [dismiss[d] EXCEPT !.unread = unread, !.todo = todo, !.pc = pc]
  <2>1. r.todo = todo /\ r.snap = None
    BY <1>1, <1>4 DEF Dismissal, ScanJob, DismissOK
  <2>2. dismiss' = [dismiss EXCEPT ![d] = r]
    BY <1>4 DEF ScanJob
  <2>3. /\ todo \subseteq Jobs
        /\ \A k \in todo : \/ k \in dismiss[d].todo
                           \/ jobs[k] # None /\ jobs[k].status \in Dismissable
    BY <1>1 DEF Dismissal, Eligible
  <2> HIDE DEF r, todo
  <2> QED
    BY <1>4, <2>1, <2>2, <2>3, DismissMove DEF ScanJob
<1>5. ASSUME NEW j \in Jobs, ReadDismissed(d, j) PROVE OneWriter'
  <2>1. CASE jobs[j] = None
    <3>1. IdleDismisser.todo = {} /\ IdleDismisser.snap = None
      BY DEF IdleDismisser
    <3>2. dismiss' = [dismiss EXCEPT ![d] = IdleDismisser]
      BY <1>5, <2>1 DEF ReadDismissed
    <3> QED
      BY <1>5, <3>1, <3>2, DismissMove DEF ReadDismissed
  <2>2. CASE jobs[j] # None
    <3> DEFINE r == [dismiss[d] EXCEPT !.job = j, !.snap = jobs[j]]
    <3>1. r.todo = dismiss[d].todo /\ r.job = j /\ r.snap = jobs[j]
      BY <1>1 DEF Dismissal
    <3>2. dismiss' = [dismiss EXCEPT ![d] = r] /\ j \in dismiss[d].todo
      BY <1>5, <2>2 DEF ReadDismissed
    <3> HIDE DEF r
    <3> QED
      BY <1>1, <1>5, <2>2, <3>1, <3>2, DismissMove DEF ReadDismissed, Dismissal
  <2> QED
    BY <2>1, <2>2
<1> QED
  BY <1>2, <1>3, <1>4, <1>5, WriteDismissedOneWriter DEF DismissStep

LEMMA ExpireOneWriter ==
  ASSUME WellFormed, OneWriter, NEW j \in Jobs, Expire(j)
  PROVE  OneWriter'
<1>1. /\ UNCHANGED <<queue, submit, worker, dismiss>>
      /\ \A k \in Jobs : jobs'[k] \in {None, jobs[k]}
      /\ budget'.crashes = budget.crashes
  BY DEF Expire, WellFormed, TypeOK, Budget
<1>2. \A k \in Jobs : /\ Owned(k)' <=> Owned(k)
                      /\ Unresolved(k)' <=> Unresolved(k)
                      /\ Unsent(k)' <=> Unsent(k)
  BY <1>1 DEF Owned, Unresolved, Unsent, Active
<1>3. ASSUME NEW k \in Jobs PROVE JobOK(k)' /\ Reader(submit[k].snap, jobs[k])'
  BY <1>1, <1>2 DEF OneWriter, JobOK, Reader, Pending
<1>4. ASSUME NEW w \in Workers, worker'[w].snap # None
      PROVE  Reader(worker[w].snap, jobs[worker[w].job])'
  <2>1. worker'[w] = worker[w] /\ worker[w].job \in Jobs
    BY <1>1, <1>4 DEF WellFormed, TypeOK, WorkerOK, WorkerState, UpdatePc
  <2> QED
    BY <1>1, <1>4, <2>1 DEF OneWriter, Reader, Pending
<1>5. ASSUME NEW d \in Dismissers PROVE Dismissing(d)'
  <2>1. dismiss[d].todo \subseteq Jobs /\ dismiss'[d] = dismiss[d] /\ Dismissing(d)
    BY <1>1 DEF WellFormed, TypeOK, Dismissal, OneWriter
  <2> QED
    BY <1>1, <1>2, <2>1 DEF Dismissing, UpToDismissal
<1>6. Agree'
  BY <1>1 DEF OneWriter, Agree
<1> QED
  BY <1>1, <1>3, <1>4, <1>5, <1>6 DEF OneWriter

-----------------------------------------------------------------------------

LEMMA NextOneWriter ==
  ASSUME WellFormed, Exclusive, OneWriter, [Next]_vars
  PROVE  OneWriter'
<1>1. ASSUME NEW j \in Jobs, SubmitStep(j) \/ SubmitDies(j) \/ Expire(j)
      PROVE  OneWriter'
  BY <1>1, SubmitQuiet, SubmitWrites, ExpireOneWriter DEF SubmitStep
<1>2. ASSUME NEW w \in Workers, WorkerStep(w) \/ Abort(w) PROVE OneWriter'
  BY <1>2, PickupOneWriter, RunOneWriter, WriteStepOneWriter, AckOneWriter
     DEF WorkerStep
<1>3. ASSUME NEW w \in Workers, Crash(w) PROVE OneWriter'
  BY <1>3 DEF Crash, OneWriter
<1>4. ASSUME NEW d \in Dismissers, DismissStep(d) PROVE OneWriter'
  BY <1>4, DismissOneWriter
<1>5. CASE UNCHANGED vars
  BY <1>5 DEF vars, OneWriter, JobOK, Reader, Dismissing, Agree, Pending, Owned,
              Unresolved, Unsent, Active, UpToDismissal
<1> QED
  BY <1>1, <1>2, <1>3, <1>4, <1>5 DEF Next

\* What one step may do to a stored job.
LEMMA StepKeepsTerminal ==
  ASSUME WellFormed, Exclusive, OneWriter, [Next]_vars,
         NEW j \in Jobs, jobs[j] # None, jobs'[j] # None
  PROVE  TerminalStays(jobs[j], jobs'[j])
<1>0. jobs \in [Jobs -> Job \cup {None}] /\ JobOK(j) /\ jobs[j] \in Job
  BY DEF WellFormed, TypeOK, OneWriter
<1>1. CASE jobs'[j] = jobs[j]
  BY <1>1 DEF TerminalStays
<1>2. ASSUME NEW k \in Jobs, CreateJob(k), jobs'[j] # jobs[j] PROVE FALSE
  BY <1>0, <1>2 DEF CreateJob, JobOK, Unsent
<1>3. ASSUME NEW k \in Jobs, FailDuplicate(k), jobs'[j] # jobs[j]
      PROVE  TerminalStays(jobs[j], jobs'[j])
  <2> DEFINE failed == [submit[k].snap EXCEPT !.status = "failed", !.error = TRUE]
  <2>1. k = j /\ jobs'[j] = failed
    BY <1>0, <1>3 DEF FailDuplicate
  <2>2. /\ jobs[j] = submit[j].snap /\ Pending(jobs[j])
        /\ jobs[j].resolved_profile = None
    BY <1>0, <1>3, <2>1 DEF FailDuplicate, OneWriter, JobOK, Reader, Unresolved
  <2> QED
    BY <2>2 DEF TerminalStays, Pending, Dismissable
<1>4. ASSUME NEW w \in Workers, WriteStep(w), jobs'[j] # jobs[j]
      PROVE  TerminalStays(jobs[j], jobs'[j])
  <2>1. /\ worker[w].job = j /\ worker[w].snap # None
    BY <1>0, <1>4
       DEF WriteStep, RecordResolved, StartRunning, StartProcessing,
           RecordProgress, StartUploading, CompleteJob, RecordFailure, WriteJob
  <2>2. jobs[j] = worker[w].snap /\ Pending(jobs[j])
    BY <2>1 DEF OneWriter, Reader
  <2>3. CASE RecordResolved(w)
    <3>1. jobs[j].resolved_profile = None
      BY <1>0, <2>1, <2>3 DEF RecordResolved, WriteJob, JobOK, Unresolved
    <3> QED
      BY <2>2, <3>1 DEF TerminalStays, Pending, Dismissable
  <2>4. CASE ~RecordResolved(w)
    <3>1. jobs'[j].resolved_profile = jobs[j].resolved_profile
      <4> DEFINE snap == worker[w].snap
                 done == [snap EXCEPT !.status = "done", !.stage = None,
                                      !.result_key = worker[w].result_key]
                 failed == [snap EXCEPT !.status = "failed", !.error = TRUE]
                 started == [snap EXCEPT !.status = "running",
                                         !.stage = "downloading"]
                 processing == [snap EXCEPT !.stage = "processing"]
                 uploading == [snap EXCEPT !.stage = "uploading_result"]
      <4>1. \A x \in {snap, done, failed, started, processing, uploading} :
              x.resolved_profile = snap.resolved_profile
        BY <1>0, <2>2 DEF Job
      <4>2. jobs'[j] \in {snap, done, failed, started, processing, uploading}
        BY <1>0, <1>4, <2>1, <2>4
           DEF WriteStep, StartRunning, StartProcessing, RecordProgress,
               StartUploading, CompleteJob, RecordFailure, WriteJob
      <4> HIDE DEF snap, done, failed, started, processing, uploading
      <4>3. snap = jobs[j]
        BY <2>2 DEF snap
      <4> QED
        BY <4>1, <4>2, <4>3
    <3> QED
      BY <2>2, <3>1 DEF TerminalStays, Pending, Dismissable
  <2> QED
    BY <2>3, <2>4
<1>5. ASSUME NEW d \in Dismissers, WriteDismissed(d), jobs'[j] # jobs[j]
      PROVE  TerminalStays(jobs[j], jobs'[j])
  <2>1. dismiss[d].job = j /\ jobs'[j] = UpToDismissal(dismiss[d].snap)
    BY <1>0, <1>5 DEF WriteDismissed, UpToDismissal
  <2>2. jobs'[j] = UpToDismissal(jobs[j])
    BY <1>5, <2>1 DEF WriteDismissed, OneWriter, Dismissing
  <2>3. UpToDismissal(jobs[j]).resolved_profile = jobs[j].resolved_profile
    BY <1>0 DEF UpToDismissal, Job
  <2> QED
    BY <2>2, <2>3 DEF TerminalStays, UpToDismissal
<1>6. ASSUME NEW k \in Jobs, Expire(k), jobs'[j] # jobs[j] PROVE FALSE
  BY <1>0, <1>6 DEF Expire
<1>7. CASE UNCHANGED jobs
  BY <1>1, <1>7
<1>8. ASSUME NEW k \in Jobs, SubmitStep(k) \/ SubmitDies(k)
      PROVE  CreateJob(k) \/ FailDuplicate(k) \/ UNCHANGED jobs
  BY <1>8 DEF SubmitStep, Submit, CreateVideo, ReadDuplicate, Send, SubmitDies
<1>9. ASSUME NEW w \in Workers, WorkerStep(w) \/ Abort(w) \/ Crash(w)
      PROVE  WriteStep(w) \/ UNCHANGED jobs
  BY <1>9 DEF WorkerStep, Pickup, Resolve, CheckRunnable, ReadJob, Download,
              Encode, UploadResult, UploadThumbnail, UploadClips, UploadFails,
              PublishVideo, FailVideo, Ack, Abort, Crash
<1>10. ASSUME NEW d \in Dismissers, DismissStep(d)
       PROVE  WriteDismissed(d) \/ UNCHANGED jobs
  BY <1>10 DEF DismissStep, DismissAll, DismissOne, ScanJob, ReadDismissed
<1>11. CASE UNCHANGED vars
  BY <1>7, <1>11 DEF vars
<1> QED
  BY <1>1, <1>2, <1>3, <1>4, <1>5, <1>6, <1>7, <1>8, <1>9, <1>10, <1>11 DEF Next

\* While no message is redelivered, a job has one writer at a time.
THEOREM OneWriterAlways ==
  ASSUME MaxCrashes = 0
  PROVE  Spec => []OneWriter
<1>1. Init => OneWriter
  BY InitOneWriter
<1>2. SingleDelivery => Exclusive
  BY DEF SingleDelivery, Exclusive
<1>3. WellFormed /\ Exclusive /\ OneWriter /\ [Next]_vars => OneWriter'
  BY NextOneWriter
<1> QED
  BY <1>1, <1>2, <1>3, WellFormedAlways, OneRunAtATime, PTL DEF Spec

\* JobStore.update, a read and a write with awaits between them and no lock,
\* never overwrites what another process wrote in between: any number of jobs,
\* workers, submissions and dismissing requests, whatever runs or submissions
\* are cut short and whatever hashes expire, as long as no worker dies.
THEOREM UpdatesAreNotLost ==
  ASSUME MaxCrashes = 0
  PROVE  Spec => []NoLostUpdate
<1>1. WellFormed /\ OneWriter => NoLostUpdate
  BY DEF WellFormed, OneWriter, Reader, Dismissing, NoLostUpdate
<1> QED
  BY <1>1, WellFormedAlways, OneWriterAlways, PTL

\* Dismissing, one job or all of them at once, never hides a job in progress.
THEOREM OnlyTerminalIsDismissed ==
  ASSUME MaxCrashes = 0
  PROVE  Spec => []DismissedIsTerminal
<1>1. OneWriter => DismissedIsTerminal
  BY DEF OneWriter, JobOK, DismissedIsTerminal
<1> QED
  BY <1>1, OneWriterAlways, PTL

\* Once done or failed a job never changes again, except that it is dismissed,
\* and a resolved profile is recorded once.
THEOREM TerminalNeverReopens ==
  ASSUME MaxCrashes = 0
  PROVE  Spec => TerminalIsFinal
<1>1. SingleDelivery => Exclusive
  BY DEF SingleDelivery, Exclusive
<1>2. WellFormed /\ Exclusive /\ OneWriter /\ [Next]_vars =>
        [\A j \in Jobs : jobs[j] # None /\ jobs'[j] # None =>
           TerminalStays(jobs[j], jobs'[j])]_vars
  BY StepKeepsTerminal
<1> QED
  BY <1>1, <1>2, WellFormedAlways, OneRunAtATime, OneWriterAlways, PTL
     DEF Spec, TerminalIsFinal

-----------------------------------------------------------------------------
(* The hashes of a job that are stored or about to be.                      *)

Holds(h, j) ==
  /\ h # None
  /\ \/ jobs[j] = h
     \/ submit[j].snap = h
     \/ \E w \in Workers : worker[w].job = j /\ worker[w].snap = h
     \/ \E d \in Dismissers : dismiss[d].job = j /\ dismiss[d].snap = h

\* All of them are one hash, but for the mark of a request that dismisses it.
LEMMA HoldersAgree ==
  ASSUME WellFormed, Exclusive, OneWriter, NEW j \in Jobs,
         NEW g, NEW h, Holds(g, j), Holds(h, j)
  PROVE  /\ UpToDismissal(g) = UpToDismissal(h)
         /\ g \in Job /\ h \in Job /\ ~Unsent(j)
<1>1. ASSUME NEW x, Holds(x, j) PROVE x \in Job /\ ~Unsent(j)
  <2>1. CASE jobs[j] = x
    BY <1>1, <2>1 DEF Holds, WellFormed, TypeOK, OneWriter, JobOK
  <2>2. CASE submit[j].snap = x
    BY <1>1, <2>2 DEF Holds, WellFormed, TypeOK, Submission, SubmitOK, Unsent
  <2>3. ASSUME NEW w \in Workers, worker[w].job = j, worker[w].snap = x
        PROVE  x \in Job /\ ~Unsent(j)
    BY <1>1, <2>3 DEF Holds, WellFormed, TypeOK, WorkerState, SubmitOK, Delivered,
                      Running, Unsent
  <2>4. ASSUME NEW d \in Dismissers, dismiss[d].job = j, dismiss[d].snap = x
        PROVE  x \in Job /\ ~Unsent(j)
    BY <1>1, <2>4 DEF Holds, WellFormed, TypeOK, Dismissal, OneWriter, Dismissing
  <2> QED
    BY <1>1, <2>1, <2>2, <2>3, <2>4 DEF Holds
<1>2. CASE \E w \in Workers : worker[w].job = j /\ worker[w].snap # None
  <2>1. PICK w \in Workers : worker[w].job = j /\ worker[w].snap # None
    BY <1>2
  <2>2. /\ Owned(j) /\ submit[j].snap = None
        /\ \A x \in Workers : worker[x].job = j => x = w
        /\ jobs[j] \in {None, worker[w].snap}
    BY <2>1 DEF WellFormed, WorkerOK, SubmitOK, Delivered, Running, Exclusive,
                OneWriter, Reader, Owned, Active, UpdatePc
  <2>3. \A d \in Dismissers : dismiss[d].job = j => dismiss[d].snap = None
    BY <2>2 DEF OneWriter, Dismissing
  <2>4. g = worker[w].snap /\ h = worker[w].snap
    BY <2>2, <2>3 DEF Holds
  <2> QED
    BY <1>1, <2>4
<1>3. CASE submit[j].snap # None
  <2>1. Owned(j) /\ jobs[j] \in {None, submit[j].snap}
    BY <1>3 DEF WellFormed, SubmitOK, OneWriter, Reader, Owned
  <2>2. /\ \A w \in Workers : worker[w].job # j
        /\ \A d \in Dismissers : dismiss[d].job = j => dismiss[d].snap = None
    BY <1>3, <2>1 DEF WellFormed, SubmitOK, Delivered, Running, OneWriter, Dismissing
  <2>3. g = submit[j].snap /\ h = submit[j].snap
    BY <2>1, <2>2 DEF Holds
  <2> QED
    BY <1>1, <2>3
<1>4. CASE /\ submit[j].snap = None
           /\ \A w \in Workers : worker[w].job = j => worker[w].snap = None
  <2>1. ASSUME NEW x, Holds(x, j)
        PROVE  x = jobs[j] \/ \E d \in Dismissers : dismiss[d].job = j /\ dismiss[d].snap = x
    BY <1>4, <2>1 DEF Holds
  <2>2. g # None /\ h # None
    BY DEF Holds
  <2>3. UpToDismissal(g) = UpToDismissal(h)
    BY <2>1, <2>2 DEF OneWriter, Dismissing, Agree
  <2> QED
    BY <1>1, <2>3
<1> QED
  BY <1>2, <1>3, <1>4

HashesAgree ==
  \A j \in Jobs : \A g, h : Holds(g, j) /\ Holds(h, j) =>
    /\ UpToDismissal(g) = UpToDismissal(h)
    /\ g \in Job /\ h \in Job /\ ~Unsent(j)

LEMMA AllHoldersAgree == WellFormed /\ Exclusive /\ OneWriter => HashesAgree
BY HoldersAgree DEF HashesAgree

LEMMA SameUpToDismissal ==
  ASSUME NEW g \in Job, NEW h \in Job, UpToDismissal(g) = UpToDismissal(h)
  PROVE  g.status = h.status /\ g.result_key = h.result_key
<1> DEFINE a == UpToDismissal(g)
           b == UpToDismissal(h)
<1>1. /\ a.status = g.status /\ a.result_key = g.result_key
      /\ b.status = h.status /\ b.result_key = h.result_key
  BY DEF UpToDismissal, Job
<1> HIDE DEF a, b
<1>2. a = b
  BY DEF a, b
<1> QED
  BY <1>1, <1>2

\* A process is about to write the same hash of k, or none, after a step.
Stays(k) ==
  /\ jobs'[k] = jobs[k]
  /\ \A h : Holds(h, k)' <=> Holds(h, k)
  /\ Unsent(k)' <=> Unsent(k)

\* Somebody lets go of the hash of k.
Drops(k) ==
  /\ jobs'[k] \in {None, jobs[k]}
  /\ \A h : Holds(h, k)' => Holds(h, k)
  /\ Unsent(k)' => Unsent(k)

LEMMA StaysDrops == ASSUME NEW k \in Jobs, Stays(k) PROVE Drops(k)
BY DEF Stays, Drops

\* The steps of a worker that write no job.
LEMMA WorkerHolds ==
  ASSUME WellFormed, NEW w \in Workers, WorkerStep(w), ~WriteStep(w)
  PROVE  /\ UNCHANGED <<jobs, submit, dismiss>>
         /\ \/ /\ worker'[w].snap = worker[w].snap
               /\ worker'[w].job = worker[w].job \/ worker[w].snap = None
            \/ /\ worker[w].snap = None /\ worker'[w].snap = jobs[worker[w].job]
               /\ worker'[w].job = worker[w].job
<1>1. worker[w] \in WorkerState /\ worker \in [Workers -> WorkerState] /\ WorkerOK(w)
  BY DEF WellFormed, TypeOK
<1>2. UNCHANGED <<jobs, submit, dismiss>>
  BY Zenon DEF WorkerStep, Pickup, Resolve, CheckRunnable, ReadJob, Download,
    Encode, UploadResult, UploadThumbnail, UploadClips, UploadFails, PublishVideo,
    FailVideo, Ack
<1> DEFINE Kept == worker'[w].snap = worker[w].snap
                   /\ (worker'[w].job = worker[w].job \/ worker[w].snap = None)
<1>3. ASSUME NEW r, worker' = [worker EXCEPT ![w] = r],
             r.snap = worker[w].snap,
             r.job = worker[w].job \/ worker[w].snap = None
      PROVE  Kept
  BY <1>1, <1>3
<1>4. ASSUME NEW pc, Goto(w, pc) PROVE Kept
  <2> DEFINE r == [worker[w] EXCEPT !.pc = pc]
  <2>1. r.snap = worker[w].snap /\ r.job = worker[w].job
    BY <1>1 DEF WorkerState
  <2>2. worker' = [worker EXCEPT ![w] = r]
    BY <1>4 DEF Goto
  <2> HIDE DEF r
  <2> QED
    BY <1>3, <2>1, <2>2
<1>5. CASE \/ CheckRunnable(w) \/ Download(w) \/ UploadThumbnail(w)
           \/ UploadFails(w) \/ FailVideo(w)
  BY <1>2, <1>4, <1>5 DEF CheckRunnable, Download, UploadThumbnail, UploadFails, FailVideo
<1>6. CASE Resolve(w)
  <2>1. ASSUME NEW p, worker' = [worker EXCEPT ![w] =
                        [worker[w] EXCEPT !.pc = "resolved", !.profile = p]]
        PROVE  Kept
    <3> DEFINE r == [worker[w] EXCEPT !.pc = "resolved", !.profile = p]
    <3>1. r.snap = worker[w].snap /\ r.job = worker[w].job
      BY <1>1 DEF WorkerState
    <3> QED
      BY <1>3, <2>1, <3>1
  <2>2. Kept
    BY <1>4, <1>6, <2>1, Zenon DEF Resolve
  <2> QED
    BY <1>2, <2>2
<1>7. CASE ReadJob(w)
  <2> DEFINE r == [worker[w] EXCEPT !.snap = jobs[worker[w].job]]
  <2>1. r.snap = jobs[worker[w].job] /\ r.job = worker[w].job
    BY <1>1 DEF WorkerState
  <2>2. worker[w].snap = None /\ (Goto(w, "ack") \/ worker'[w] = r)
    BY <1>1, <1>7 DEF ReadJob, Goto
  <2> QED
    BY <1>2, <1>4, <2>1, <2>2
<1>8. CASE Encode(w)
  <2> DEFINE r == [worker[w] EXCEPT !.pc = "progress", !.ticks = worker[w].ticks + 1]
  <2>1. r.snap = worker[w].snap /\ r.job = worker[w].job
    BY <1>1 DEF WorkerState
  <2>2. worker' = [worker EXCEPT ![w] = r] \/ \E pc : Goto(w, pc)
    BY <1>8 DEF Encode
  <2> HIDE DEF r
  <2> QED
    BY <1>2, <1>3, <1>4, <2>1, <2>2
<1>9. CASE UploadResult(w)
  <2> DEFINE key == <<worker[w].job, "result", uploads[worker[w].job] + 1>>
             r == [worker[w] EXCEPT !.pc = "thumbnail", !.result_key = key]
  <2>1. r.snap = worker[w].snap /\ r.job = worker[w].job
    BY <1>1 DEF WorkerState
  <2>2. worker' = [worker EXCEPT ![w] = r]
    BY <1>9 DEF UploadResult
  <2> HIDE DEF r
  <2> QED
    BY <1>2, <1>3, <2>1, <2>2
<1>10. CASE UploadClips(w)
  <2> DEFINE r == [worker[w] EXCEPT !.pc = "name", !.attempt = 0]
  <2>1. r.snap = worker[w].snap /\ r.job = worker[w].job
    BY <1>1 DEF WorkerState
  <2>2. worker' = [worker EXCEPT ![w] = r]
    BY <1>10 DEF UploadClips
  <2> HIDE DEF r
  <2> QED
    BY <1>2, <1>3, <2>1, <2>2
<1>11. CASE PublishVideo(w)
  <2> DEFINE pc == IF worker[w].attempt + 1 < MaxDisplayNameAttempts
                   THEN "name" ELSE "fail"
             r == [worker[w] EXCEPT !.attempt = worker[w].attempt + 1, !.pc = pc]
  <2>1. r.snap = worker[w].snap /\ r.job = worker[w].job
    BY <1>1 DEF WorkerState
  <2>2. NextName(w) => worker' = [worker EXCEPT ![w] = r]
    BY DEF NextName
  <2> HIDE DEF r
  <2>3. NextName(w) \/ \E next : Goto(w, next)
    BY <1>11 DEF PublishVideo
  <2> QED
    BY <1>2, <1>3, <1>4, <2>1, <2>2, <2>3
<1>12. CASE Ack(w)
  <2>1. worker[w].snap = None
    BY <1>1, <1>12 DEF Ack, WorkerOK, UpdatePc
  <2> QED
    BY <1>1, <1>2, <1>12, <2>1 DEF Ack, IdleWorker
<1>13. ASSUME NEW j \in Jobs, Pickup(w, j) PROVE Kept
  <2> DEFINE r == [IdleWorker EXCEPT
                     !.pc = IF jobs[j] = None THEN "ack" ELSE "resolve", !.job = j]
  <2>1. worker[w].snap = None /\ r.snap = None
    BY <1>1, <1>13 DEF Pickup, WorkerOK, UpdatePc, IdleWorker
  <2>2. worker' = [worker EXCEPT ![w] = r]
    BY <1>13 DEF Pickup
  <2> HIDE DEF r
  <2> QED
    BY <1>3, <2>1, <2>2
<1> QED
  BY <1>2, <1>5, <1>6, <1>7, <1>8, <1>9, <1>10, <1>11, <1>12, <1>13 DEF WorkerStep

\* The two halves of a step that ends an update: g was about to be written, or
\* stored, and what is written now replaces it.
Replaces(g, j) ==
  \/ /\ Pending(g) /\ jobs'[j].status = g.status /\ ~jobs'[j].dismissed
  \/ /\ \E w \in Workers : worker[w].job = j /\ StartRunning(w)
     /\ jobs'[j].status = "running" /\ ~jobs'[j].dismissed
  \/ /\ \E w \in Workers :
          /\ worker[w].job = j /\ CompleteJob(w)
          /\ jobs'[j].result_key = worker[w].result_key
     /\ jobs'[j].status = "done" /\ ~jobs'[j].dismissed
  \/ /\ FailDuplicate(j) \/ \E w \in Workers : worker[w].job = j /\ RecordFailure(w)
     /\ Pending(g) /\ jobs'[j].status = "failed" /\ ~jobs'[j].dismissed
  \/ /\ g.status \in Dismissable /\ jobs'[j].status = g.status
     /\ jobs'[j].result_key = g.result_key /\ jobs'[j].dismissed

\* Somebody writes the hash of j.
Writes(j) ==
  /\ jobs'[j] # None /\ ~Unsent(j)'
  /\ \/ /\ CreateJob(j) /\ Unsent(j)
        /\ jobs'[j].status = "queued" /\ ~jobs'[j].dismissed
     \/ \E g : Holds(g, j) /\ Replaces(g, j)

\* What a submission does to the hash of its own job.
LEMMA SubmissionHashes ==
  ASSUME WellFormed, OneWriter, NEW j \in Jobs, SubmitStep(j) \/ SubmitDies(j)
  PROVE  /\ \A k \in Jobs \ {j} : Stays(k)
         /\ Stays(j) \/ Drops(j) \/ Writes(j)
<1>1. /\ jobs \in [Jobs -> Job \cup {None}] /\ submit[j] \in Submission
      /\ submit \in [Jobs -> Submission]
      /\ SubmitMoves(j) /\ UNCHANGED <<worker, dismiss>>
  BY SubmissionMoves, SubmissionVideos DEF WellFormed, TypeOK
<1>2. ASSUME NEW k \in Jobs, submit'[k].snap = submit[k].snap, jobs'[k] = jobs[k]
      PROVE  \A h : Holds(h, k)' <=> Holds(h, k)
  BY <1>1, <1>2 DEF Holds
<1>3. ASSUME NEW k \in Jobs \ {j} PROVE Stays(k)
  <2>1. submit'[k] = submit[k]
    BY <1>1 DEF SubmitMoves
  <2>2. jobs'[k] = jobs[k]
    BY <1>1 DEF SubmitStep, Submit, CreateJob, CreateVideo, ReadDuplicate,
                FailDuplicate, Send, SubmitDies
  <2> QED
    BY <1>2, <2>1, <2>2 DEF Stays, Unsent
<1>4. ASSUME NEW pc, submit' = [submit EXCEPT ![j].pc = pc]
      PROVE  submit'[j].pc = pc /\ submit'[j].snap = submit[j].snap
  BY <1>1, <1>4 DEF Submission
<1>5. CASE CreateVideo(j) \/ Send(j)
  <2>1. jobs' = jobs /\ submit'[j].snap = submit[j].snap
    BY <1>4, <1>5 DEF CreateVideo, Send
  <2>2. ~Unsent(j) /\ ~Unsent(j)'
    BY <1>4, <1>5 DEF CreateVideo, Send, Unsent
  <2> QED
    BY <1>2, <1>3, <2>1, <2>2 DEF Stays
<1>6. CASE ReadDuplicate(j)
  <2>1. jobs' = jobs /\ submit[j].snap = None /\ ~Unsent(j) /\ ~Unsent(j)'
    BY <1>1, <1>6 DEF ReadDuplicate, Unsent, Submission
  <2>2. submit'[j].snap = jobs[j]
    BY <1>1, <1>6 DEF ReadDuplicate, Submission
  <2>3. \A h : Holds(h, j)' <=> Holds(h, j)
    BY <1>1, <2>1, <2>2 DEF Holds
  <2> QED
    BY <1>3, <2>1, <2>3 DEF Stays
<1>7. CASE Submit(j) \/ SubmitDies(j)
  <2>1. jobs' = jobs
    BY <1>7 DEF Submit, SubmitDies
  <2>2. submit'[j].snap \in {None, submit[j].snap}
    <3>1. ASSUME NEW r, submit' = [submit EXCEPT ![j] = r], r.snap = None
          PROVE  submit'[j].snap = None
      BY <1>1, <3>1
    <3>2. CASE SubmitDies(j)
      <4> DEFINE r == [submit[j] EXCEPT !.pc = "died", !.snap = None]
      <4>1. r.snap = None
        BY <1>1 DEF Submission
      <4>2. submit' = [submit EXCEPT ![j] = r]
        BY <3>2, Zenon DEF SubmitDies
      <4> QED
        BY <3>1, <4>1, <4>2
    <3>3. CASE Submit(j)
      BY <1>1, <1>4, <3>1, <3>3 DEF Submit
    <3> QED
      BY <1>7, <3>2, <3>3
  <2>3. Unsent(j)' => Unsent(j)
    <3>1. CASE Submit(j)
      BY <3>1 DEF Submit, Unsent
    <3>2. CASE SubmitDies(j)
      <4> DEFINE r == [submit[j] EXCEPT !.pc = "died", !.snap = None]
      <4>1. r.pc = "died"
        BY <1>1 DEF Submission
      <4>2. submit' = [submit EXCEPT ![j] = r]
        BY <3>2, Zenon DEF SubmitDies
      <4> QED
        BY <1>1, <4>1, <4>2 DEF Unsent
    <3> QED
      BY <1>7, <3>1, <3>2
  <2>4. \A h : Holds(h, j)' => Holds(h, j)
    BY <1>1, <2>1, <2>2 DEF Holds
  <2> QED
    BY <1>3, <2>1, <2>3, <2>4 DEF Drops
<1>8. CASE CreateJob(j)
  <2>1. jobs'[j] = NewJob(submit[j].file, submit[j].profile, submit[j].max_quality)
    BY <1>1, <1>8 DEF CreateJob
  <2>2. jobs'[j] \in Job
    BY <1>1, <1>8, <2>1 DEF CreateJob, WellFormed, SubmitOK, NewJob, Job, Submission,
                            JobStatus
  <2>3. submit[j].pc = "create_job" /\ submit' = [submit EXCEPT ![j].pc = "create_video"]
    BY <1>8 DEF CreateJob
  <2>4. Unsent(j) /\ ~Unsent(j)'
    <3>1. submit'[j].pc = "create_video"
      BY <1>1, <2>3 DEF Submission
    <3> QED
      BY <2>3, <3>1 DEF Unsent
  <2>5. jobs'[j].status = "queued" /\ ~jobs'[j].dismissed
    BY <2>1 DEF NewJob
  <2>6. jobs'[j] # None
    BY <2>2, AbsenceAssumption
  <2> QED
    BY <1>3, <1>8, <2>4, <2>5, <2>6 DEF Writes
<1>9. CASE FailDuplicate(j)
  <2> DEFINE g == submit[j].snap
             failed == [g EXCEPT !.status = "failed", !.error = TRUE]
  <2>1. g \in Job /\ Holds(g, j) /\ Pending(g)
    BY <1>1, <1>9 DEF FailDuplicate, Submission, Holds, OneWriter, Reader
  <2>2. jobs'[j] = failed
    BY <1>1, <1>9 DEF FailDuplicate
  <2>3. failed.status = "failed" /\ ~failed.dismissed /\ failed \in Job
    BY <2>1 DEF Job, JobStatus, Pending
  <2>4. ~Unsent(j)'
    <3> DEFINE r == [submit[j] EXCEPT !.pc = "rejected", !.snap = None]
    <3>1. r.pc = "rejected"
      BY <1>1 DEF Submission
    <3>2. submit' = [submit EXCEPT ![j] = r]
      BY <1>9, Zenon DEF FailDuplicate
    <3> QED
      BY <1>1, <3>1, <3>2 DEF Unsent
  <2> HIDE DEF g, failed
  <2> QED
    BY <1>3, <1>9, <2>1, <2>2, <2>3, <2>4, AbsenceAssumption DEF Writes, Replaces
<1> QED
  BY <1>5, <1>6, <1>7, <1>8, <1>9 DEF SubmitStep

\* What a worker does to the hash of the job it runs.
LEMMA WriteHashes ==
  ASSUME WellFormed, Exclusive, OneWriter, NEW w \in Workers, WriteStep(w)
  PROVE  \E j \in Jobs : Writes(j) /\ \A k \in Jobs \ {j} : Stays(k)
<1> DEFINE g == worker[w].snap
<1>1. /\ jobs \in [Jobs -> Job \cup {None}] /\ worker \in [Workers -> WorkerState]
      /\ worker[w] \in WorkerState /\ WorkerOK(w)
  BY DEF WellFormed, TypeOK
<1>2. g # None /\ worker[w].pc \in UpdatePc
  BY <1>1 DEF WriteStep, RecordResolved, StartRunning, StartProcessing,
     RecordProgress, StartUploading, CompleteJob, RecordFailure, WriteJob, WorkerOK
<1>0. worker[w].job \in Jobs /\ g \in Job /\ Pending(g)
  BY <1>1, <1>2 DEF WorkerOK, WorkerState, OneWriter, Reader, UpdatePc
<1>b. PICK j \in Jobs : j = worker[w].job
  BY <1>0
<1>3. worker[w].job = j /\ g \in Job /\ Pending(g)
  BY <1>0, <1>b
<1>4. Holds(g, j)
  BY <1>2, <1>3 DEF Holds
<1>5. ASSUME NEW at, NEW updated, NEW next, WriteJob(w, at, updated, next)
      PROVE  /\ jobs'[j] = updated /\ UNCHANGED <<submit, dismiss>>
             /\ \A k \in Jobs \ {j} : Stays(k)
  <2> DEFINE r == [worker[w] EXCEPT !.pc = next, !.snap = None]
  <2>1. /\ jobs' = [jobs EXCEPT ![j] = updated] /\ UNCHANGED <<submit, dismiss>>
        /\ worker' = [worker EXCEPT ![w] = r]
    BY <1>3, <1>5, Zenon DEF WriteJob
  <2>2. r.job = j
    BY <1>1, <1>3 DEF WorkerState
  <2> HIDE DEF r
  <2>3. ASSUME NEW k \in Jobs \ {j} PROVE Stays(k)
    <3>1. \A x \in Workers : worker[x].job = k => worker'[x] = worker[x]
      BY <1>1, <1>3, <2>1
    <3>2. \A x \in Workers : worker'[x].job = k => worker'[x] = worker[x]
      BY <1>1, <2>1, <2>2
    <3>3. \A h : Holds(h, k)' <=> Holds(h, k)
      BY <1>1, <2>1, <3>1, <3>2 DEF Holds
    <3> QED
      BY <1>1, <2>1, <3>3 DEF Stays, Unsent
  <2> QED
    BY <1>1, <1>3, <2>1, <2>3
<1>6. UNCHANGED <<submit, dismiss>> /\ \A k \in Jobs \ {j} : Stays(k)
  BY <1>5, Zenon DEF WriteStep, RecordResolved, StartRunning, StartProcessing,
     RecordProgress, StartUploading, CompleteJob, RecordFailure
<1>7. ~Unsent(j) /\ ~Unsent(j)'
  <2>1. Delivered(j) /\ SubmitOK(j)
    BY <1>3 DEF WellFormed, Delivered, Running
  <2>2. submit[j].pc = "accepted" /\ submit' = submit
    BY <1>6, <2>1 DEF SubmitOK
  <2> QED
    BY <2>2 DEF Unsent
<1>8. ASSUME jobs'[j] \in Job, Replaces(g, j) PROVE Writes(j)
  BY <1>4, <1>7, <1>8, AbsenceAssumption DEF Writes
<1>9. CASE CompleteJob(w)
  <2> DEFINE done == [g EXCEPT !.status = "done", !.stage = None,
                               !.result_key = worker[w].result_key]
  <2>1. jobs'[j] = done
    BY <1>5, <1>9, Zenon DEF CompleteJob
  <2>2. done.status = "done" /\ done.result_key = worker[w].result_key /\ ~done.dismissed
    BY <1>3 DEF Job, Pending
  <2>3. done \in Job
    BY <1>1, <1>3 DEF Job, JobStatus, WorkerState
  <2> HIDE DEF done, g
  <2> QED
    BY <1>3, <1>6, <1>8, <1>9, <2>1, <2>2, <2>3 DEF Replaces
<1>10. CASE RecordFailure(w)
  <2> DEFINE failed == [g EXCEPT !.status = "failed", !.error = TRUE]
  <2>1. jobs'[j] = failed
    BY <1>5, <1>10, Zenon DEF RecordFailure
  <2>2. failed.status = "failed" /\ ~failed.dismissed /\ failed \in Job
    BY <1>3 DEF Job, JobStatus, Pending
  <2> HIDE DEF failed, g
  <2> QED
    BY <1>3, <1>6, <1>8, <1>10, <2>1, <2>2 DEF Replaces
<1>11. CASE StartRunning(w)
  <2> DEFINE run == [g EXCEPT !.status = "running", !.stage = "downloading"]
  <2>1. jobs'[j] = run
    BY <1>5, <1>11, Zenon DEF StartRunning
  <2>2. run.status = "running" /\ ~run.dismissed /\ run \in Job
    BY <1>3 DEF Job, JobStatus, JobStage, Pending
  <2> HIDE DEF run, g
  <2> QED
    BY <1>3, <1>6, <1>8, <1>11, <2>1, <2>2 DEF Replaces
<1>12. CASE \/ RecordResolved(w) \/ StartProcessing(w) \/ RecordProgress(w)
            \/ StartUploading(w)
  <2> DEFINE resolved == [g EXCEPT !.resolved_profile = worker[w].profile]
             processing == [g EXCEPT !.stage = "processing"]
             uploading == [g EXCEPT !.stage = "uploading_result"]
  <2>1. jobs'[j] \in {g, resolved, processing, uploading}
    BY <1>5, <1>12, Zenon DEF RecordResolved, StartProcessing, RecordProgress, StartUploading
  <2>2. \A x \in {g, resolved, processing, uploading} :
          x \in Job /\ x.status = g.status /\ ~x.dismissed
    BY <1>1, <1>3 DEF Job, JobStage, WorkerState, Pending
  <2> HIDE DEF resolved, processing, uploading, g
  <2> QED
    BY <1>3, <1>6, <1>8, <2>1, <2>2 DEF Replaces
<1> QED
  BY <1>3, <1>6, <1>9, <1>10, <1>11, <1>12 DEF WriteStep

\* A step of a worker, whether it writes a job or not.
LEMMA WorkerHashes ==
  ASSUME WellFormed, Exclusive, OneWriter, NEW w \in Workers,
         WorkerStep(w) \/ Abort(w), ~WriteStep(w)
  PROVE  \/ \A k \in Jobs : Stays(k)
         \/ \E j \in Jobs : Drops(j) /\ \A k \in Jobs \ {j} : Stays(k)
<1>1. worker \in [Workers -> WorkerState] /\ WorkerOK(w) /\ worker[w] \in WorkerState
  BY DEF WellFormed, TypeOK
<1>2. \A x \in Workers \ {w} : worker'[x] = worker[x]
  BY OthersStay
<1>3. CASE WorkerStep(w)
  <2>1. /\ UNCHANGED <<jobs, submit, dismiss>>
        /\ \/ /\ worker'[w].snap = worker[w].snap
              /\ worker'[w].job = worker[w].job \/ worker[w].snap = None
           \/ /\ worker[w].snap = None /\ worker'[w].snap = jobs[worker[w].job]
              /\ worker'[w].job = worker[w].job
    BY <1>3, WorkerHolds
  <2>2. ASSUME NEW k \in Jobs, NEW h, h # None
        PROVE  Holds(h, k)' <=> Holds(h, k)
    <3>1. (\E x \in Workers : worker'[x].job = k /\ worker'[x].snap = h)
            => jobs[k] = h \/ \E x \in Workers : worker[x].job = k /\ worker[x].snap = h
      BY <1>2, <2>1, <2>2
    <3>2. (\E x \in Workers : worker[x].job = k /\ worker[x].snap = h)
            => \E x \in Workers : worker'[x].job = k /\ worker'[x].snap = h
      BY <1>2, <2>1, <2>2
    <3> QED
      BY <2>1, <3>1, <3>2 DEF Holds
  <2>3. ASSUME NEW k \in Jobs PROVE Stays(k)
    BY <2>1, <2>2 DEF Stays, Unsent, Holds
  <2> QED
    BY <2>3
<1>4. CASE Abort(w)
  <2> DEFINE r == [worker[w] EXCEPT !.pc = "ack", !.snap = None]
  <2>0. worker[w].job \in Jobs /\ r.snap = None /\ r.job = worker[w].job
    BY <1>1, <1>4 DEF WorkerState, WorkerOK, Abort
  <2>c. PICK j \in Jobs : j = worker[w].job
    BY <2>0
  <2>1. r.snap = None /\ r.job = j /\ worker[w].job = j
    BY <2>0, <2>c
  <2>2. worker' = [worker EXCEPT ![w] = r] /\ UNCHANGED <<jobs, submit, dismiss>>
    BY <1>4, Zenon DEF Abort
  <2> HIDE DEF r
  <2>3. worker'[w].snap = None /\ worker'[w].job = j
    BY <1>1, <2>1, <2>2
  <2>4. ASSUME NEW k \in Jobs, NEW h, Holds(h, k)' PROVE Holds(h, k)
    BY <1>2, <2>1, <2>2, <2>3, <2>4 DEF Holds
  <2>5. ASSUME NEW k \in Jobs \ {j}, NEW h, Holds(h, k) PROVE Holds(h, k)'
    BY <1>2, <2>1, <2>2, <2>5 DEF Holds
  <2>6. Drops(j)
    BY <2>1, <2>2, <2>4 DEF Drops, Unsent
  <2>7. ASSUME NEW k \in Jobs \ {j} PROVE Stays(k)
    <3>1. \A h : Holds(h, k)' <=> Holds(h, k)
      BY <2>4, <2>5
    <3> QED
      BY <2>2, <3>1 DEF Stays, Unsent
  <2> QED
    BY <2>1, <2>6, <2>7
<1> QED
  BY <1>3, <1>4

\* A dismissing request writes the hash of a job that is over.
LEMMA DismissHashes ==
  ASSUME WellFormed, OneWriter, NEW d \in Dismissers, DismissStep(d)
  PROVE  \/ \A k \in Jobs : Stays(k)
         \/ \E j \in Jobs : Writes(j) /\ \A k \in Jobs \ {j} : Stays(k)
<1>1. /\ dismiss \in [Dismissers -> Dismissal] /\ dismiss[d] \in Dismissal
      /\ jobs \in [Jobs -> Job \cup {None}] /\ DismissOK(d) /\ Dismissing(d)
  BY DEF WellFormed, TypeOK, OneWriter
<1>2. UNCHANGED <<submit, worker>>
  BY Zenon DEF DismissStep, DismissAll, DismissOne, ScanJob, ReadDismissed, WriteDismissed
<1>3. CASE WriteDismissed(d)
  <2> DEFINE g == dismiss[d].snap
             todo == dismiss[d].todo \ {dismiss[d].job}
             r == [IdleDismisser EXCEPT !.todo = todo,
                                        !.pc = IF todo = {} THEN "idle" ELSE "update"]
  <2>0. dismiss[d].job \in Jobs
    BY <1>1, <1>3 DEF WriteDismissed, DismissOK
  <2>c. PICK j \in Jobs : j = dismiss[d].job
    BY <2>0
  <2>1. /\ g # None /\ dismiss[d].job = j /\ g \in Job /\ Holds(g, j)
        /\ g.status \in Dismissable /\ ~Unsent(j)
    BY <1>1, <1>3, <2>c DEF WriteDismissed, DismissOK, Dismissal, Holds, Dismissing
  <2>2. /\ jobs' = [jobs EXCEPT ![j] = UpToDismissal(g)]
        /\ dismiss' = [dismiss EXCEPT ![d] = r]
    BY <1>3, <2>1, Zenon DEF WriteDismissed, UpToDismissal
  <2>3. r.snap = None
    BY DEF IdleDismisser
  <2>4. /\ UpToDismissal(g) \in Job /\ UpToDismissal(g).dismissed
        /\ UpToDismissal(g).status = g.status
        /\ UpToDismissal(g).result_key = g.result_key
    BY <2>1 DEF UpToDismissal, Job
  <2> HIDE DEF r
  <2>5. jobs'[j] = UpToDismissal(g) /\ \A k \in Jobs \ {j} : jobs'[k] = jobs[k]
    BY <1>1, <2>1, <2>2
  <2>6. ASSUME NEW k \in Jobs \ {j} PROVE Stays(k)
    <3>1. dismiss'[d].snap = None /\ \A e \in Dismissers \ {d} : dismiss'[e] = dismiss[e]
      BY <1>1, <2>2, <2>3
    <3>2. \A h : Holds(h, k)' <=> Holds(h, k)
      BY <1>2, <2>1, <2>5, <3>1 DEF Holds
    <3> QED
      BY <1>2, <2>5, <3>2 DEF Stays, Unsent
  <2>7. Replaces(g, j)
    BY <2>1, <2>4, <2>5 DEF Replaces
  <2>8. Writes(j)
    BY <1>2, <2>1, <2>4, <2>5, <2>7, AbsenceAssumption DEF Writes, Unsent
  <2> QED
    BY <2>1, <2>6, <2>8
<1>4. CASE ~WriteDismissed(d)
  <2>1. jobs' = jobs
    BY <1>4, Zenon DEF DismissStep, DismissAll, DismissOne, ScanJob, ReadDismissed
  <2> DEFINE Quiet == dismiss'[d].snap = None \/ dismiss'[d].snap = jobs[dismiss'[d].job]
  <2>2. \A e \in Dismissers \ {d} : dismiss'[e] = dismiss[e]
    BY <1>1, <1>4, Zenon DEF DismissStep, DismissAll, DismissOne, ScanJob, ReadDismissed
  <2>3. dismiss[d].snap = None
    BY <1>1, <1>4 DEF DismissStep, DismissAll, DismissOne, ScanJob, ReadDismissed, DismissOK
  <2>4. ASSUME NEW r, dismiss' = [dismiss EXCEPT ![d] = r],
               r.snap = None \/ r.snap = jobs[r.job]
        PROVE  Quiet
    BY <1>1, <2>4
  <2> HIDE DEF Quiet
  <2>5. ASSUME DismissAll(d) PROVE Quiet
    <3> DEFINE r == [dismiss[d] EXCEPT !.pc = "scan", !.unread = Jobs]
    <3>1. r.snap = dismiss[d].snap
      BY <1>1 DEF Dismissal
    <3>2. dismiss' = [dismiss EXCEPT ![d] = r]
      BY <2>5, Zenon DEF DismissAll
    <3> HIDE DEF r
    <3> QED
      BY <2>3, <2>4, <3>1, <3>2
  <2>6. ASSUME NEW j \in Jobs, DismissOne(d, j) PROVE Quiet
    <3> DEFINE r == [dismiss[d] EXCEPT !.pc = "update", !.todo = {j}]
    <3>1. r.snap = dismiss[d].snap
      BY <1>1 DEF Dismissal
    <3>2. dismiss' = [dismiss EXCEPT ![d] = r]
      BY <2>6, Zenon DEF DismissOne
    <3> HIDE DEF r
    <3> QED
      BY <2>3, <2>4, <3>1, <3>2
  <2>7. ASSUME NEW j \in Jobs, ScanJob(d, j) PROVE Quiet
    <3> DEFINE unread == dismiss[d].unread \ {j}
               todo == dismiss[d].todo \cup {k \in {j} : Eligible(k)}
               pc == IF unread # {} THEN "scan"
                     ELSE IF todo # {} THEN "update" ELSE "idle"
               r == [dismiss[d] EXCEPT !.unread = unread, !.todo = todo, !.pc = pc]
    <3>1. r.snap = dismiss[d].snap
      BY <1>1 DEF Dismissal
    <3>2. dismiss' = [dismiss EXCEPT ![d] = r]
      BY <2>7, Zenon DEF ScanJob
    <3> HIDE DEF r
    <3> QED
      BY <2>3, <2>4, <3>1, <3>2
  <2>8. ASSUME NEW j \in Jobs, ReadDismissed(d, j) PROVE Quiet
    <3> DEFINE r == [dismiss[d] EXCEPT !.job = j, !.snap = jobs[j]]
    <3>1. r.snap = jobs[j] /\ r.job = j /\ IdleDismisser.snap = None
      BY <1>1 DEF Dismissal, IdleDismisser
    <3>2. dismiss' = [dismiss EXCEPT ![d] = r] \/ dismiss' = [dismiss EXCEPT ![d] = IdleDismisser]
      BY <2>8, Zenon DEF ReadDismissed
    <3> HIDE DEF r
    <3> QED
      BY <2>4, <3>1, <3>2
  <2>9. Quiet
    BY <1>4, <2>5, <2>6, <2>7, <2>8 DEF DismissStep
  <2>10. ASSUME NEW k \in Jobs PROVE Stays(k)
    <3>1. \A h : Holds(h, k)' <=> Holds(h, k)
      BY <1>2, <2>1, <2>2, <2>3, <2>9 DEF Holds, Quiet
    <3> QED
      BY <1>2, <2>1, <3>1 DEF Stays, Unsent
  <2> QED
    BY <2>10
<1> QED
  BY <1>3, <1>4

\* Every step writes, drops or keeps the hash of one job, and keeps the others'.
LEMMA NextHashes ==
  ASSUME WellFormed, Exclusive, OneWriter, [Next]_vars
  PROVE  \/ \A k \in Jobs : Stays(k)
         \/ \E j \in Jobs : /\ Drops(j) \/ Writes(j)
                           /\ \A k \in Jobs \ {j} : Stays(k)
<1>1. ASSUME NEW j \in Jobs, SubmitStep(j) \/ SubmitDies(j)
      PROVE  /\ \A k \in Jobs \ {j} : Stays(k)
             /\ Stays(j) \/ Drops(j) \/ Writes(j)
  BY <1>1, SubmissionHashes
<1>2. ASSUME NEW j \in Jobs, Expire(j)
      PROVE  Drops(j) /\ \A k \in Jobs \ {j} : Stays(k)
  <2>1. /\ UNCHANGED <<submit, worker, dismiss>> /\ jobs'[j] = None
        /\ \A k \in Jobs \ {j} : jobs'[k] = jobs[k]
    BY <1>2 DEF Expire, WellFormed, TypeOK
  <2>2. \A h : Holds(h, j)' => Holds(h, j)
    BY <2>1 DEF Holds
  <2>3. \A k \in Jobs \ {j} : \A h : Holds(h, k)' <=> Holds(h, k)
    BY <2>1 DEF Holds
  <2> QED
    BY <2>1, <2>2, <2>3 DEF Drops, Stays, Unsent
<1>3. ASSUME NEW w \in Workers, Crash(w) PROVE FALSE
  BY <1>3 DEF Crash, OneWriter
<1>4. CASE UNCHANGED vars
  <2>1. UNCHANGED <<jobs, submit, worker, dismiss>>
    BY <1>4 DEF vars
  <2>2. \A k \in Jobs : \A h : Holds(h, k)' <=> Holds(h, k)
    BY <2>1 DEF Holds
  <2> QED
    BY <2>1, <2>2 DEF Stays, Unsent
<1> QED
  BY <1>1, <1>2, <1>3, <1>4, WriteHashes, WorkerHashes, DismissHashes DEF Next

-----------------------------------------------------------------------------
(* What the hashes of a job say at each point of its life.                  *)

\* How a worker came to where it is with job j.
LEMMA PathOfWorker ==
  ASSUME WellFormed, OneWriter, [Next]_vars, NEW w \in Workers, NEW j \in Jobs,
         worker'[w].job = j
  PROVE  \/ worker'[w] = worker[w]
         \/ Continues(w) /\ worker[w].job = j /\ (WorkerStep(w) \/ Abort(w))
         \/ j \in queue /\ worker'[w].pc \in {"resolve", "ack"}
<1>1. ASSUME NEW x \in Workers, WorkerStep(x) \/ Abort(x) \/ Crash(x), x # w
      PROVE  worker'[w] = worker[w]
  BY <1>1, OthersStay
<1>2. ASSUME Crash(w) PROVE FALSE
  BY <1>2 DEF Crash, OneWriter
<1>3. ASSUME Ack(w) PROVE FALSE
  BY <1>3, StoresAssumption DEF Ack, IdleWorker, WellFormed, TypeOK
<1>4. ASSUME NEW i \in Jobs, Pickup(w, i)
      PROVE  j \in queue /\ worker'[w].pc \in {"resolve", "ack"}
  <2> DEFINE r == [IdleWorker EXCEPT
                     !.pc = IF jobs[i] = None THEN "ack" ELSE "resolve", !.job = i]
  <2>1. r.pc \in {"resolve", "ack"} /\ r.job = i
    BY DEF IdleWorker
  <2>2. worker'[w] = r /\ i \in queue
    BY <1>4 DEF Pickup, WellFormed, TypeOK
  <2> QED
    BY <2>1, <2>2
<1>5. ASSUME WorkerStep(w) \/ Abort(w)
      PROVE  \/ Continues(w) /\ worker[w].job = j
             \/ j \in queue /\ worker'[w].pc \in {"resolve", "ack"}
  BY <1>3, <1>4, <1>5, WorkerContinues DEF Continues
<1>6. ASSUME NEW i \in Jobs, SubmitStep(i) \/ SubmitDies(i)
      PROVE  worker'[w] = worker[w]
  BY <1>6, SubmissionVideos
<1> QED
  BY <1>1, <1>2, <1>5, <1>6, OtherSteps

At(j, pcs) == \E w \in Workers : worker[w].job = j /\ worker[w].pc \in pcs

\* Job j exists, and its run has not been recorded as started ...
Fresh(j) ==
  \/ submit[j].pc \in {"create_video", "duplicate", "send"}
  \/ j \in queue
  \/ At(j, {"resolve", "resolved", "check", "start"})

\* ... or its run is on, or is over and the video not failed yet.
UnderwayPc == {"download", "processing", "encode", "progress", "uploading",
               "result", "thumbnail", "clips", "name", "done"}
Underway(j) == At(j, UnderwayPc)
Failing(j) == At(j, {"fail_video"})

Phase(j) ==
  \A h : Holds(h, j) =>
    /\ Fresh(j) => h.status = "queued"
    /\ Underway(j) => h.status = "running"
    /\ Failing(j) => h.status = "failed"

Phases == \A j \in Jobs : Phase(j)

\* How a job enters each phase.
LEMMA PhaseEntered ==
  ASSUME WellFormed, OneWriter, [Next]_vars, NEW j \in Jobs
  PROVE  /\ Fresh(j)' => Fresh(j) \/ CreateJob(j)
         /\ Underway(j)' =>
              Underway(j) \/ \E w \in Workers : worker[w].job = j /\ StartRunning(w)
         /\ Failing(j)' =>
              Failing(j) \/ \E w \in Workers : worker[w].job = j /\ RecordFailure(w)
<1>1. submit'[j].pc \in {"create_video", "duplicate", "send"} => Fresh(j) \/ CreateJob(j)
  <2>1. ASSUME NEW i \in Jobs, SubmitStep(i) \/ SubmitDies(i)
        PROVE  submit'[j] = submit[j] \/ SubmitMoves(j)
    <3>1. SubmitMoves(i)
      BY <2>1, SubmissionMoves
    <3> QED
      BY <3>1 DEF SubmitMoves
  <2>2. ASSUME NEW w \in Workers, WorkerStep(w) \/ Abort(w) \/ Crash(w)
        PROVE  submit' = submit
    BY <2>2, Zenon DEF WorkerStep, Pickup, Resolve, CheckRunnable, ReadJob, Download,
       Encode, UploadResult, UploadThumbnail, UploadClips, UploadFails, PublishVideo,
       FailVideo, Ack, Abort, Crash, WriteStep, WriteJob, RecordResolved,
       StartRunning, StartProcessing, RecordProgress, StartUploading, CompleteJob,
       RecordFailure
  <2>3. submit'[j] = submit[j] \/ SubmitMoves(j)
    BY <2>1, <2>2, OtherSteps
  <2> QED
    BY <2>3 DEF SubmitMoves, Fresh
<1>2. j \in queue' => Fresh(j)
  <2>1. ASSUME NEW i \in Jobs, SubmitStep(i) \/ SubmitDies(i), j \in queue', j \notin queue
        PROVE  Fresh(j)
    <3>1. i = j /\ Send(i)
      BY <2>1 DEF SubmitStep, Submit, CreateJob, CreateVideo, ReadDuplicate,
                  FailDuplicate, Send, SubmitDies
    <3> QED
      BY <3>1 DEF Send, Fresh
  <2>2. ASSUME NEW w \in Workers, WorkerStep(w) \/ Abort(w) PROVE queue' \subseteq queue
    BY <2>2, WorkerStepKeepsRuns DEF KeepsRuns, Ack, Pickup
  <2>3. ASSUME NEW w \in Workers, Crash(w) PROVE FALSE
    BY <2>3 DEF Crash, OneWriter
  <2> QED
    BY <2>1, <2>2, <2>3, OtherSteps DEF Fresh
<1>3. ASSUME NEW w \in Workers, worker'[w].job = j,
             worker'[w].pc \in {"resolve", "resolved", "check", "start"}
      PROVE  Fresh(j)
  BY <1>3, PathOfWorker DEF Continues, Flow, Fresh, At
<1>4. ASSUME NEW w \in Workers, worker'[w].job = j, worker'[w].pc \in UnderwayPc
      PROVE  Underway(j) \/ (worker[w].job = j /\ StartRunning(w))
  BY <1>4, PathOfWorker DEF Continues, Flow, Underway, At, UnderwayPc
<1>5. ASSUME NEW w \in Workers, worker'[w].job = j, worker'[w].pc = "fail_video"
      PROVE  Failing(j) \/ (worker[w].job = j /\ RecordFailure(w))
  BY <1>5, PathOfWorker DEF Continues, Flow, Failing, At
<1> QED
  BY <1>1, <1>2, <1>3, <1>4, <1>5 DEF Fresh, Underway, Failing, At

\* With a worker, a job is nowhere else.
LEMMA SoleRun ==
  ASSUME WellFormed, Exclusive, NEW w \in Workers, NEW j \in Jobs, worker[w].job = j
  PROVE  /\ j \notin queue /\ submit[j].pc = "accepted"
         /\ \A x \in Workers : worker[x].job = j => x = w
         /\ \A pcs : At(j, pcs) <=> worker[w].pc \in pcs
<1>1. Running(j)
  BY DEF Running
<1>2. submit[j].pc = "accepted"
  BY <1>1 DEF WellFormed, SubmitOK, Delivered
<1>3. \A x \in Workers : worker[x].job = j => x = w
  BY DEF Exclusive
<1> QED
  BY <1>1, <1>2, <1>3 DEF Exclusive, At

\* What the two writes that change the status of a run leave behind.
LEMMA TurnStatus ==
  ASSUME WellFormed, OneWriter, NEW w \in Workers, NEW j \in Jobs, worker[w].job = j
  PROVE  /\ StartRunning(w) =>
              jobs'[j] # None /\ jobs'[j].status = "running" /\ worker[w].pc = "start"
         /\ RecordFailure(w) =>
              jobs'[j] # None /\ jobs'[j].status = "failed" /\ worker[w].pc = "fail"
<1> DEFINE g == worker[w].snap
           run == [g EXCEPT !.status = "running", !.stage = "downloading"]
           failed == [g EXCEPT !.status = "failed", !.error = TRUE]
<1>1. g # None => g \in Job
  BY DEF WellFormed, TypeOK, WorkerState
<1>2. g # None => /\ run \in Job /\ run.status = "running"
                  /\ failed \in Job /\ failed.status = "failed"
  BY <1>1 DEF Job, JobStatus, JobStage
<1>3. StartRunning(w) => g # None /\ jobs'[j] = run /\ worker[w].pc = "start"
  BY DEF StartRunning, WriteJob, WellFormed, TypeOK
<1>4. RecordFailure(w) => g # None /\ jobs'[j] = failed /\ worker[w].pc = "fail"
  BY DEF RecordFailure, WriteJob, WellFormed, TypeOK
<1> HIDE DEF run, failed
<1> QED
  BY <1>2, <1>3, <1>4, AbsenceAssumption

\* Where the four writes that end a phase leave the process that makes them.
LEMMA TurnPlace ==
  ASSUME WellFormed, NEW j \in Jobs
  PROVE  /\ \A w \in Workers : worker[w].job = j =>
              /\ StartRunning(w) => /\ worker'[w].job = j
                                    /\ worker'[w].pc = "download"
              /\ CompleteJob(w) => /\ worker'[w].job = j /\ worker'[w].pc = "ack"
                                   /\ worker[w].pc = "done"
              /\ RecordFailure(w) => worker'[w].job = j /\ worker'[w].pc = "fail_video"
         /\ FailDuplicate(j) =>
              /\ submit[j].pc = "duplicate" /\ submit'[j].pc = "rejected"
              /\ UNCHANGED <<queue, worker>>
<1>1. ASSUME NEW w \in Workers, worker[w].job = j,
             NEW next, worker' = [worker EXCEPT ![w] =
                                    [worker[w] EXCEPT !.pc = next, !.snap = None]]
      PROVE  worker'[w].pc = next /\ worker'[w].job = j
  <2> DEFINE r == [worker[w] EXCEPT !.pc = next, !.snap = None]
  <2>1. r.pc = next /\ r.job = j
    BY <1>1 DEF WellFormed, TypeOK, WorkerState
  <2>2. worker' = [worker EXCEPT ![w] = r]
    BY <1>1
  <2> HIDE DEF r
  <2> QED
    BY <2>1, <2>2 DEF WellFormed, TypeOK
<1>2. ASSUME FailDuplicate(j)
      PROVE  /\ submit[j].pc = "duplicate" /\ submit'[j].pc = "rejected"
             /\ UNCHANGED <<queue, worker>>
  <2> DEFINE r == [submit[j] EXCEPT !.pc = "rejected", !.snap = None]
  <2>1. r.pc = "rejected"
    BY DEF WellFormed, TypeOK, Submission
  <2>2. /\ submit' = [submit EXCEPT ![j] = r] /\ submit[j].pc = "duplicate"
        /\ UNCHANGED <<queue, worker>>
    BY <1>2, Zenon DEF FailDuplicate
  <2> HIDE DEF r
  <2> QED
    BY <2>1, <2>2 DEF WellFormed, TypeOK
<1>3. ASSUME NEW w \in Workers, worker[w].job = j, StartRunning(w)
      PROVE  worker'[w].job = j /\ worker'[w].pc = "download"
  BY <1>1, <1>3, Zenon DEF StartRunning, WriteJob
<1>4. ASSUME NEW w \in Workers, worker[w].job = j, CompleteJob(w)
      PROVE  worker'[w].job = j /\ worker'[w].pc = "ack" /\ worker[w].pc = "done"
  BY <1>1, <1>4, Zenon DEF CompleteJob, WriteJob
<1>5. ASSUME NEW w \in Workers, worker[w].job = j, RecordFailure(w)
      PROVE  worker'[w].job = j /\ worker'[w].pc = "fail_video"
  BY <1>1, <1>5, Zenon DEF RecordFailure, WriteJob
<1> QED
  BY <1>2, <1>3, <1>4, <1>5

LEMMA NextPhases ==
  ASSUME WellFormed, Exclusive, OneWriter, Phases, [Next]_vars
  PROVE  Phases'
<1>0. WellFormed' /\ Exclusive' /\ OneWriter'
  BY NextWellFormed, NextExclusive, NextOneWriter
<1>1. WellFormed' /\ Exclusive' /\ HashesAgree'
  BY <1>0, AllHoldersAgree, PTL
<1> SUFFICES ASSUME NEW j \in Jobs, NEW h, Holds(h, j)'
             PROVE  /\ Fresh(j)' => h.status = "queued"
                    /\ Underway(j)' => h.status = "running"
                    /\ Failing(j)' => h.status = "failed"
  BY DEF Phases, Phase
<1>2. jobs'[j] # None => h.status = jobs'[j].status
  <2>1. ASSUME jobs'[j] # None PROVE Holds(jobs[j], j)'
    BY <2>1 DEF Holds
  <2>2. ASSUME NEW g, Holds(g, j)' PROVE g.status = h.status
    <3>1. UpToDismissal(g) = UpToDismissal(h) /\ g \in Job /\ h \in Job
      BY <1>1, <2>2 DEF HashesAgree
    <3> QED
      BY <3>1, SameUpToDismissal
  <2> QED
    BY <2>1, <2>2
<1>3. ASSUME CreateJob(j) PROVE jobs'[j] # None /\ jobs'[j].status = "queued"
  <2>1. jobs'[j] = NewJob(submit[j].file, submit[j].profile, submit[j].max_quality)
    BY <1>3 DEF CreateJob, WellFormed, TypeOK
  <2>2. jobs'[j] \in Job
    BY <1>3, <2>1 DEF CreateJob, WellFormed, TypeOK, SubmitOK, NewJob, Job, Submission,
                      JobStatus
  <2>3. jobs'[j].status = "queued"
    BY <2>1 DEF NewJob
  <2> QED
    BY <2>2, <2>3, AbsenceAssumption
<1>5. CASE Stays(j) \/ Drops(j)
  <2>1. Holds(h, j)
    BY <1>5, StaysDrops DEF Drops
  <2>2. /\ Fresh(j) => h.status = "queued"
        /\ Underway(j) => h.status = "running"
        /\ Failing(j) => h.status = "failed"
    BY <2>1 DEF Phases, Phase
  <2> QED
    BY <1>2, <1>3, <2>2, PhaseEntered, TurnStatus
<1>6. CASE Writes(j)
  <2>1. jobs'[j] # None
    BY <1>6 DEF Writes
  <2>2. CASE CreateJob(j)
    <3>1. ~Underway(j)' /\ ~Failing(j)'
      <4>1. ASSUME NEW w \in Workers, worker[w].job = j PROVE FALSE
        BY <2>2, <4>1, SoleRun DEF CreateJob
      <4> QED
        BY <4>1, PhaseEntered DEF Underway, Failing, At
    <3> QED
      BY <1>2, <1>3, <2>2, <3>1
  <2>3. ASSUME NEW g, Holds(g, j), Replaces(g, j)
        PROVE  /\ Fresh(j)' => h.status = "queued"
               /\ Underway(j)' => h.status = "running"
               /\ Failing(j)' => h.status = "failed"
    <3>1. /\ Fresh(j) => g.status = "queued"
          /\ Underway(j) => g.status = "running"
          /\ Failing(j) => g.status = "failed"
      BY <2>3 DEF Phases, Phase
    <3>2. CASE g.status = jobs'[j].status
      BY <1>2, <1>3, <2>1, <3>1, <3>2, PhaseEntered, TurnStatus
    <3>3. ASSUME NEW w \in Workers, worker[w].job = j, worker'[w].job = j
          PROVE  /\ worker'[w].pc \in UnderwayPc => ~Fresh(j)' /\ ~Failing(j)'
                 /\ worker'[w].pc = "fail_video" => ~Fresh(j)' /\ ~Underway(j)'
                 /\ worker'[w].pc = "ack" => ~Fresh(j)' /\ ~Underway(j)' /\ ~Failing(j)'
      <4>1. /\ j \notin queue' /\ submit'[j].pc = "accepted"
            /\ \A x \in Workers : worker'[x].job = j => x = w
        BY <1>1, <3>3 DEF WellFormed, SubmitOK, Delivered, Running, Exclusive
      <4> QED
        BY <3>3, <4>1 DEF Fresh, Underway, Failing, At, UnderwayPc
    <3>4. CASE \E w \in Workers : worker[w].job = j /\ StartRunning(w)
      BY <1>2, <2>1, <3>3, <3>4, TurnPlace, TurnStatus DEF UnderwayPc
    <3>5. CASE \E w \in Workers : worker[w].job = j /\ CompleteJob(w)
      BY <3>3, <3>5, TurnPlace
    <3>6. CASE \E w \in Workers : worker[w].job = j /\ RecordFailure(w)
      BY <1>2, <2>1, <3>3, <3>6, TurnPlace, TurnStatus
    <3>7. CASE FailDuplicate(j)
      <4>1. ~Delivered(j) /\ queue' = queue /\ worker' = worker /\ submit'[j].pc = "rejected"
        BY <3>7, TurnPlace DEF WellFormed, SubmitOK
      <4> QED
        BY <4>1 DEF Delivered, Running, Fresh, Underway, Failing, At
    <3> QED
      BY <2>3, <3>2, <3>4, <3>5, <3>6, <3>7 DEF Replaces
  <2> QED
    BY <1>6, <2>2, <2>3 DEF Writes
<1> QED
  BY <1>5, <1>6, NextHashes

LEMMA PhasesAlways ==
  ASSUME MaxCrashes = 0
  PROVE  Spec => []Phases
<1>1. Init => Phases
  BY DEF Init, Phases, Phase, Holds, IdleWorker, IdleDismisser
<1>2. SingleDelivery => Exclusive
  BY DEF SingleDelivery, Exclusive
<1>3. WellFormed /\ Exclusive /\ OneWriter /\ Phases /\ [Next]_vars => Phases'
  BY NextPhases
<1> QED
  BY <1>1, <1>2, <1>3, WellFormedAlways, OneRunAtATime, OneWriterAlways, PTL DEF Spec

-----------------------------------------------------------------------------
(* The job hash and the video document of a job agree on how its run ended. *)

\* A run of j is still to come, or has not published its video yet.
InProgressPc == WorkerPc \ {"idle", "done", "ack"}
InProgress(j) == submit[j].pc = "send" \/ j \in queue \/ At(j, InProgressPc)

Ledger(j) ==
  /\ InProgress(j) => ~IsDone(videos[j])
  /\ \A w \in Workers : worker[w].job = j /\ worker[w].pc = "done" =>
       IsDone(videos[j]) /\ videos[j].result_key = worker[w].result_key
  /\ \A h : Holds(h, j) /\ h.status = "done" =>
       IsDone(videos[j]) /\ videos[j].result_key = h.result_key

Ledgers == \A j \in Jobs : Ledger(j)

\* Who changes the video of j, and what the job looks like then.
LEMMA VideoTurn ==
  ASSUME WellFormed, Exclusive, OneWriter, Phases, [Next]_vars, NEW j \in Jobs
  PROVE  \/ /\ videos'[j] = videos[j]
            /\ submit'[j].pc = "send" => submit[j].pc = "send"
         \/ /\ submit[j].pc = "create_video" /\ Fresh(j)
            /\ ~IsDone(videos'[j]) /\ \A w \in Workers : worker'[w].job # j
         \/ \E w \in Workers :
              /\ worker[w].job = j /\ worker[w].pc = "name" /\ worker'[w].pc = "done"
              /\ InProgress(j) /\ Underway(j)
              /\ worker'[w].job = j
              /\ IsDone(videos'[j]) /\ videos'[j].result_key = worker'[w].result_key
         \/ \E w \in Workers :
              /\ worker[w].job = j /\ worker[w].pc = "fail_video"
              /\ InProgress(j) /\ Failing(j)
              /\ videos'[j] # None /\ videos'[j].status = "failed"
<1>1. ASSUME NEW w \in Workers, WorkerStep(w) \/ Abort(w) \/ Crash(w) PROVE submit' = submit
  BY <1>1, WorkerLeaves
<1>2. ASSUME NEW w \in Workers, WorkerStep(w) \/ Abort(w) \/ Crash(w),
             videos'[j] # videos[j]
      PROVE  \/ /\ worker[w].job = j /\ worker[w].pc = "name" /\ worker'[w].pc = "done"
                /\ worker'[w].job = j
                /\ videos'[j] # None /\ videos'[j].status = "done"
                /\ videos'[j].result_key = worker'[w].result_key
             \/ /\ worker[w].job = j /\ worker[w].pc = "fail_video"
                /\ videos'[j] # None /\ videos'[j].status = "failed"
  <2>1. CASE /\ worker[w].job = j /\ worker[w].pc = "name" /\ worker'[w].pc = "done"
             /\ videos[j] # None /\ videos'[j] = Published(w)
    <3>1. Continues(w)
      BY <1>2, <2>1, WorkerContinues, StartOrEnd
    <3>2. worker'[w].job = j /\ worker'[w].result_key = worker[w].result_key
      BY <2>1, <3>1 DEF Continues, UploadResult
    <3> QED
      BY <2>1, <3>2, PublishedFields
  <2>2. CASE /\ worker[w].job = j /\ worker[w].pc = "fail_video"
             /\ videos[j] # None /\ videos'[j] = [videos[j] EXCEPT !.status = "failed"]
    <3> DEFINE v == [videos[j] EXCEPT !.status = "failed"]
    <3>1. v \in Video /\ v.status = "failed"
      BY <2>2 DEF WellFormed, TypeOK, Video, VideoStatus
    <3> HIDE DEF v
    <3>2. v # None
      BY <3>1, AbsenceAssumption
    <3>3. videos'[j] = v
      BY <2>2 DEF v
    <3> QED
      BY <2>2, <3>1, <3>2, <3>3
  <2> QED
    BY <1>2, <2>1, <2>2, VideoAfter
<1>3. ASSUME NEW w \in Workers, worker[w].job = j
      PROVE  /\ worker[w].pc = "name" => InProgress(j) /\ Underway(j)
             /\ worker[w].pc = "fail_video" => InProgress(j) /\ Failing(j)
  BY <1>3 DEF InProgress, Underway, Failing, At, InProgressPc, UnderwayPc, WorkerPc
<1>4. ASSUME NEW i \in Jobs, SubmitStep(i) \/ SubmitDies(i)
      PROVE  \/ /\ videos'[j] = videos[j]
                /\ submit'[j].pc = "send" => submit[j].pc = "send"
             \/ /\ submit[j].pc = "create_video" /\ Fresh(j)
                /\ ~IsDone(videos'[j]) /\ \A w \in Workers : worker'[w].job # j
  <2>1. SubmitMoves(i)
    BY <1>4, SubmissionMoves
  <2>2. CASE i # j
    BY <1>4, <2>1, <2>2, SubmissionVideos DEF SubmitMoves
  <2>3. CASE i = j /\ CreateVideo(j) /\ submit'[j].pc = "send"
    <3> DEFINE v == NewVideo(submit[j].file, submit[j].profile, submit[j].max_quality)
    <3>1. videos'[j] = v /\ worker' = worker
      BY <1>4, <2>3, SubmissionVideos
    <3>2. v.status = "in_progress" /\ submit[j].pc = "create_video"
      BY <2>3 DEF NewVideo, CreateVideo
    <3>3. \A w \in Workers : worker[w].job # j
      BY <3>2, SoleRun
    <3> HIDE DEF v
    <3> QED
      BY <3>1, <3>2, <3>3 DEF Fresh, IsDone
  <2>4. CASE i = j /\ ~(CreateVideo(j) /\ submit'[j].pc = "send")
    BY <1>4, <2>1, <2>4, SubmissionVideos DEF SubmitMoves
  <2> QED
    BY <2>2, <2>3, <2>4
<1>5. ASSUME NEW w \in Workers, WorkerStep(w) \/ Abort(w) \/ Crash(w)
      PROVE  \/ /\ videos'[j] = videos[j]
                /\ submit'[j].pc = "send" => submit[j].pc = "send"
             \/ \E x \in Workers :
                  /\ worker[x].job = j /\ worker[x].pc = "name" /\ worker'[x].pc = "done"
                  /\ InProgress(j) /\ Underway(j)
                  /\ worker'[x].job = j
                  /\ IsDone(videos'[j]) /\ videos'[j].result_key = worker'[x].result_key
             \/ \E x \in Workers :
                  /\ worker[x].job = j /\ worker[x].pc = "fail_video"
                  /\ InProgress(j) /\ Failing(j)
                  /\ videos'[j] # None /\ videos'[j].status = "failed"
  BY <1>1, <1>2, <1>3, <1>5 DEF IsDone
<1> QED
  BY <1>4, <1>5, OtherSteps

\* A run in progress comes from the submission.
LEMMA InProgressEntered ==
  ASSUME WellFormed, OneWriter, [Next]_vars, NEW j \in Jobs, InProgress(j)'
  PROVE  InProgress(j) \/ submit'[j].pc = "send"
<1>1. ASSUME j \in queue' PROVE InProgress(j)
  <2>1. ASSUME NEW i \in Jobs, SubmitStep(i) \/ SubmitDies(i), j \notin queue
        PROVE  submit[j].pc = "send"
    BY <1>1, <2>1 DEF SubmitStep, Submit, CreateJob, CreateVideo, ReadDuplicate,
       FailDuplicate, Send, SubmitDies
  <2>2. ASSUME NEW w \in Workers, WorkerStep(w) \/ Abort(w) PROVE queue' \subseteq queue
    BY <2>2, WorkerStepKeepsRuns DEF KeepsRuns, Ack, Pickup
  <2>3. ASSUME NEW w \in Workers, Crash(w) PROVE FALSE
    BY <2>3 DEF Crash, OneWriter
  <2> QED
    BY <1>1, <2>1, <2>2, <2>3, OtherSteps DEF InProgress
<1>2. ASSUME NEW w \in Workers, worker'[w].job = j, worker'[w].pc \in InProgressPc
      PROVE  InProgress(j)
  <2>1. CASE worker'[w] = worker[w]
    BY <1>2, <2>1 DEF InProgress, At
  <2>2. CASE Continues(w) /\ worker[w].job = j
    <3>1. worker[w].pc \notin {"idle", "done", "ack"}
      BY <1>2, <2>2 DEF Continues, Flow, InProgressPc
    <3>2. worker[w].pc \in WorkerPc
      BY DEF WellFormed, TypeOK, WorkerState
    <3> QED
      BY <2>2, <3>1, <3>2 DEF InProgress, At, InProgressPc
  <2> QED
    BY <1>2, <2>1, <2>2, PathOfWorker DEF InProgress
<1> QED
  BY <1>1, <1>2 DEF InProgress, At

LEMMA NextLedger ==
  ASSUME WellFormed, Exclusive, OneWriter, Phases, Ledgers, [Next]_vars,
         NEW j \in Jobs
  PROVE  Ledger(j)'
<1>0. WellFormed' /\ Exclusive' /\ OneWriter'
  BY NextWellFormed, NextExclusive, NextOneWriter
<1>1. WellFormed' /\ Exclusive' /\ HashesAgree'
  BY <1>0, AllHoldersAgree, PTL
<1>2. Ledger(j) /\ Phase(j)
  BY DEF Ledgers, Phases
<1>3. ASSUME NEW w \in Workers, worker'[w].job = j, worker'[w].pc \in {"done", "ack"}
      PROVE  ~InProgress(j)'
  BY <1>1, <1>3 DEF WellFormed, SubmitOK, Delivered, Running, Exclusive, InProgress,
                    InProgressPc, At
<1>4. ASSUME InProgress(j)' PROVE ~IsDone(videos'[j])
  <2>1. InProgress(j) \/ (submit'[j].pc = "send" /\ submit[j].pc # "send")
    BY <1>4, InProgressEntered DEF InProgress
  <2>2. InProgress(j) => ~IsDone(videos[j])
    BY <1>2 DEF Ledger
  <2>3. submit[j].pc = "send" => InProgress(j)
    BY DEF InProgress
  <2>4. videos'[j] # None /\ videos'[j].status = "failed" => ~IsDone(videos'[j])
    BY DEF IsDone
  <2> QED
    BY <1>3, <1>4, <2>1, <2>2, <2>3, <2>4, VideoTurn
<1>5. ASSUME NEW w \in Workers, worker'[w].job = j, worker'[w].pc = "done"
      PROVE  IsDone(videos'[j]) /\ videos'[j].result_key = worker'[w].result_key
  <2>1. CASE videos'[j] = videos[j]
    <3>1. CASE worker[w].job = j /\ worker[w].pc = "done"
               /\ worker'[w].result_key = worker[w].result_key
      BY <1>2, <2>1, <3>1 DEF Ledger
    <3>2. CASE PublishVideo(w) /\ worker[w].job = j
      <4>1. worker[w].pc = "name"
        BY <3>2 DEF PublishVideo
      <4>2. videos'[j] = Published(w) /\ videos[j] # None
        BY <1>5, <3>2 DEF PublishVideo, Goto, NextName, WellFormed, TypeOK, WorkerState
      <4>3. Continues(w)
        BY <1>5, <3>2, <4>1, WorkerContinues, StartOrEnd DEF WorkerStep
      <4>4. worker'[w].result_key = worker[w].result_key
        BY <4>1, <4>3 DEF Continues, UploadResult
      <4> QED
        BY <3>2, <4>1, <4>2, <4>4, PublishedFields DEF IsDone
    <3>3. CASE Continues(w) /\ worker[w].job = j /\ ~PublishVideo(w)
      <4>1. worker[w].pc = "done"
        BY <1>5, <3>3 DEF Continues, Flow, ReadJob, UpdatePc
      <4>2. worker'[w].result_key = worker[w].result_key
        BY <3>3, <4>1 DEF Continues, UploadResult
      <4> QED
        BY <3>1, <3>3, <4>1, <4>2
    <3> QED
      BY <1>5, <3>1, <3>2, <3>3, PathOfWorker
  <2>2. ASSUME NEW x \in Workers, worker[x].job = j, worker[x].pc = "fail_video"
        PROVE  FALSE
    <3>1. worker[w].job = j /\ worker[w].pc # "fail_video"
      BY <1>5, <2>2, SoleRun, PathOfWorker DEF Continues, Flow
    <3> QED
      BY <2>2, <3>1, SoleRun
  <2>3. ASSUME NEW x \in Workers, worker'[x].job = j PROVE x = w
    BY <1>1, <1>5, <2>3 DEF Exclusive
  <2> QED
    BY <1>5, <2>1, <2>2, <2>3, VideoTurn
<1>6. ASSUME NEW h, Holds(h, j), h.status = "done"
      PROVE  /\ IsDone(videos'[j]) /\ videos'[j].result_key = h.result_key
             /\ videos'[j] = videos[j]
  <2>1. ~Fresh(j) /\ ~Underway(j) /\ ~Failing(j)
    BY <1>2, <1>6 DEF Phase
  <2> QED
    BY <1>2, <1>6, <2>1, VideoTurn DEF Ledger
<1>7. ASSUME NEW h, Holds(h, j)', h.status = "done"
      PROVE  IsDone(videos'[j]) /\ videos'[j].result_key = h.result_key
  <2>1. CASE Stays(j) \/ Drops(j)
    BY <1>6, <1>7, <2>1, StaysDrops DEF Drops
  <2>2. CASE Writes(j)
    <3>1. Holds(jobs[j], j)'
      BY <2>2 DEF Writes, Holds
    <3>2. jobs'[j].status = h.status /\ jobs'[j].result_key = h.result_key
      <4>1. \A g : Holds(g, j)' => UpToDismissal(g) = UpToDismissal(h) /\ g \in Job /\ h \in Job
        BY <1>1, <1>7 DEF HashesAgree
      <4> QED
        BY <3>1, <4>1, SameUpToDismissal
    <3>3. PICK g : Holds(g, j) /\ Replaces(g, j)
      BY <1>7, <2>2, <3>2 DEF Writes
    <3>4. CASE \E w \in Workers : /\ worker[w].job = j /\ CompleteJob(w)
                                 /\ jobs'[j].result_key = worker[w].result_key
      <4>1. PICK w \in Workers : /\ worker[w].job = j /\ CompleteJob(w)
                                 /\ jobs'[j].result_key = worker[w].result_key
        BY <3>4
      <4>2. videos' = videos /\ worker[w].pc = "done"
        BY <4>1, Zenon DEF CompleteJob, WriteJob
      <4> QED
        BY <1>2, <3>2, <4>1, <4>2 DEF Ledger
    <3> QED
      BY <1>6, <1>7, <3>2, <3>3, <3>4 DEF Replaces, Pending
  <2> QED
    BY <2>1, <2>2, NextHashes
<1> QED
  BY <1>4, <1>5, <1>7 DEF Ledger

LEMMA LedgersAlways ==
  ASSUME MaxCrashes = 0
  PROVE  Spec => []Ledgers
<1>1. Init => Ledgers
  <2> SUFFICES ASSUME Init, NEW j \in Jobs PROVE Ledger(j)
    BY DEF Ledgers
  <2>1. /\ videos[j] = None /\ jobs[j] = None /\ submit[j].snap = None
        /\ \A w \in Workers : worker[w].pc = "idle" /\ worker[w].snap = None
        /\ \A d \in Dismissers : dismiss[d].snap = None
    BY DEF Init, IdleWorker, IdleDismisser
  <2> QED
    BY <2>1 DEF Ledger, Holds, IsDone
<1>2. SingleDelivery => Exclusive
  BY DEF SingleDelivery, Exclusive
<1>3. WellFormed /\ Exclusive /\ OneWriter /\ Phases /\ Ledgers /\ [Next]_vars => Ledgers'
  BY NextLedger DEF Ledgers
<1> QED
  BY <1>1, <1>2, <1>3, WellFormedAlways, OneRunAtATime, OneWriterAlways, PhasesAlways, PTL
     DEF Spec

\* The library has what the dashboard announces: the two writes that end a run,
\* one to MongoDB and one to Redis, are made in this order, and every update in
\* between, late or repeated, keeps the job's result key that of its video.
THEOREM DoneMeansPublished ==
  ASSUME MaxCrashes = 0
  PROVE  Spec => []DoneIsPublished
<1>1. Ledgers => DoneIsPublished
  BY DEF Ledgers, Ledger, Holds, DoneIsPublished
<1> QED
  BY <1>1, LedgersAlways, PTL

\* Once published, a video keeps its status, its name and its result: what the
\* second run of a redelivered message breaks is kept as long as no worker dies.
THEOREM PublishedStays ==
  ASSUME MaxCrashes = 0
  PROVE  Spec => PublishedIsFinal
<1>1. ASSUME WellFormed, Exclusive, OneWriter, Phases, Ledgers, AsRequested, [Next]_vars,
             NEW j \in Jobs, IsDone(videos[j])
      PROVE  videos'[j] = videos[j]
  <2>1. ~InProgress(j) /\ submit[j].pc # "create_video"
    BY <1>1 DEF Ledgers, Ledger, AsRequested, VideoAsRequested, IsDone
  <2> QED
    BY <1>1, <2>1, VideoTurn
<1>2. SingleDelivery => Exclusive
  BY DEF SingleDelivery, Exclusive
<1>3. WellFormed /\ Exclusive /\ OneWriter /\ Phases /\ Ledgers /\ AsRequested
        /\ [Next]_vars =>
      [\A j \in Jobs : IsDone(videos[j]) =>
         /\ IsDone(videos'[j])
         /\ videos'[j].display_name = videos[j].display_name
         /\ videos'[j].result_key = videos[j].result_key]_vars
  BY <1>1 DEF IsDone
<1> QED
  BY <1>2, <1>3, WellFormedAlways, OneRunAtATime, OneWriterAlways, PhasesAlways,
     LedgersAlways, AsRequestedAlways, PTL DEF Spec, PublishedIsFinal

-----------------------------------------------------------------------------
(* A failed job lets go of its file.                                        *)

Free(v) == v = None \/ v.status = "failed"

\* Between the two writes of _fail the worker is still there to make the second.
Freeing(j) ==
  \A h : Holds(h, j) /\ h.status = "failed" => Free(videos[j]) \/ Failing(j)

NothingAborts == budget.aborts = 0

AllFreeing == NothingAborts /\ \A j \in Jobs : Freeing(j)

LEMMA NextAborts ==
  ASSUME WellFormed, NothingAborts, [Next]_vars
  PROVE  NothingAborts' /\ \A w \in Workers : ~Abort(w)
<1>1. budget \in Budget /\ \A w \in Workers : ~Abort(w)
  BY DEF WellFormed, TypeOK, Abort, NothingAborts
<1>2. ASSUME \/ budget' = budget
             \/ budget' = [budget EXCEPT !.crashes = budget.crashes - 1]
             \/ budget' = [budget EXCEPT !.api_deaths = budget.api_deaths - 1]
             \/ budget' = [budget EXCEPT !.expiries = budget.expiries - 1]
      PROVE  budget'.aborts = budget.aborts
  BY <1>1, <1>2 DEF Budget
<1>3. ASSUME NEW j \in Jobs, SubmitStep(j) \/ SubmitDies(j) \/ Expire(j)
      PROVE  budget'.aborts = budget.aborts
  BY <1>2, <1>3, Zenon DEF SubmitStep, Submit, CreateJob, CreateVideo, ReadDuplicate,
     FailDuplicate, Send, SubmitDies, Expire
<1>4. ASSUME NEW w \in Workers, WorkerStep(w) \/ Crash(w)
      PROVE  budget'.aborts = budget.aborts
  BY <1>2, <1>4, WorkerSpendsNothing, Zenon DEF Crash
<1>5. ASSUME NEW d \in Dismissers, DismissStep(d) PROVE budget' = budget
  BY <1>5, Zenon DEF DismissStep, DismissOne, DismissAll, ScanJob, ReadDismissed,
     WriteDismissed
<1> QED
  BY <1>1, <1>3, <1>4, <1>5 DEF Next, NothingAborts, vars

LEMMA NextFreeing ==
  ASSUME WellFormed, Exclusive, OneWriter, Phases, AsRequested, AllFreeing, [Next]_vars,
         NEW j \in Jobs
  PROVE  Freeing(j)'
<1>0. WellFormed' /\ Exclusive' /\ OneWriter'
  BY NextWellFormed, NextExclusive, NextOneWriter
<1>1. WellFormed' /\ Exclusive' /\ HashesAgree'
  BY <1>0, AllHoldersAgree, PTL
<1>2. Freeing(j) /\ Phase(j) /\ VideoAsRequested(j)
  BY DEF AllFreeing, Phases, AsRequested
<1>3. ASSUME NEW w \in Workers, worker[w].job = j, worker[w].pc = "fail_video"
      PROVE  Free(videos'[j]) \/ Failing(j)'
  <2>1. CASE FailVideo(w)
    <3>1. videos[j] = None => videos' = videos
      BY <1>3, <2>1 DEF FailVideo
    <3>2. videos[j] # None => videos' = [videos EXCEPT ![j] = [videos[j] EXCEPT !.status = "failed"]]
      BY <1>3, <2>1 DEF FailVideo
    <3>3. videos[j] # None => videos'[j].status = "failed"
      <4> DEFINE v == [videos[j] EXCEPT !.status = "failed"]
      <4>1. videos[j] # None => v.status = "failed"
        BY DEF WellFormed, TypeOK, Video
      <4> HIDE DEF v
      <4> QED
        BY <3>2, <4>1 DEF WellFormed, TypeOK, v
    <3> QED
      BY <3>1, <3>3 DEF Free
  <2>2. CASE ~FailVideo(w)
    <3>1. ~WorkerStep(w)
      BY <1>3, <2>2, Zenon DEF WorkerStep, Pickup, Resolve, CheckRunnable, ReadJob,
        UpdatePc, WriteStep, WriteJob, RecordResolved, StartRunning, StartProcessing,
        RecordProgress, StartUploading, CompleteJob, RecordFailure, Download, Encode,
        UploadResult, UploadThumbnail, UploadClips, UploadFails, PublishVideo, Ack
    <3>2. ~Abort(w) /\ ~Crash(w)
      BY NextAborts DEF AllFreeing, Crash, OneWriter
    <3>3. worker'[w] = worker[w]
      <4>1. ASSUME NEW x \in Workers, WorkerStep(x) \/ Abort(x) \/ Crash(x)
            PROVE  worker'[w] = worker[w]
        BY <3>1, <3>2, <4>1, OthersStay
      <4> QED
        BY <4>1, SubmissionVideos, OtherSteps
    <3> QED
      BY <1>3, <3>3 DEF Failing, At
  <2> QED
    BY <2>1, <2>2
<1>4. ASSUME NEW h, Holds(h, j), h.status = "failed"
      PROVE  Free(videos'[j]) \/ Failing(j)'
  <2>1. ~Fresh(j) /\ ~Underway(j)
    BY <1>2, <1>4 DEF Phase
  <2>2. CASE Failing(j)
    BY <1>3, <2>2 DEF Failing, At
  <2>3. CASE ~Failing(j)
    <3>1. videos'[j] = videos[j]
      BY <2>1, <2>3, VideoTurn
    <3> QED
      BY <1>2, <1>4, <2>3, <3>1 DEF Freeing, Free
  <2> QED
    BY <2>2, <2>3
<1>5. ASSUME NEW h, Holds(h, j)', h.status = "failed"
      PROVE  Free(videos'[j]) \/ Failing(j)'
  <2>1. CASE Stays(j) \/ Drops(j)
    BY <1>4, <1>5, <2>1, StaysDrops DEF Drops
  <2>2. CASE Writes(j)
    <3>1. Holds(jobs[j], j)'
      BY <2>2 DEF Writes, Holds
    <3>2. jobs'[j].status = h.status
      <4>1. \A g : Holds(g, j)' => UpToDismissal(g) = UpToDismissal(h) /\ g \in Job /\ h \in Job
        BY <1>1, <1>5 DEF HashesAgree
      <4> QED
        BY <3>1, <4>1, SameUpToDismissal
    <3>3. PICK g : Holds(g, j) /\ Replaces(g, j)
      BY <1>5, <2>2, <3>2 DEF Writes
    <3>4. CASE FailDuplicate(j)
      <4>1. videos' = videos /\ submit[j].pc = "duplicate"
        BY <3>4, Zenon DEF FailDuplicate
      <4> QED
        BY <1>2, <4>1 DEF VideoAsRequested, Free
    <3>5. CASE \E w \in Workers : worker[w].job = j /\ RecordFailure(w)
      BY <3>5, TurnPlace DEF Failing, At
    <3> QED
      BY <1>4, <1>5, <3>2, <3>3, <3>4, <3>5 DEF Replaces, Pending
  <2> QED
    BY <2>1, <2>2, NextHashes
<1> QED
  BY <1>5 DEF Freeing

\* Once the run of a failed job is over its file may be submitted again: no path
\* through run_job or submit_job that ends in "failed" forgets the video.  (A run
\* that is aborted between the two writes of _fail does.)
THEOREM FailedLetsGo ==
  ASSUME MaxCrashes = 0, MaxAborts = 0
  PROVE  Spec => []FailedFreesFile
<1>1. Init => AllFreeing
  <2> SUFFICES ASSUME Init PROVE AllFreeing
    OBVIOUS
  <2>1. /\ \A j \in Jobs : jobs[j] = None /\ submit[j].snap = None
        /\ \A w \in Workers : worker[w].snap = None
        /\ \A d \in Dismissers : dismiss[d].snap = None
        /\ budget.aborts = 0
    BY DEF Init, IdleWorker, IdleDismisser
  <2> QED
    BY <2>1 DEF AllFreeing, NothingAborts, Freeing, Holds
<1>2. SingleDelivery => Exclusive
  BY DEF SingleDelivery, Exclusive
<1>3. WellFormed /\ Exclusive /\ OneWriter /\ Phases /\ AsRequested /\ AllFreeing
        /\ [Next]_vars => AllFreeing'
  BY NextFreeing, NextAborts DEF AllFreeing
<1>4. AllFreeing => FailedFreesFile
  BY DEF AllFreeing, Freeing, Holds, FailedFreesFile, Delivered, Running, Failing, At, Free
<1> QED
  BY <1>1, <1>2, <1>3, <1>4, WellFormedAlways, OneRunAtATime, OneWriterAlways,
     PhasesAlways, AsRequestedAlways, PTL DEF Spec

-----------------------------------------------------------------------------
(* The job store implements JobLifecycle.                                   *)

\* The status of a job is that of whatever hash of it is stored or held.
Statuses ==
  \A j \in Jobs :
    /\ \A g : Holds(g, j) => StatusOf(j) = g.status /\ g \in Job /\ ~Unsent(j)
    /\ (\A g : ~Holds(g, j)) => StatusOf(j) = IF Unsent(j) THEN "none" ELSE "gone"

LEMMA StatusHeld == WellFormed /\ Exclusive /\ OneWriter => Statuses
<1> SUFFICES ASSUME WellFormed, Exclusive, OneWriter, NEW j \in Jobs
             PROVE  /\ \A g : Holds(g, j) => /\ StatusOf(j) = g.status
                                             /\ g \in Job /\ ~Unsent(j)
                    /\ (\A g : ~Holds(g, j)) =>
                         StatusOf(j) = IF Unsent(j) THEN "none" ELSE "gone"
  BY DEF Statuses
<1>1. jobs[j] # None => Holds(jobs[j], j)
  BY DEF Holds
<1>2. \A h : h # None /\ h \in HeldSnaps(j) => Holds(h, j)
  BY DEF Holds, HeldSnaps
<1>3. \A h : Holds(h, j) /\ jobs[j] = None => h \in HeldSnaps(j) /\ h # None
  BY DEF Holds, HeldSnaps
<1>4. ASSUME NEW g, Holds(g, j)
      PROVE  StatusOf(j) = g.status /\ g \in Job /\ ~Unsent(j)
  <2>1. g \in Job /\ ~Unsent(j)
    BY <1>4, HoldersAgree
  <2>2. \A h : Holds(h, j) => h.status = g.status
    BY <1>4, HoldersAgree, SameUpToDismissal
  <2>3. CASE jobs[j] # None
    BY <1>1, <2>1, <2>2, <2>3 DEF StatusOf
  <2>4. CASE jobs[j] = None
    <3> DEFINE c == CHOOSE snap \in HeldSnaps(j) : snap # None
    <3>1. c \in HeldSnaps(j) /\ c # None
      BY <1>3, <1>4, <2>4
    <3>2. StatusOf(j) = c.status
      BY <1>3, <1>4, <2>1, <2>4 DEF StatusOf, Unsent
    <3> HIDE DEF c
    <3> QED
      BY <1>2, <2>1, <2>2, <3>1, <3>2
  <2> QED
    BY <2>1, <2>3, <2>4
<1>5. ASSUME \A g : ~Holds(g, j)
      PROVE  StatusOf(j) = IF Unsent(j) THEN "none" ELSE "gone"
  <2>1. jobs[j] = None
    BY <1>1, <1>5
  <2>2. HeldSnaps(j) \subseteq {None}
    BY <1>2, <1>5
  <2> QED
    BY <2>1, <2>2 DEF StatusOf, Unsent
<1> QED
  BY <1>4, <1>5

\* A job whose hash stays is the same job to its readers.
LEMMA StaysTheSame ==
  ASSUME Statuses, Statuses', NEW k \in Jobs, Stays(k)
  PROVE  AbstractJob(k)' = AbstractJob(k)
<1>1. StatusOf(k)' = StatusOf(k)
  <2>1. ASSUME NEW g, Holds(g, k) PROVE StatusOf(k)' = StatusOf(k)
    BY <2>1 DEF Statuses, Stays
  <2>2. CASE \A g : ~Holds(g, k)
    BY <2>2 DEF Statuses, Stays
  <2> QED
    BY <2>1, <2>2
<1> QED
  BY <1>1 DEF AbstractJob, Stays

\* A hash that is dropped lapses while somebody holds it, or is gone.
LEMMA DropsAbstract ==
  ASSUME WellFormed, OneWriter, Statuses, Statuses', NEW j \in Jobs, Drops(j)
  PROVE  \/ AbstractJob(j)' = AbstractJob(j)
         \/ /\ AbstractJob(j).stored
            /\ AbstractJob(j)' = Lifecycle!Unstored(AbstractJob(j).status)
         \/ /\ AbstractJob(j).status # "gone"
            /\ AbstractJob(j)' = Lifecycle!Unstored("gone")
<1>1. ASSUME NEW g, Holds(g, j)' PROVE StatusOf(j)' = StatusOf(j)
  BY <1>1 DEF Statuses, Drops
<1>2. CASE \E g : Holds(g, j)'
  <2>1. CASE jobs'[j] = jobs[j]
    BY <1>1, <1>2, <2>1 DEF AbstractJob
  <2>2. CASE jobs'[j] = None /\ jobs[j] # None
    BY <1>1, <1>2, <2>2 DEF AbstractJob, Lifecycle!Unstored
  <2> QED
    BY <2>1, <2>2 DEF Drops
<1>3. CASE \A g : ~Holds(g, j)'
  <2>1. jobs'[j] = None
    BY <1>3 DEF Holds
  <2>2. StatusOf(j)' = IF Unsent(j)' THEN "none" ELSE "gone"
    BY <1>3 DEF Statuses
  <2>3. CASE Unsent(j)'
    <3>1. Unsent(j) /\ (\A g : ~Holds(g, j)) /\ jobs[j] = None
      BY <2>3 DEF Drops, Statuses, OneWriter, JobOK
    <3>2. StatusOf(j) = "none"
      BY <3>1 DEF Statuses
    <3> QED
      BY <2>1, <2>2, <2>3, <3>1, <3>2 DEF AbstractJob
  <2>4. CASE ~Unsent(j)'
    <3>1. AbstractJob(j)' = Lifecycle!Unstored("gone")
      BY <2>1, <2>2, <2>4 DEF AbstractJob, Lifecycle!Unstored
    <3>2. CASE StatusOf(j) = "gone"
      <4>1. \A g : ~Holds(g, j)
        BY <3>2 DEF Statuses, Job, JobStatus
      <4>2. jobs[j] = None
        BY <4>1 DEF Holds
      <4> QED
        BY <2>1, <2>2, <2>4, <3>2, <4>2 DEF AbstractJob
    <3>3. CASE StatusOf(j) # "gone"
      BY <3>1, <3>3 DEF AbstractJob
    <3> QED
      BY <3>2, <3>3
  <2> QED
    BY <2>3, <2>4
<1> QED
  BY <1>2, <1>3

\* What the abstract job becomes when its hash is written.
Written(j, status, dismissed) ==
  AbstractJob(j)' = [status |-> status, dismissed |-> dismissed, stored |-> TRUE]

LEMMA WritesAbstract ==
  ASSUME WellFormed, Exclusive, OneWriter, Phases, Statuses, Statuses', WellFormed',
         NEW j \in Jobs, Writes(j)
  PROVE  \/ AbstractJob(j)' = AbstractJob(j)
         \/ AbstractJob(j).status = "none" /\ Written(j, "queued", FALSE)
         \/ AbstractJob(j).status = "queued" /\ Written(j, "running", FALSE)
         \/ AbstractJob(j).status = "running" /\ Written(j, "done", FALSE)
         \/ AbstractJob(j).status \in {"queued", "running"} /\ Written(j, "failed", FALSE)
         \/ /\ AbstractJob(j).status \in {"done", "failed"}
            /\ Written(j, AbstractJob(j).status, TRUE)
         \/ /\ AbstractJob(j).status \in {"queued", "running"} /\ ~AbstractJob(j).stored
            /\ Written(j, AbstractJob(j).status, FALSE)
<1>1. jobs'[j] # None /\ jobs'[j] \in Job
  BY DEF Writes, WellFormed, TypeOK
<1>2. Written(j, jobs'[j].status, jobs'[j].dismissed)
  <2>1. StatusOf(j)' = jobs'[j].status
    BY <1>1 DEF StatusOf
  <2>2. jobs'[j].dismissed \in BOOLEAN
    BY <1>1 DEF Job
  <2> QED
    BY <1>1, <2>1, <2>2 DEF Written, AbstractJob
<1>3. CASE CreateJob(j) /\ Unsent(j) /\ jobs'[j].status = "queued" /\ ~jobs'[j].dismissed
  <2>1. \A g : ~Holds(g, j)
    BY <1>3 DEF Statuses
  <2>2. AbstractJob(j).status = "none"
    BY <1>3, <2>1 DEF Statuses, AbstractJob
  <2>3. jobs'[j].dismissed = FALSE
    BY <1>1, <1>3 DEF Job
  <2> QED
    BY <1>2, <1>3, <2>2, <2>3
<1>4. ASSUME NEW g, Holds(g, j), Replaces(g, j)
      PROVE  \/ AbstractJob(j)' = AbstractJob(j)
             \/ g.status = "queued" /\ Written(j, "running", FALSE)
             \/ g.status = "running" /\ Written(j, "done", FALSE)
             \/ g.status \in {"queued", "running"} /\ Written(j, "failed", FALSE)
             \/ g.status \in {"done", "failed"} /\ Written(j, g.status, TRUE)
             \/ /\ g.status \in {"queued", "running"} /\ ~AbstractJob(j).stored
                /\ Written(j, g.status, FALSE)
  <2>1. Phase(j)
    BY DEF Phases
  <2>2. ~jobs'[j].dismissed => jobs'[j].dismissed = FALSE
    BY <1>1 DEF Job
  <2>3. jobs'[j].dismissed => jobs'[j].dismissed = TRUE
    BY <1>1 DEF Job
  <2>4. CASE Pending(g) /\ jobs'[j].status = g.status /\ ~jobs'[j].dismissed
    <3>1. CASE jobs[j] = None
      BY <1>2, <2>2, <2>4, <3>1 DEF AbstractJob, Pending
    <3>2. CASE jobs[j] # None
      <4>1. StatusOf(j) = g.status
        BY <1>4 DEF Statuses
      <4>2. jobs[j].status = g.status /\ jobs[j] \in Job
        BY <3>2, <4>1 DEF StatusOf, WellFormed, TypeOK
      <4>3. jobs[j].dismissed = FALSE
        BY <2>4, <3>2, <4>2 DEF OneWriter, JobOK, Pending, Dismissable, Job
      <4> QED
        BY <1>2, <2>2, <2>4, <3>2, <4>1, <4>3 DEF AbstractJob, Written
    <3> QED
      BY <3>1, <3>2
  <2>5. CASE /\ \E w \in Workers : worker[w].job = j /\ StartRunning(w)
             /\ jobs'[j].status = "running" /\ ~jobs'[j].dismissed
    <3>1. Fresh(j)
      BY <2>5, TurnStatus DEF Fresh, At
    <3> QED
      BY <1>2, <1>4, <2>1, <2>2, <2>5, <3>1 DEF Phase
  <2>6. CASE /\ \E w \in Workers : worker[w].job = j /\ CompleteJob(w)
             /\ jobs'[j].status = "done" /\ ~jobs'[j].dismissed
    <3>1. Underway(j)
      BY <2>6, TurnPlace DEF Underway, At, UnderwayPc
    <3> QED
      BY <1>2, <1>4, <2>1, <2>2, <2>6, <3>1 DEF Phase
  <2>7. CASE Pending(g) /\ jobs'[j].status = "failed" /\ ~jobs'[j].dismissed
    BY <1>2, <2>2, <2>7 DEF Pending
  <2>8. CASE /\ g.status \in Dismissable /\ jobs'[j].status = g.status
             /\ jobs'[j].dismissed
    BY <1>2, <2>3, <2>8 DEF Dismissable
  <2> QED
    BY <1>4, <2>4, <2>5, <2>6, <2>7, <2>8 DEF Replaces
<1>5. ASSUME NEW g, Holds(g, j) PROVE AbstractJob(j).status = g.status
  BY <1>5 DEF Statuses, AbstractJob
<1>6. CASE \E g : Holds(g, j) /\ Replaces(g, j)
  <2>1. PICK g : Holds(g, j) /\ Replaces(g, j)
    BY <1>6
  <2>2. AbstractJob(j).status = g.status
    BY <1>5, <2>1
  <2> QED
    BY <1>4, <2>1, <2>2
<1> QED
  BY <1>3, <1>6 DEF Writes

LEMMA NextLifecycle ==
  ASSUME WellFormed, Exclusive, OneWriter, Phases, Statuses, Statuses', WellFormed',
         [Next]_vars
  PROVE  [Lifecycle!Next]_([j \in Jobs |-> AbstractJob(j)])
<1> DEFINE job == [i \in Jobs |-> AbstractJob(i)]
<1>1. ASSUME \A k \in Jobs : AbstractJob(k)' = AbstractJob(k)
      PROVE  [Lifecycle!Next]_job
  <2>1. job' = job
    BY <1>1
  <2> QED
    BY <2>1
<1>2. ASSUME NEW j \in Jobs, \A k \in Jobs \ {j} : AbstractJob(k)' = AbstractJob(k),
             NEW next, AbstractJob(j)' = next
      PROVE  job' = [job EXCEPT ![j] = next] /\ job[j] = AbstractJob(j)
  BY <1>2
<1>3. ASSUME NEW j \in Jobs, \A k \in Jobs \ {j} : AbstractJob(k)' = AbstractJob(k),
             Drops(j)
      PROVE  [Lifecycle!Next]_job
  <2>1. CASE AbstractJob(j)' = AbstractJob(j)
    BY <1>1, <1>3, <2>1
  <2>2. CASE /\ AbstractJob(j).stored
             /\ AbstractJob(j)' = Lifecycle!Unstored(AbstractJob(j).status)
    BY <1>2, <1>3, <2>2 DEF Lifecycle!Next, Lifecycle!Lapse
  <2>3. CASE /\ AbstractJob(j).status # "gone"
             /\ AbstractJob(j)' = Lifecycle!Unstored("gone")
    BY <1>2, <1>3, <2>3 DEF Lifecycle!Next, Lifecycle!Vanish
  <2> QED
    BY <1>3, <2>1, <2>2, <2>3, DropsAbstract
<1>4. ASSUME NEW j \in Jobs, \A k \in Jobs \ {j} : AbstractJob(k)' = AbstractJob(k),
             Writes(j)
      PROVE  [Lifecycle!Next]_job
  <2>1. CASE AbstractJob(j)' = AbstractJob(j)
    BY <1>1, <1>4, <2>1
  <2>2. ASSUME NEW s, NEW d, Written(j, s, d)
        PROVE  Lifecycle!Write(j, s, d) /\ job[j] = AbstractJob(j)
    BY <1>2, <1>4, <2>2 DEF Written, Lifecycle!Write
  <2>3. CASE AbstractJob(j).status = "none" /\ Written(j, "queued", FALSE)
    BY <2>2, <2>3 DEF Lifecycle!Next, Lifecycle!Create
  <2>4. CASE AbstractJob(j).status = "queued" /\ Written(j, "running", FALSE)
    BY <2>2, <2>4 DEF Lifecycle!Next, Lifecycle!Run
  <2>5. CASE AbstractJob(j).status = "running" /\ Written(j, "done", FALSE)
    BY <2>2, <2>5 DEF Lifecycle!Next, Lifecycle!Finish
  <2>6. CASE /\ AbstractJob(j).status \in {"queued", "running"}
             /\ Written(j, "failed", FALSE)
    BY <2>2, <2>6 DEF Lifecycle!Next, Lifecycle!Fail, Lifecycle!Pending
  <2>7. CASE /\ AbstractJob(j).status \in {"done", "failed"}
             /\ Written(j, AbstractJob(j).status, TRUE)
    BY <2>2, <2>7 DEF Lifecycle!Next, Lifecycle!Dismiss, Lifecycle!Terminal
  <2>8. CASE /\ AbstractJob(j).status \in {"queued", "running"} /\ ~AbstractJob(j).stored
             /\ Written(j, AbstractJob(j).status, FALSE)
    BY <2>2, <2>8 DEF Lifecycle!Next, Lifecycle!Rewrite, Lifecycle!Pending
  <2> QED
    BY <1>4, <2>1, <2>3, <2>4, <2>5, <2>6, <2>7, <2>8, WritesAbstract
<1> HIDE DEF job
<1>5. [Lifecycle!Next]_job
  <2>1. CASE \A k \in Jobs : Stays(k)
    <3>1. \A k \in Jobs : AbstractJob(k)' = AbstractJob(k)
      BY <2>1, StaysTheSame
    <3> QED
      BY <1>1, <3>1
  <2>2. ASSUME NEW j \in Jobs, Drops(j) \/ Writes(j), \A k \in Jobs \ {j} : Stays(k)
        PROVE  [Lifecycle!Next]_job
    <3>1. \A k \in Jobs \ {j} : AbstractJob(k)' = AbstractJob(k)
      BY <2>2, StaysTheSame
    <3> QED
      BY <1>3, <1>4, <2>2, <3>1
  <2> QED
    BY <2>1, <2>2, NextHashes
<1> QED
  BY <1>5 DEF job

\* What the dashboard and every other reader of the job store may rely on: each
\* job is a JobLifecycle, whoever writes its hash in whatever order, whatever
\* expires, is aborted or half submitted, as long as no message is redelivered.
THEOREM JobStoreKeepsLifecycles ==
  ASSUME MaxCrashes = 0
  PROVE  Spec => JobsAreLifecycles
<1>1. Init => Lifecycle!Init
  <2> SUFFICES ASSUME Init PROVE Lifecycle!Init
    OBVIOUS
  <2>1. ASSUME NEW j \in Jobs PROVE AbstractJob(j) = Lifecycle!Unstored("none")
    <3>1. jobs[j] = None /\ submit[j].pc = "new"
      BY DEF Init
    <3> QED
      BY <3>1 DEF AbstractJob, StatusOf, Lifecycle!Unstored
  <2> QED
    BY <2>1 DEF Lifecycle!Init
<1>2. SingleDelivery => Exclusive
  BY DEF SingleDelivery, Exclusive
<1>3. WellFormed /\ WellFormed' /\ Exclusive /\ OneWriter /\ Phases /\ Statuses /\ Statuses'
        /\ [Next]_vars => [Lifecycle!Next]_([j \in Jobs |-> AbstractJob(j)])
  BY NextLifecycle
<1>4. Spec => []Statuses
  BY <1>2, StatusHeld, WellFormedAlways, OneRunAtATime, OneWriterAlways, PTL
<1> QED
  BY <1>1, <1>2, <1>3, <1>4, WellFormedAlways, OneRunAtATime, OneWriterAlways,
     PhasesAlways, PTL DEF Spec, JobsAreLifecycles, Lifecycle!Spec

=============================================================================
