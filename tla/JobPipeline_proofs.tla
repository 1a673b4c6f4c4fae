-------------------------- MODULE JobPipeline_proofs --------------------------
(***************************************************************************)
(* Proofs about JobPipeline, for every set of jobs, files, profiles,       *)
(* workers and dismissing requests and every bound on the faults: crashes, *)
(* aborts, half-way submissions and expiries included.                     *)
(***************************************************************************)
EXTENDS JobPipeline, FiniteSetTheorems, TLAPS

USE StoresAssumption, PipelineAssumption

LEMMA InitWellFormed == Init => WellFormed
<1> SUFFICES ASSUME Init PROVE WellFormed
  OBVIOUS
<1> USE DEF Init, IdleWorker, IdleDismisser
<1>1. TypeOK
  BY DEF TypeOK, SubmitPc, WorkerPc, Submission, WorkerState, Dismissal, Budget
<1>2. ASSUME NEW j \in Jobs PROVE SubmitOK(j)
  BY DEF SubmitOK, Delivered, Running
<1>3. ASSUME NEW w \in Workers PROVE WorkerOK(w)
  BY DEF WorkerOK
<1>4. ASSUME NEW d \in Dismissers PROVE DismissOK(d)
  BY DEF DismissOK
<1> QED
  BY <1>1, <1>2, <1>3, <1>4 DEF WellFormed

LEMMA StutterWellFormed == WellFormed /\ UNCHANGED vars => WellFormed'
BY DEF vars, WellFormed, TypeOK, SubmitOK, WorkerOK, DismissOK, Delivered, Running

-----------------------------------------------------------------------------
(* Steps of one process: the other processes keep their part of the         *)
(* invariant.                                                               *)

StoresTyped ==
  /\ jobs \in [Jobs -> Job \cup {None}]
  /\ videos \in [Jobs -> Video \cup {None}]
  /\ objects \subseteq ObjectKey
  /\ uploads \in [Jobs -> Nat]
  /\ budget \in Budget

LEMMA SubmitFrame ==
  ASSUME WellFormed, NEW j \in Jobs, StoresTyped',
         NEW r \in Submission, submit' = [submit EXCEPT ![j] = r],
         queue' \subseteq queue \cup {j}, SubmitOK(j)',
         UNCHANGED <<worker, dismiss>>
  PROVE  WellFormed'
<1> USE DEF WellFormed
<1>1. TypeOK'
  BY DEF TypeOK, StoresTyped
<1>2. ASSUME NEW k \in Jobs PROVE SubmitOK(k)'
  <2>1. CASE k = j
    BY <2>1
  <2>2. CASE k # j
    <3>1. submit'[k] = submit[k]
      BY <2>2 DEF TypeOK
    <3>2. Delivered(k)' => Delivered(k)
      BY <2>2 DEF Delivered, Running
    <3> QED
      BY <3>1, <3>2 DEF SubmitOK
  <2> QED
    BY <2>1, <2>2
<1>3. ASSUME NEW w \in Workers PROVE WorkerOK(w)'
  BY DEF WorkerOK
<1>4. ASSUME NEW d \in Dismissers PROVE DismissOK(d)'
  BY DEF DismissOK
<1> QED
  BY <1>1, <1>2, <1>3, <1>4

LEMMA WorkerFrame ==
  ASSUME WellFormed, NEW w \in Workers, StoresTyped',
         NEW r \in WorkerState, worker' = [worker EXCEPT ![w] = r],
         WorkerOK(w)',
         r.job = None \/ r.job = worker[w].job \/ r.job \in queue,
         queue' \subseteq queue \cup ({worker[w].job} \ {None}),
         UNCHANGED <<submit, dismiss>>
  PROVE  WellFormed'
<1> USE DEF WellFormed
<1>1. /\ worker' \in [Workers -> WorkerState]
      /\ worker'[w] = r
      /\ \A x \in Workers \ {w} : worker'[x] = worker[x]
  BY DEF TypeOK
<1>2. worker[w] \in WorkerState
  BY DEF TypeOK
<1>3. TypeOK'
  BY <1>1, <1>2 DEF TypeOK, StoresTyped, WorkerState
<1>4. ASSUME NEW k \in Jobs PROVE SubmitOK(k)'
  <2>1. Delivered(k)' => Delivered(k)
    BY <1>1 DEF Delivered, Running
  <2> QED
    BY <2>1 DEF SubmitOK
<1>5. ASSUME NEW x \in Workers PROVE WorkerOK(x)'
  BY <1>1 DEF WorkerOK
<1>6. ASSUME NEW d \in Dismissers PROVE DismissOK(d)'
  BY DEF DismissOK
<1> QED
  BY <1>3, <1>4, <1>5, <1>6

LEMMA DismissFrame ==
  ASSUME WellFormed, NEW d \in Dismissers, StoresTyped',
         NEW r \in Dismissal, dismiss' = [dismiss EXCEPT ![d] = r],
         r.snap # None => r.pc = "update" /\ r.job \in Jobs,
         UNCHANGED <<submit, worker, queue>>
  PROVE  WellFormed'
<1> USE DEF WellFormed
<1>1. TypeOK'
  BY DEF TypeOK, StoresTyped
<1>2. ASSUME NEW k \in Jobs PROVE SubmitOK(k)'
  BY DEF SubmitOK, Delivered, Running
<1>3. ASSUME NEW w \in Workers PROVE WorkerOK(w)'
  BY DEF WorkerOK
<1>4. ASSUME NEW e \in Dismissers PROVE DismissOK(e)'
  BY DEF DismissOK, TypeOK
<1> QED
  BY <1>1, <1>2, <1>3, <1>4

-----------------------------------------------------------------------------
(* POST /jobs.                                                              *)

LEMMA SubmitWellFormed ==
  ASSUME WellFormed, NEW j \in Jobs, Submit(j)
  PROVE  WellFormed'
<1>1. /\ UNCHANGED <<jobs, videos, objects, uploads, queue, worker, dismiss, budget>>
      /\ submit[j].pc = "new"
  BY DEF Submit
<1>2. PICK file \in Files, profile \in Requests, quality \in Qualities :
        \/ /\ profile \in Implemented \cup {"auto"}
           /\ submit' = [submit EXCEPT ![j] =
                [ pc |-> "create_job", file |-> file, profile |-> profile,
                  max_quality |-> quality, snap |-> None ]]
        \/ submit' = [submit EXCEPT ![j].pc = "rejected"]
  BY DEF Submit, Acceptable
<1>3. StoresTyped' /\ submit[j] \in Submission /\ SubmitOK(j)
  BY <1>1 DEF StoresTyped, WellFormed, TypeOK
<1>4. submit[j].snap = None /\ ~Delivered(j)
  BY <1>1, <1>3 DEF SubmitOK
<1>5. ~Delivered(j)'
  BY <1>1, <1>4 DEF Delivered, Running
<1>6. CASE /\ profile \in Implemented \cup {"auto"}
           /\ submit' = [submit EXCEPT ![j] =
                [ pc |-> "create_job", file |-> file, profile |-> profile,
                  max_quality |-> quality, snap |-> None ]]
  <2> DEFINE r == [ pc |-> "create_job", file |-> file, profile |-> profile,
                    max_quality |-> quality, snap |-> None ]
  <2>1. r \in Submission
    BY <1>6 DEF Submission, SubmitPc
  <2>2. submit'[j] = r
    BY <1>6 DEF WellFormed, TypeOK
  <2>3. SubmitOK(j)'
    BY <1>5, <1>6, <2>2 DEF SubmitOK
  <2> QED
    BY <1>1, <1>3, <1>6, <2>1, <2>3, SubmitFrame
<1>7. CASE submit' = [submit EXCEPT ![j].pc = "rejected"]
  <2> DEFINE r == [submit[j] EXCEPT !.pc = "rejected"]
  <2>1. r \in Submission
    BY <1>3 DEF Submission, SubmitPc
  <2>2. submit' = [submit EXCEPT ![j] = r]
    BY <1>7
  <2>3. SubmitOK(j)'
    BY <1>3, <1>4, <1>5, <2>2 DEF SubmitOK, Submission, WellFormed, TypeOK
  <2> QED
    BY <1>1, <1>3, <2>1, <2>2, <2>3, SubmitFrame
<1> QED
  BY <1>2, <1>6, <1>7

LEMMA CreateJobWellFormed ==
  ASSUME WellFormed, NEW j \in Jobs, CreateJob(j)
  PROVE  WellFormed'
<1> DEFINE r == [submit[j] EXCEPT !.pc = "create_video"]
<1>1. submit[j] \in Submission /\ SubmitOK(j) /\ submit[j].pc = "create_job"
  BY DEF CreateJob, WellFormed, TypeOK
<1>2. r \in Submission /\ submit' = [submit EXCEPT ![j] = r]
  BY <1>1 DEF CreateJob, Submission, SubmitPc
<1>3. NewJob(submit[j].file, submit[j].profile, submit[j].max_quality) \in Job
  BY <1>1 DEF NewJob, Job, JobStatus, SubmitOK, Submission
<1>4. StoresTyped'
  BY <1>3 DEF CreateJob, StoresTyped, WellFormed, TypeOK
<1>5. SubmitOK(j)'
  BY <1>1, <1>2 DEF CreateJob, SubmitOK, Delivered, Running, Submission, WellFormed, TypeOK
<1> QED
  BY <1>2, <1>4, <1>5, SubmitFrame DEF CreateJob

LEMMA CreateVideoWellFormed ==
  ASSUME WellFormed, NEW j \in Jobs, CreateVideo(j)
  PROVE  WellFormed'
<1> DEFINE v == NewVideo(submit[j].file, submit[j].profile, submit[j].max_quality)
<1>1. submit[j] \in Submission /\ SubmitOK(j) /\ submit[j].pc = "create_video"
  BY DEF CreateVideo, WellFormed, TypeOK
<1>2. v \in Video
  BY <1>1 DEF NewVideo, Video, VideoStatus, SubmitOK, Submission
<1>3. PICK pc \in {"send", "duplicate"} : submit' = [submit EXCEPT ![j].pc = pc]
  BY DEF CreateVideo
<1> DEFINE r == [submit[j] EXCEPT !.pc = pc]
<1>4. r \in Submission /\ submit' = [submit EXCEPT ![j] = r]
  BY <1>1, <1>3 DEF Submission, SubmitPc
<1>5. StoresTyped'
  BY <1>2 DEF CreateVideo, StoresTyped, WellFormed, TypeOK
<1>6. SubmitOK(j)'
  BY <1>1, <1>4 DEF CreateVideo, SubmitOK, Delivered, Running, Submission, WellFormed, TypeOK
<1> QED
  BY <1>4, <1>5, <1>6, SubmitFrame DEF CreateVideo

LEMMA ReadDuplicateWellFormed ==
  ASSUME WellFormed, NEW j \in Jobs, ReadDuplicate(j)
  PROVE  WellFormed'
<1>1. submit[j] \in Submission /\ SubmitOK(j) /\ submit[j].pc = "duplicate"
  BY DEF ReadDuplicate, WellFormed, TypeOK
<1> DEFINE r == IF jobs[j] = None THEN [submit[j] EXCEPT !.pc = "died"]
                ELSE [submit[j] EXCEPT !.snap = jobs[j]]
<1>2. r \in Submission /\ submit' = [submit EXCEPT ![j] = r]
  BY <1>1 DEF ReadDuplicate, Submission, SubmitPc, WellFormed, TypeOK
<1>3. StoresTyped'
  BY DEF ReadDuplicate, StoresTyped, WellFormed, TypeOK
<1>4. SubmitOK(j)'
  BY <1>1, <1>2 DEF ReadDuplicate, SubmitOK, Delivered, Running, Submission, WellFormed, TypeOK
<1> QED
  BY <1>2, <1>3, <1>4, SubmitFrame DEF ReadDuplicate

LEMMA FailDuplicateWellFormed ==
  ASSUME WellFormed, NEW j \in Jobs, FailDuplicate(j)
  PROVE  WellFormed'
<1>1. submit[j] \in Submission /\ SubmitOK(j) /\ submit[j].pc = "duplicate"
  BY DEF FailDuplicate, WellFormed, TypeOK
<1> DEFINE r == [submit[j] EXCEPT !.pc = "rejected", !.snap = None]
<1>2. r \in Submission /\ submit' = [submit EXCEPT ![j] = r]
  BY <1>1 DEF FailDuplicate, Submission, SubmitPc
<1>3. [submit[j].snap EXCEPT !.status = "failed", !.error = TRUE] \in Job
  BY <1>1 DEF FailDuplicate, Submission, Job, JobStatus
<1>4. StoresTyped'
  BY <1>3 DEF FailDuplicate, StoresTyped, WellFormed, TypeOK
<1>5. SubmitOK(j)'
  BY <1>1, <1>2 DEF FailDuplicate, SubmitOK, Delivered, Running, Submission, WellFormed, TypeOK
<1> QED
  BY <1>2, <1>4, <1>5, SubmitFrame DEF FailDuplicate

LEMMA SendWellFormed ==
  ASSUME WellFormed, NEW j \in Jobs, Send(j)
  PROVE  WellFormed'
<1>1. submit[j] \in Submission /\ SubmitOK(j) /\ submit[j].pc = "send"
  BY DEF Send, WellFormed, TypeOK
<1> DEFINE r == [submit[j] EXCEPT !.pc = "accepted"]
<1>2. r \in Submission /\ submit' = [submit EXCEPT ![j] = r]
  BY <1>1 DEF Send, Submission, SubmitPc
<1>3. StoresTyped'
  BY DEF Send, StoresTyped, WellFormed, TypeOK
<1>4. SubmitOK(j)'
  BY <1>1, <1>2 DEF Send, SubmitOK, Submission, WellFormed, TypeOK
<1> QED
  BY <1>2, <1>3, <1>4, SubmitFrame DEF Send

LEMMA SubmitDiesWellFormed ==
  ASSUME WellFormed, NEW j \in Jobs, SubmitDies(j)
  PROVE  WellFormed'
<1>1. submit[j] \in Submission /\ SubmitOK(j)
      /\ submit[j].pc \in {"create_job", "create_video", "duplicate", "send"}
  BY DEF SubmitDies, WellFormed, TypeOK
<1> DEFINE r == [submit[j] EXCEPT !.pc = "died", !.snap = None]
<1>2. r \in Submission /\ submit' = [submit EXCEPT ![j] = r]
  BY <1>1 DEF SubmitDies, Submission, SubmitPc
<1>3. StoresTyped'
  BY DEF SubmitDies, StoresTyped, WellFormed, TypeOK, Budget
<1>4. SubmitOK(j)'
  BY <1>1, <1>2 DEF SubmitDies, SubmitOK, Delivered, Running, Submission, WellFormed, TypeOK
<1> QED
  BY <1>2, <1>3, <1>4, SubmitFrame DEF SubmitDies

-----------------------------------------------------------------------------
(* The worker.                                                              *)

\* A step that takes worker w from one point of run_job to another.
LEMMA MoveWellFormed ==
  ASSUME WellFormed, NEW w \in Workers, StoresTyped',
         NEW r \in WorkerState, worker' = [worker EXCEPT ![w] = r],
         worker[w].pc # "idle", r.pc # "idle", r.job = worker[w].job,
         r.pc \in {"resolve", "fail", "fail_video", "ack"}
           \/ r.profile \in Implemented,
         r.pc \in {"thumbnail", "clips", "name", "done"}
           => r.result_key \in ResultKey,
         r.snap # None => r.pc \in UpdatePc,
         UNCHANGED <<queue, submit, dismiss>>
  PROVE  WellFormed'
<1>1. WorkerOK(w) /\ worker'[w] = r
  BY DEF WellFormed, TypeOK
<1>2. WorkerOK(w)'
  BY <1>1 DEF WorkerOK
<1> QED
  BY <1>1, <1>2, WorkerFrame

LEMMA PickupWellFormed ==
  ASSUME WellFormed, NEW w \in Workers, NEW j \in Jobs, Pickup(w, j)
  PROVE  WellFormed'
<1> DEFINE r == [IdleWorker EXCEPT
                   !.pc = IF jobs[j] = None THEN "ack" ELSE "resolve", !.job = j]
<1>1. worker' = [worker EXCEPT ![w] = r]
  BY DEF Pickup
<1>2. r \in WorkerState /\ r.job = j /\ r.snap = None /\ r.pc \in {"ack", "resolve"}
  BY DEF IdleWorker, WorkerState, WorkerPc
<1>3. StoresTyped' /\ worker'[w] = r /\ j \in queue
  BY <1>1 DEF Pickup, StoresTyped, WellFormed, TypeOK
<1>4. WorkerOK(w)'
  BY <1>2, <1>3 DEF WorkerOK
<1>5. queue' \subseteq queue /\ UNCHANGED <<submit, dismiss>>
  BY DEF Pickup
<1> HIDE DEF r
<1> QED
  BY <1>1, <1>2, <1>3, <1>4, <1>5, WorkerFrame

LEMMA ResolveWellFormed ==
  ASSUME WellFormed, NEW w \in Workers, Resolve(w)
  PROVE  WellFormed'
<1> DEFINE j == worker[w].job
           requested == submit[j].profile
<1>1. /\ worker[w] \in WorkerState /\ WorkerOK(w) /\ worker[w].pc = "resolve"
      /\ StoresTyped'
  BY DEF Resolve, StoresTyped, WellFormed, TypeOK
<1>2. j \in Jobs /\ worker[w].snap = None
  BY <1>1 DEF WorkerState, WorkerOK, UpdatePc
<1>3. requested \in Implemented \cup {"auto"}
  <2>1. SubmitOK(j) /\ Delivered(j)
    BY <1>2 DEF WellFormed, Delivered, Running
  <2> QED
    BY <2>1 DEF SubmitOK
<1>4. CASE \E p \in IF requested = "auto" THEN Implemented ELSE {requested} :
             worker' = [worker EXCEPT ![w] = [@ EXCEPT !.pc = "resolved", !.profile = p]]
  <2>1. PICK p \in Implemented :
          worker' = [worker EXCEPT ![w] = [@ EXCEPT !.pc = "resolved", !.profile = p]]
    BY <1>3, <1>4
  <2> DEFINE r == [worker[w] EXCEPT !.pc = "resolved", !.profile = p]
  <2>2. r \in WorkerState /\ r.job = j /\ r.snap = None /\ r.profile = p /\ r.pc = "resolved"
    BY <1>1, <1>2 DEF WorkerState, WorkerPc
  <2>3. worker' = [worker EXCEPT ![w] = r]
    BY <2>1
  <2> QED
    BY <1>1, <2>2, <2>3, MoveWellFormed DEF Resolve
<1>5. CASE Goto(w, "fail")
  <2> DEFINE r == [worker[w] EXCEPT !.pc = "fail"]
  <2>1. r \in WorkerState /\ r.job = j /\ r.snap = None /\ r.pc = "fail"
    BY <1>1, <1>2 DEF WorkerState, WorkerPc
  <2>2. worker' = [worker EXCEPT ![w] = r]
    BY <1>5 DEF Goto
  <2> QED
    BY <1>1, <2>1, <2>2, MoveWellFormed DEF Resolve
<1> QED
  BY <1>4, <1>5 DEF Resolve

\* A step that only moves the program counter.
LEMMA GotoWellFormed ==
  ASSUME WellFormed, NEW w \in Workers, StoresTyped',
         NEW pc \in WorkerPc \ {"idle"}, Goto(w, pc),
         worker[w].pc # "idle", worker[w].pc \notin UpdatePc,
         pc \in {"fail", "fail_video", "ack"}
           \/ /\ worker[w].pc \notin {"resolve", "fail", "fail_video", "ack"}
              /\ pc \notin {"resolve", "thumbnail", "clips", "name", "done"}
           \/ /\ worker[w].pc \in {"thumbnail", "clips", "name"}
              /\ pc \in {"clips", "name", "done"},
         UNCHANGED <<queue, submit, dismiss>>
  PROVE  WellFormed'
<1> DEFINE r == [worker[w] EXCEPT !.pc = pc]
<1>1. worker[w] \in WorkerState /\ WorkerOK(w)
  BY DEF WellFormed, TypeOK
<1>2. worker[w].snap = None
  BY <1>1 DEF WorkerOK
<1>3. /\ r \in WorkerState /\ r.job = worker[w].job /\ r.snap = None /\ r.pc = pc
      /\ r.profile = worker[w].profile /\ r.result_key = worker[w].result_key
  BY <1>1, <1>2 DEF WorkerState
<1>4. worker' = [worker EXCEPT ![w] = r]
  BY DEF Goto
<1>5. pc \in {"fail", "fail_video", "ack"} \/ r.profile \in Implemented
  BY <1>1, <1>3 DEF WorkerOK
<1>6. pc \in {"thumbnail", "clips", "name", "done"} => r.result_key \in ResultKey
  BY <1>1, <1>3 DEF WorkerOK
<1> QED
  BY <1>3, <1>4, <1>5, <1>6, MoveWellFormed

LEMMA CheckRunnableWellFormed ==
  ASSUME WellFormed, NEW w \in Workers, CheckRunnable(w)
  PROVE  WellFormed'
<1>1. StoresTyped' /\ worker[w].pc = "check"
  BY DEF CheckRunnable, StoresTyped, WellFormed, TypeOK
<1>2. PICK pc \in {"start", "fail"} : Goto(w, pc)
  BY DEF CheckRunnable
<1> QED
  BY <1>1, <1>2, GotoWellFormed DEF CheckRunnable, WorkerPc, UpdatePc

LEMMA DownloadWellFormed ==
  ASSUME WellFormed, NEW w \in Workers, Download(w)
  PROVE  WellFormed'
<1>1. StoresTyped' /\ worker[w].pc = "download"
  BY DEF Download, StoresTyped, WellFormed, TypeOK
<1>2. PICK pc \in {"processing", "fail"} : Goto(w, pc)
  BY DEF Download
<1> QED
  BY <1>1, <1>2, GotoWellFormed DEF Download, WorkerPc, UpdatePc

LEMMA EncodeWellFormed ==
  ASSUME WellFormed, NEW w \in Workers, Encode(w)
  PROVE  WellFormed'
<1>1. /\ StoresTyped' /\ worker[w].pc = "encode"
      /\ worker[w] \in WorkerState /\ WorkerOK(w)
  BY DEF Encode, StoresTyped, WellFormed, TypeOK
<1>2. CASE \E pc \in {"uploading", "fail"} : Goto(w, pc)
  BY <1>1, <1>2, GotoWellFormed DEF Encode, WorkerPc, UpdatePc
<1>3. CASE worker' = [worker EXCEPT ![w] = [worker[w] EXCEPT
                         !.pc = "progress", !.ticks = worker[w].ticks + 1]]
  <2>1. worker[w].profile \in Implemented
    BY <1>1 DEF WorkerOK
  <2>t. PICK t \in Nat : t = worker[w].ticks + 1
    BY <1>1 DEF WorkerState
  <2> DEFINE r == [worker[w] EXCEPT !.pc = "progress", !.ticks = t]
  <2>2. /\ r \in WorkerState /\ r.job = worker[w].job /\ r.pc = "progress"
        /\ r.profile = worker[w].profile
    BY <1>1 DEF WorkerState, WorkerPc
  <2>3. worker' = [worker EXCEPT ![w] = r]
    BY <1>3, <2>t
  <2> QED
    BY <1>1, <2>1, <2>2, <2>3, MoveWellFormed DEF Encode, UpdatePc
<1> QED
  BY <1>2, <1>3 DEF Encode

LEMMA UploadFailsWellFormed ==
  ASSUME WellFormed, NEW w \in Workers, UploadFails(w)
  PROVE  WellFormed'
<1>1. StoresTyped' /\ worker[w].pc \in {"result", "thumbnail", "clips"}
  BY DEF UploadFails, StoresTyped, WellFormed, TypeOK
<1> QED
  BY <1>1, GotoWellFormed DEF UploadFails, WorkerPc, UpdatePc

LEMMA FailVideoWellFormed ==
  ASSUME WellFormed, NEW w \in Workers, FailVideo(w)
  PROVE  WellFormed'
<1>1. /\ worker[w].pc = "fail_video"
      /\ \A j \in Jobs : videos[j] # None => [videos[j] EXCEPT !.status = "failed"] \in Video
  BY DEF FailVideo, WellFormed, TypeOK, Video, VideoStatus
<1>2. StoresTyped'
  BY <1>1 DEF FailVideo, StoresTyped, WellFormed, TypeOK
<1> QED
  BY <1>1, <1>2, GotoWellFormed DEF FailVideo, WorkerPc, UpdatePc

LEMMA ReadJobWellFormed ==
  ASSUME WellFormed, NEW w \in Workers, ReadJob(w)
  PROVE  WellFormed'
<1> DEFINE j == worker[w].job
<1>1. /\ worker[w] \in WorkerState /\ WorkerOK(w) /\ StoresTyped'
      /\ worker[w].pc \in UpdatePc /\ worker[w].snap = None
  BY DEF ReadJob, StoresTyped, WellFormed, TypeOK
<1>2. j \in Jobs
  BY <1>1 DEF WorkerOK, WorkerState, UpdatePc
<1>3. CASE jobs[j] = None
  <2> DEFINE r == [worker[w] EXCEPT !.pc = "ack"]
  <2>1. r \in WorkerState /\ r.job = j /\ r.snap = None /\ r.pc = "ack"
    BY <1>1 DEF WorkerState, WorkerPc
  <2>2. worker' = [worker EXCEPT ![w] = r]
    BY <1>3 DEF ReadJob
  <2> QED
    BY <1>1, <2>1, <2>2, MoveWellFormed DEF ReadJob, UpdatePc
<1>4. CASE jobs[j] # None
  <2> DEFINE r == [worker[w] EXCEPT !.snap = jobs[j]]
  <2>1. /\ r \in WorkerState /\ r.job = j /\ r.pc = worker[w].pc
        /\ r.profile = worker[w].profile /\ r.result_key = worker[w].result_key
    BY <1>1, <1>2 DEF WorkerState, WellFormed, TypeOK
  <2>2. worker' = [worker EXCEPT ![w] = r]
    BY <1>4 DEF ReadJob
  <2>3. r.pc \in {"fail", "ack"} \/ r.profile \in Implemented
    BY <1>1, <2>1 DEF WorkerOK, UpdatePc
  <2>4. r.pc = "done" => r.result_key \in ResultKey
    BY <1>1, <2>1 DEF WorkerOK
  <2> QED
    BY <1>1, <2>1, <2>2, <2>3, <2>4, MoveWellFormed DEF ReadJob, UpdatePc
<1> QED
  BY <1>3, <1>4

LEMMA WriteJobWellFormed ==
  ASSUME WellFormed, NEW w \in Workers,
         NEW at \in UpdatePc, NEW updated \in Job,
         NEW next \in {"check", "download", "encode", "result", "ack", "fail_video"},
         at = "fail" => next = "fail_video",
         WriteJob(w, at, updated, next)
  PROVE  WellFormed'
<1>1. /\ worker[w] \in WorkerState /\ WorkerOK(w) /\ StoresTyped'
      /\ worker[w].pc = at
  BY DEF WriteJob, StoresTyped, WellFormed, TypeOK
<1> DEFINE r == [worker[w] EXCEPT !.pc = next, !.snap = None]
<1>2. /\ r \in WorkerState /\ r.job = worker[w].job /\ r.pc = next /\ r.snap = None
      /\ r.profile = worker[w].profile
  BY <1>1 DEF WorkerState, WorkerPc
<1>3. worker' = [worker EXCEPT ![w] = r]
  BY DEF WriteJob
<1>4. r.pc \in {"fail_video", "ack"} \/ r.profile \in Implemented
  BY <1>1, <1>2 DEF WorkerOK, UpdatePc
<1> QED
  BY <1>1, <1>2, <1>3, <1>4, MoveWellFormed DEF WriteJob, UpdatePc

LEMMA WriteStepWellFormed ==
  ASSUME WellFormed, NEW w \in Workers, WriteStep(w)
  PROVE  WellFormed'
<1> DEFINE s == worker[w].snap
<1>1. worker[w] \in WorkerState /\ WorkerOK(w)
  BY DEF WellFormed, TypeOK
<1>2. s # None => s \in Job
  BY <1>1 DEF WorkerState
<1> USE DEF Job, JobStatus, JobStage, UpdatePc
<1>3. CASE RecordResolved(w)
  <2>1. [s EXCEPT !.resolved_profile = worker[w].profile] \in Job
    BY <1>1, <1>2, <1>3 DEF RecordResolved, WriteJob, WorkerState
  <2> QED
    BY <1>3, <2>1, WriteJobWellFormed DEF RecordResolved
<1>4. CASE StartRunning(w)
  <2>1. [s EXCEPT !.status = "running", !.stage = "downloading"] \in Job
    BY <1>2, <1>4 DEF StartRunning, WriteJob
  <2> QED
    BY <1>4, <2>1, WriteJobWellFormed DEF StartRunning
<1>5. CASE StartProcessing(w)
  <2>1. [s EXCEPT !.stage = "processing"] \in Job
    BY <1>2, <1>5 DEF StartProcessing, WriteJob
  <2> QED
    BY <1>5, <2>1, WriteJobWellFormed DEF StartProcessing
<1>6. CASE RecordProgress(w)
  <2>1. s \in Job
    BY <1>2, <1>6 DEF RecordProgress, WriteJob
  <2> QED
    BY <1>6, <2>1, WriteJobWellFormed DEF RecordProgress
<1>7. CASE StartUploading(w)
  <2>1. [s EXCEPT !.stage = "uploading_result"] \in Job
    BY <1>2, <1>7 DEF StartUploading, WriteJob
  <2> QED
    BY <1>7, <2>1, WriteJobWellFormed DEF StartUploading
<1>8. CASE CompleteJob(w)
  <2>1. [s EXCEPT !.status = "done", !.stage = None,
                  !.result_key = worker[w].result_key] \in Job
    BY <1>1, <1>2, <1>8 DEF CompleteJob, WriteJob, WorkerState
  <2> QED
    BY <1>8, <2>1, WriteJobWellFormed DEF CompleteJob
<1>9. CASE RecordFailure(w)
  <2>1. [s EXCEPT !.status = "failed", !.error = TRUE] \in Job
    BY <1>2, <1>9 DEF RecordFailure, WriteJob
  <2> QED
    BY <1>9, <2>1, WriteJobWellFormed DEF RecordFailure
<1> QED
  BY <1>3, <1>4, <1>5, <1>6, <1>7, <1>8, <1>9 DEF WriteStep

LEMMA UploadResultWellFormed ==
  ASSUME WellFormed, NEW w \in Workers, UploadResult(w)
  PROVE  WellFormed'
<1> DEFINE j == worker[w].job
<1>1. worker[w] \in WorkerState /\ WorkerOK(w) /\ worker[w].pc = "result"
  BY DEF UploadResult, WellFormed, TypeOK
<1>2. j \in Jobs /\ worker[w].profile \in Implemented /\ worker[w].snap = None
  BY <1>1 DEF WorkerState, WorkerOK, UpdatePc
<1>3. uploads[j] + 1 \in Nat \ {0}
  BY <1>2 DEF WellFormed, TypeOK
<1> DEFINE key == <<j, "result", uploads[j] + 1>>
<1>4. key \in ResultKey
  BY <1>2, <1>3 DEF ResultKey
<1>5. /\ uploads' = [uploads EXCEPT ![j] = uploads[j] + 1]
      /\ objects' = objects \cup {key}
      /\ worker' = [worker EXCEPT ![w] =
           [worker[w] EXCEPT !.pc = "thumbnail", !.result_key = key]]
      /\ UNCHANGED <<jobs, videos, queue, submit, dismiss, budget>>
  BY DEF UploadResult
<1> HIDE DEF key
<1>6. StoresTyped'
  <2>1. uploads' \in [Jobs -> Nat]
    BY <1>2, <1>3, <1>5 DEF WellFormed, TypeOK
  <2>2. objects' \subseteq ObjectKey
    BY <1>4, <1>5 DEF ObjectKey, WellFormed, TypeOK
  <2> QED
    BY <1>5, <2>1, <2>2 DEF StoresTyped, WellFormed, TypeOK
<1> DEFINE r == [worker[w] EXCEPT !.pc = "thumbnail", !.result_key = key]
<1>7. /\ r \in WorkerState /\ r.job = j /\ r.pc = "thumbnail" /\ r.snap = None
      /\ r.profile = worker[w].profile /\ r.result_key = key
  BY <1>1, <1>2, <1>4 DEF WorkerState, WorkerPc
<1> QED
  BY <1>1, <1>2, <1>4, <1>5, <1>6, <1>7, MoveWellFormed

LEMMA UploadThumbnailWellFormed ==
  ASSUME WellFormed, NEW w \in Workers, UploadThumbnail(w)
  PROVE  WellFormed'
<1>1. /\ worker[w] \in WorkerState /\ WorkerOK(w) /\ worker[w].pc = "thumbnail"
      /\ Goto(w, "clips")
  BY DEF UploadThumbnail, WellFormed, TypeOK
<1>2. ThumbnailKey(worker[w].job) \in ObjectKey
  BY <1>1 DEF WorkerState, WorkerOK, ThumbnailKey, ObjectKey
<1>3. StoresTyped'
  BY <1>2 DEF UploadThumbnail, StoresTyped, WellFormed, TypeOK
<1> QED
  BY <1>1, <1>3, GotoWellFormed DEF UploadThumbnail, WorkerPc, UpdatePc

LEMMA UploadClipsWellFormed ==
  ASSUME WellFormed, NEW w \in Workers, UploadClips(w)
  PROVE  WellFormed'
<1>1. worker[w] \in WorkerState /\ WorkerOK(w) /\ worker[w].pc = "clips"
  BY DEF UploadClips, WellFormed, TypeOK
<1>2. ClipsKey(worker[w].job) \in ObjectKey
  BY <1>1 DEF WorkerState, WorkerOK, ClipsKey, ObjectKey
<1>3. StoresTyped'
  BY <1>2 DEF UploadClips, StoresTyped, WellFormed, TypeOK
<1> DEFINE r == [worker[w] EXCEPT !.pc = "name", !.attempt = 0]
<1>4. /\ r \in WorkerState /\ r.job = worker[w].job /\ r.pc = "name" /\ r.snap = None
      /\ r.profile \in Implemented /\ r.result_key \in ResultKey
  BY <1>1 DEF WorkerState, WorkerPc, WorkerOK, UpdatePc
<1>5. worker' = [worker EXCEPT ![w] = r]
  BY DEF UploadClips
<1> QED
  BY <1>1, <1>3, <1>4, <1>5, MoveWellFormed DEF UploadClips

LEMMA PublishedTyped ==
  ASSUME WellFormed, NEW w \in Workers, worker[w].pc = "name",
         videos[worker[w].job] # None
  PROVE  Published(w) \in Video
<1> DEFINE j == worker[w].job
<1>1. worker[w] \in WorkerState /\ WorkerOK(w)
  BY DEF WellFormed, TypeOK
<1>2. /\ j \in Jobs /\ worker[w].profile \in Implemented
      /\ worker[w].result_key \in ResultKey /\ worker[w].attempt \in Nat
  BY <1>1 DEF WorkerState, WorkerOK
<1>3. submit[j].file \in Files
  <2>1. SubmitOK(j) /\ Delivered(j)
    BY <1>2 DEF WellFormed, Delivered, Running
  <2> QED
    BY <2>1 DEF SubmitOK
<1> DEFINE name == MakeDisplayName(j, submit[j].file, worker[w].profile, worker[w].attempt)
<1>4. name \in DisplayName
  BY <1>2, <1>3 DEF MakeDisplayName, DisplayName
<1>5. videos[j] \in Video
  BY <1>2 DEF WellFormed, TypeOK
<1> HIDE DEF name
<1>6. [videos[j] EXCEPT !.status = "done", !.profile = worker[w].profile,
         !.display_name = name, !.result_key = worker[w].result_key,
         !.previews = TRUE] \in Video
  BY <1>2, <1>4, <1>5 DEF Video, VideoStatus
<1> QED
  BY <1>6 DEF Published, name

LEMMA PublishVideoWellFormed ==
  ASSUME WellFormed, NEW w \in Workers, PublishVideo(w)
  PROVE  WellFormed'
<1> DEFINE j == worker[w].job
<1>1. /\ worker[w] \in WorkerState /\ WorkerOK(w) /\ worker[w].pc = "name"
      /\ UNCHANGED <<jobs, objects, uploads, queue, submit, dismiss, budget>>
  BY DEF PublishVideo, WellFormed, TypeOK
<1>2. /\ worker[w].profile \in Implemented /\ worker[w].result_key \in ResultKey
      /\ worker[w].snap = None
  BY <1>1 DEF WorkerOK, UpdatePc
<1>3. CASE Goto(w, "fail") /\ UNCHANGED videos
  <2>1. StoresTyped'
    BY <1>1, <1>3 DEF StoresTyped, WellFormed, TypeOK
  <2> QED
    BY <1>1, <1>3, <2>1, GotoWellFormed DEF WorkerPc, UpdatePc
<1>4. CASE /\ videos[j] # None
           /\ videos' = [videos EXCEPT ![j] = Published(w)]
           /\ Goto(w, "done")
  <2>1. Published(w) \in Video
    BY <1>1, <1>4, PublishedTyped
  <2>2. StoresTyped'
    BY <1>1, <1>4, <2>1 DEF StoresTyped, WellFormed, TypeOK
  <2> QED
    BY <1>1, <1>4, <2>2, GotoWellFormed DEF WorkerPc, UpdatePc
<1>5. CASE NextName(w) /\ UNCHANGED videos
  <2>1. PICK n \in Nat : n = worker[w].attempt + 1
    BY <1>1 DEF WorkerState
  <2>2. PICK pc \in {"name", "fail"} :
          worker' = [worker EXCEPT ![w] = [worker[w] EXCEPT !.attempt = n, !.pc = pc]]
    BY <1>5, <2>1 DEF NextName
  <2> DEFINE r == [worker[w] EXCEPT !.attempt = n, !.pc = pc]
  <2>3. /\ r \in WorkerState /\ r.job = worker[w].job /\ r.pc = pc /\ r.snap = None
        /\ r.profile = worker[w].profile /\ r.result_key = worker[w].result_key
    BY <1>1, <1>2 DEF WorkerState, WorkerPc
  <2>4. StoresTyped'
    BY <1>1, <1>5 DEF StoresTyped, WellFormed, TypeOK
  <2> QED
    BY <1>1, <1>2, <2>2, <2>3, <2>4, MoveWellFormed
<1> QED
  BY <1>3, <1>4, <1>5 DEF PublishVideo

LEMMA IdleWellFormed ==
  ASSUME WellFormed, NEW w \in Workers, StoresTyped',
         worker' = [worker EXCEPT ![w] = IdleWorker],
         queue' \subseteq queue \cup ({worker[w].job} \ {None}),
         UNCHANGED <<submit, dismiss>>
  PROVE  WellFormed'
<1>1. IdleWorker \in WorkerState /\ IdleWorker.job = None /\ IdleWorker.pc = "idle"
      /\ IdleWorker.snap = None
  BY DEF IdleWorker, WorkerState, WorkerPc
<1>2. worker'[w] = IdleWorker
  BY DEF WellFormed, TypeOK
<1>3. WorkerOK(w)'
  BY <1>1, <1>2 DEF WorkerOK
<1> QED
  BY <1>1, <1>3, WorkerFrame

LEMMA AckWellFormed ==
  ASSUME WellFormed, NEW w \in Workers, Ack(w)
  PROVE  WellFormed'
<1>1. StoresTyped'
  BY DEF Ack, StoresTyped, WellFormed, TypeOK
<1> QED
  BY <1>1, IdleWellFormed DEF Ack

LEMMA CrashWellFormed ==
  ASSUME WellFormed, NEW w \in Workers, Crash(w)
  PROVE  WellFormed'
<1>1. StoresTyped'
  BY DEF Crash, StoresTyped, WellFormed, TypeOK, Budget
<1>2. worker[w].job # None
  BY DEF Crash, WellFormed, WorkerOK
<1> QED
  BY <1>1, <1>2, IdleWellFormed DEF Crash

LEMMA AbortWellFormed ==
  ASSUME WellFormed, NEW w \in Workers, Abort(w)
  PROVE  WellFormed'
<1>1. /\ worker[w] \in WorkerState /\ worker[w].pc # "idle" /\ StoresTyped'
  BY DEF Abort, StoresTyped, WellFormed, TypeOK, Budget
<1> DEFINE r == [worker[w] EXCEPT !.pc = "ack", !.snap = None]
<1>2. r \in WorkerState /\ r.job = worker[w].job /\ r.pc = "ack" /\ r.snap = None
  BY <1>1 DEF WorkerState, WorkerPc
<1>3. worker' = [worker EXCEPT ![w] = r]
  BY DEF Abort
<1> QED
  BY <1>1, <1>2, <1>3, MoveWellFormed DEF Abort

-----------------------------------------------------------------------------
(* Dismissing, and the TTL.                                                 *)

LEMMA DismissWellFormed ==
  ASSUME WellFormed, NEW d \in Dismissers, DismissStep(d)
  PROVE  WellFormed'
<1>1. dismiss[d] \in Dismissal /\ DismissOK(d)
  BY DEF WellFormed, TypeOK
<1>2. ASSUME NEW j \in Jobs, DismissOne(d, j) PROVE WellFormed'
  <2> DEFINE r == [dismiss[d] EXCEPT !.pc = "update", !.todo = {j}]
  <2>1. r \in Dismissal /\ r.snap = None
    BY <1>1, <1>2 DEF DismissOne, Dismissal, DismissOK
  <2>2. StoresTyped' /\ dismiss' = [dismiss EXCEPT ![d] = r]
    BY <1>2 DEF DismissOne, StoresTyped, WellFormed, TypeOK
  <2> QED
    BY <1>2, <2>1, <2>2, DismissFrame DEF DismissOne
<1>3. CASE DismissAll(d)
  <2> DEFINE r == [dismiss[d] EXCEPT !.pc = "scan", !.unread = Jobs]
  <2>1. r \in Dismissal /\ r.snap = None
    BY <1>1, <1>3 DEF DismissAll, Dismissal, DismissOK
  <2>2. StoresTyped' /\ dismiss' = [dismiss EXCEPT ![d] = r]
    BY <1>3 DEF DismissAll, StoresTyped, WellFormed, TypeOK
  <2> QED
    BY <1>3, <2>1, <2>2, DismissFrame DEF DismissAll
<1>4. ASSUME NEW j \in Jobs, ScanJob(d, j) PROVE WellFormed'
  <2> DEFINE unread == dismiss[d].unread \ {j}
             todo == dismiss[d].todo \cup {k \in {j} : Eligible(k)}
             pc == IF unread # {} THEN "scan"
                   ELSE IF todo # {} THEN "update" ELSE "idle"
             r == [dismiss[d] EXCEPT !.unread = unread, !.todo = todo, !.pc = pc]
  <2>1. StoresTyped' /\ dismiss' = [dismiss EXCEPT ![d] = r]
    BY <1>4 DEF ScanJob, StoresTyped, WellFormed, TypeOK
  <2>2. /\ unread \in SUBSET Jobs /\ todo \in SUBSET Jobs
        /\ pc \in {"idle", "scan", "update"} /\ dismiss[d].snap = None
    BY <1>1, <1>4 DEF ScanJob, Dismissal, DismissOK
  <2> HIDE DEF unread, todo, pc
  <2>3. r \in Dismissal /\ r.snap = None
    BY <1>1, <2>2 DEF Dismissal
  <2> QED
    BY <1>4, <2>1, <2>3, DismissFrame DEF ScanJob
<1>5. ASSUME NEW j \in Jobs, ReadDismissed(d, j) PROVE WellFormed'
  <2> DEFINE r == IF jobs[j] = None THEN IdleDismisser
                  ELSE [dismiss[d] EXCEPT !.job = j, !.snap = jobs[j]]
  <2>1. StoresTyped' /\ dismiss' = [dismiss EXCEPT ![d] = r]
    BY <1>5 DEF ReadDismissed, StoresTyped, WellFormed, TypeOK
  <2>2. r \in Dismissal /\ (r.snap # None => r.pc = "update" /\ r.job \in Jobs)
    BY <1>1, <1>5 DEF ReadDismissed, IdleDismisser, Dismissal, WellFormed, TypeOK
  <2> QED
    BY <1>5, <2>1, <2>2, DismissFrame DEF ReadDismissed
<1>6. CASE WriteDismissed(d)
  <2> DEFINE left == dismiss[d].todo \ {dismiss[d].job}
             r == [IdleDismisser EXCEPT !.todo = left,
                     !.pc = IF left = {} THEN "idle" ELSE "update"]
  <2>1. [dismiss[d].snap EXCEPT !.dismissed = TRUE] \in Job
    BY <1>1, <1>6 DEF WriteDismissed, Dismissal, Job
  <2>2. StoresTyped' /\ dismiss' = [dismiss EXCEPT ![d] = r]
    BY <1>6, <2>1 DEF WriteDismissed, StoresTyped, WellFormed, TypeOK
  <2>3. r \in Dismissal /\ r.snap = None
    BY <1>1 DEF IdleDismisser, Dismissal
  <2> QED
    BY <1>6, <2>2, <2>3, DismissFrame DEF WriteDismissed
<1> QED
  BY <1>2, <1>3, <1>4, <1>5, <1>6 DEF DismissStep

LEMMA ExpireWellFormed ==
  ASSUME WellFormed, NEW j \in Jobs, Expire(j)
  PROVE  WellFormed'
BY DEF Expire, WellFormed, TypeOK, Budget, SubmitOK, WorkerOK, DismissOK,
       Delivered, Running

-----------------------------------------------------------------------------

LEMMA NextWellFormed == WellFormed /\ [Next]_vars => WellFormed'
<1> SUFFICES ASSUME WellFormed, Next PROVE WellFormed'
  BY StutterWellFormed
<1>1. ASSUME NEW j \in Jobs, SubmitStep(j) PROVE WellFormed'
  BY <1>1, SubmitWellFormed, CreateJobWellFormed, CreateVideoWellFormed,
     ReadDuplicateWellFormed, FailDuplicateWellFormed, SendWellFormed
     DEF SubmitStep
<1>2. ASSUME NEW w \in Workers, WorkerStep(w) PROVE WellFormed'
  BY <1>2, PickupWellFormed, ResolveWellFormed, CheckRunnableWellFormed,
     ReadJobWellFormed, WriteStepWellFormed, DownloadWellFormed,
     EncodeWellFormed, UploadResultWellFormed, UploadThumbnailWellFormed,
     UploadClipsWellFormed, UploadFailsWellFormed, PublishVideoWellFormed,
     FailVideoWellFormed, AckWellFormed
     DEF WorkerStep
<1> QED
  BY <1>1, <1>2, SubmitDiesWellFormed, ExpireWellFormed, AbortWellFormed,
     CrashWellFormed, DismissWellFormed
     DEF Next

\* Every store and every process holds values of its type in every reachable
\* state, with the fields a process relies on at its program point set.
THEOREM WellFormedAlways == Spec => []WellFormed
<1>1. Init => WellFormed
  BY InitWellFormed
<1>2. WellFormed /\ [Next]_vars => WellFormed'
  BY NextWellFormed
<1> QED
  BY <1>1, <1>2, PTL DEF Spec

\* Type correctness: what run_job, submit_job and the dismiss handlers write to
\* Redis and MongoDB is always a whole, well-typed record.
THEOREM TypeCorrect == Spec => []TypeOK
<1>1. WellFormed => TypeOK
  BY DEF WellFormed
<1> QED
  BY <1>1, WellFormedAlways, PTL

-----------------------------------------------------------------------------
(* One message, one run.                                                    *)

\* The second and third part of SingleDelivery; the first is in SubmitOK.
Exclusive ==
  \A j \in Jobs :
    /\ Running(j) => j \notin queue
    /\ \A w, x \in Workers : worker[w].job = j /\ worker[x].job = j => w = x

\* Which step moves a message, and which leaves queue and runs as they are.
KeepsRuns ==
  /\ queue' = queue
  /\ \A w \in Workers : worker'[w].job = worker[w].job

LEMMA WriteStepKeepsRuns ==
  ASSUME WellFormed, NEW w \in Workers, WriteStep(w)
  PROVE  KeepsRuns
<1>1. ASSUME NEW at, NEW updated, NEW next, WriteJob(w, at, updated, next)
      PROVE  KeepsRuns
  BY <1>1 DEF WriteJob, KeepsRuns, WellFormed, TypeOK, WorkerState
<1> QED
  BY <1>1 DEF WriteStep, RecordResolved, StartRunning, StartProcessing,
              RecordProgress, StartUploading, CompleteJob, RecordFailure

LEMMA WorkerStepKeepsRuns ==
  ASSUME WellFormed, NEW w \in Workers, WorkerStep(w) \/ Abort(w)
  PROVE  KeepsRuns \/ Ack(w) \/ \E j \in Jobs : Pickup(w, j)
<1> USE DEF KeepsRuns, WellFormed, TypeOK, WorkerState
<1>1. ASSUME NEW pc, Goto(w, pc), queue' = queue PROVE KeepsRuns
  BY <1>1 DEF Goto
<1>a. ASSUME NEW r, worker' = [worker EXCEPT ![w] = r], r.job = worker[w].job,
             queue' = queue
      PROVE  KeepsRuns
  BY <1>a
<1>b. worker[w] \in WorkerState
  OBVIOUS
<1>2. CASE Resolve(w)
  <2>1. ASSUME NEW p, worker' = [worker EXCEPT ![w] =
                        [worker[w] EXCEPT !.pc = "resolved", !.profile = p]]
        PROVE  KeepsRuns
    <3> DEFINE r == [worker[w] EXCEPT !.pc = "resolved", !.profile = p]
    <3>1. r.job = worker[w].job
      BY <1>b
    <3> QED
      BY <1>2, <1>a, <2>1, <3>1 DEF Resolve
  <2> QED
    BY <1>1, <1>2, <2>1 DEF Resolve
<1>3. CASE ReadJob(w)
  BY <1>3 DEF ReadJob
<1>4. CASE Encode(w)
  <2> DEFINE r == [worker[w] EXCEPT !.pc = "progress", !.ticks = worker[w].ticks + 1]
  <2>1. r.job = worker[w].job
    BY <1>b
  <2>2. ASSUME worker' = [worker EXCEPT ![w] = r] PROVE KeepsRuns
    BY <1>4, <1>a, <2>1, <2>2 DEF Encode
  <2> QED
    BY <1>1, <1>4, <2>2 DEF Encode
<1>5. CASE UploadResult(w)
  <2> DEFINE key == <<worker[w].job, "result", uploads[worker[w].job] + 1>>
             r == [worker[w] EXCEPT !.pc = "thumbnail", !.result_key = key]
  <2>1. r.job = worker[w].job
    BY <1>b
  <2> QED
    BY <1>5, <1>a, <2>1 DEF UploadResult
<1>6. CASE UploadClips(w)
  BY <1>6 DEF UploadClips
<1>7. CASE PublishVideo(w)
  <2> DEFINE pc == IF worker[w].attempt + 1 < MaxDisplayNameAttempts
                   THEN "name" ELSE "fail"
             r == [worker[w] EXCEPT !.attempt = worker[w].attempt + 1, !.pc = pc]
  <2>1. r.job = worker[w].job
    BY <1>b
  <2>2. NextName(w) => worker' = [worker EXCEPT ![w] = r]
    BY DEF NextName
  <2> HIDE DEF r
  <2>3. queue' = queue
    BY <1>7 DEF PublishVideo
  <2>4. NextName(w) => KeepsRuns
    BY <1>a, <2>1, <2>2, <2>3
  <2>5. NextName(w) \/ (\E next \in WorkerPc : Goto(w, next))
    BY <1>7 DEF PublishVideo, WorkerPc
  <2> QED
    BY <1>1, <2>3, <2>4, <2>5
<1>8. CASE Abort(w)
  BY <1>8 DEF Abort
<1>9. CASE CheckRunnable(w) \/ Download(w) \/ UploadThumbnail(w)
             \/ UploadFails(w) \/ FailVideo(w)
  BY <1>1, <1>9 DEF CheckRunnable, Download, UploadThumbnail, UploadFails, FailVideo
<1> QED
  BY <1>2, <1>3, <1>4, <1>5, <1>6, <1>7, <1>8, <1>9, WriteStepKeepsRuns
     DEF WorkerStep

LEMMA NextExclusive ==
  ASSUME WellFormed, Exclusive, [Next]_vars
  PROVE  Exclusive'
<1>1. ASSUME KeepsRuns PROVE Exclusive'
  BY <1>1 DEF KeepsRuns, Exclusive, Running
<1>2. ASSUME NEW w \in Workers, NEW j \in Jobs, Pickup(w, j) PROVE Exclusive'
  <2>1. /\ worker[w].job = None
        /\ queue' = queue \ {j} /\ j \in queue
        /\ worker'[w].job = j
        /\ \A x \in Workers \ {w} : worker'[x] = worker[x]
    BY <1>2 DEF Pickup, IdleWorker, WellFormed, WorkerOK, TypeOK
  <2>2. \A x \in Workers : worker[x].job # j
    BY <2>1 DEF Exclusive, Running
  <2> QED
    BY <2>1, <2>2 DEF Exclusive, Running
<1>3. ASSUME NEW w \in Workers, Ack(w) PROVE Exclusive'
  BY <1>3 DEF Ack, IdleWorker, Exclusive, Running, WellFormed, TypeOK
<1>4. ASSUME NEW w \in Workers, Crash(w) PROVE Exclusive'
  <2>1. /\ queue' = queue \cup {worker[w].job}
        /\ worker'[w].job = None
        /\ \A x \in Workers \ {w} : worker'[x] = worker[x]
    BY <1>4 DEF Crash, IdleWorker, WellFormed, TypeOK
  <2> QED
    BY <2>1 DEF Exclusive, Running
<1>5. ASSUME NEW j \in Jobs, Send(j) PROVE Exclusive'
  <2>1. ~Delivered(j)
    BY <1>5 DEF Send, WellFormed, SubmitOK
  <2> QED
    BY <1>5, <2>1 DEF Send, Exclusive, Running, Delivered
<1>6. ASSUME NEW j \in Jobs, SubmitStep(j) \/ SubmitDies(j) \/ Expire(j)
      PROVE  Exclusive'
  BY <1>1, <1>5, <1>6
     DEF SubmitStep, Submit, CreateJob, CreateVideo, ReadDuplicate,
         FailDuplicate, SubmitDies, Expire, KeepsRuns
<1>7. ASSUME NEW d \in Dismissers, DismissStep(d) PROVE Exclusive'
  BY <1>1, <1>7 DEF DismissStep, DismissOne, DismissAll, ScanJob,
     ReadDismissed, WriteDismissed, KeepsRuns
<1>8. CASE UNCHANGED vars
  BY <1>1, <1>8 DEF vars, KeepsRuns
<1> QED
  BY <1>1, <1>2, <1>3, <1>4, <1>6, <1>7, <1>8, WorkerStepKeepsRuns DEF Next

\* A job's message is never with two workers, nor in the queue while one has
\* it, nor anywhere before submit_job has sent it, whatever crashes.
THEOREM OneRunAtATime == Spec => []SingleDelivery
<1>1. Init => Exclusive
  <2> SUFFICES ASSUME Init PROVE Exclusive
    OBVIOUS
  <2>1. queue = {} /\ \A w \in Workers : worker[w].job = None
    BY DEF Init, IdleWorker
  <2> QED
    BY <2>1 DEF Exclusive, Running
<1>2. WellFormed /\ Exclusive => SingleDelivery
  BY DEF WellFormed, SubmitOK, Exclusive, SingleDelivery
<1>3. WellFormed /\ Exclusive /\ [Next]_vars => Exclusive'
  BY NextExclusive
<1> QED
  BY <1>1, <1>2, <1>3, WellFormedAlways, PTL DEF Spec

-----------------------------------------------------------------------------
(* The library's two unique keys.                                           *)

\* A document the indexes accept keeps both keys unique.
LEMMA StoreKeepsIndexes ==
  ASSUME videos \in [Jobs -> Video \cup {None}], Indexed,
         NEW j \in Jobs, NEW v, ~DuplicateKey(videos, j, v),
         videos' = [videos EXCEPT ![j] = v]
  PROVE  Indexed'
<1>1. /\ videos'[j] = v
      /\ \A k \in Jobs \ {j} : videos'[k] = videos[k]
  OBVIOUS
<1>2. ActiveKeysUnique'
  <2> SUFFICES ASSUME NEW a \in Jobs, NEW b \in Jobs,
                      videos'[a] # None, videos'[a].status \in ActiveStatus,
                      Matches(videos'[b], videos'[a].fingerprint,
                              videos'[a].profile, videos'[a].max_quality)
               PROVE  a = b
    BY DEF ActiveKeysUnique
  <2>1. CASE a # j /\ b # j
    BY <1>1, <2>1 DEF Indexed, ActiveKeysUnique
  <2>2. CASE a = j /\ b # j
    BY <1>1, <2>2 DEF DuplicateKey
  <2>3. CASE a # j /\ b = j
    <3>1. v.status \in ActiveStatus
          /\ Matches(videos[a], v.fingerprint, v.profile, v.max_quality)
      BY <1>1, <2>3 DEF Matches
    <3> QED
      BY <2>3, <3>1 DEF DuplicateKey
  <2> QED
    BY <2>1, <2>2, <2>3
<1>3. DisplayNamesUnique'
  BY <1>1 DEF Indexed, DisplayNamesUnique, DuplicateKey
<1> QED
  BY <1>2, <1>3 DEF Indexed

\* A video that fails leaves the partial index and keeps its name.
LEMMA FailingKeepsIndexes ==
  ASSUME videos \in [Jobs -> Video \cup {None}], Indexed,
         NEW j \in Jobs, videos[j] # None,
         videos' = [videos EXCEPT ![j].status = "failed"]
  PROVE  Indexed'
<1>1. videos[j] \in Video /\ "failed" \notin ActiveStatus
  BY DEF ActiveStatus
<1>2. /\ videos'[j] = [videos[j] EXCEPT !.status = "failed"]
      /\ \A k \in Jobs \ {j} : videos'[k] = videos[k]
  OBVIOUS
<1>3. /\ videos'[j].status = "failed"
      /\ videos'[j].display_name = videos[j].display_name
  BY <1>1, <1>2 DEF Video
<1>4. ActiveKeysUnique'
  BY <1>1, <1>2, <1>3 DEF Indexed, ActiveKeysUnique, Matches
<1>5. DisplayNamesUnique'
  BY <1>1, <1>2, <1>3 DEF Indexed, DisplayNamesUnique
<1> QED
  BY <1>4, <1>5 DEF Indexed

LEMMA UnchangedKeepsIndexes ==
  ASSUME Indexed, videos' = videos PROVE Indexed'
BY DEF Indexed, ActiveKeysUnique, DisplayNamesUnique, Matches

\* A worker writes to its own job's video only, by publishing or failing it.
LEMMA WorkerStepVideos ==
  ASSUME NEW w \in Workers, WorkerStep(w) \/ Abort(w) \/ Crash(w)
  PROVE  videos' = videos \/ PublishVideo(w) \/ FailVideo(w)
BY DEF WorkerStep, Pickup, Resolve, CheckRunnable, ReadJob, WriteStep,
  WriteJob, RecordResolved, StartRunning, StartProcessing, RecordProgress,
  StartUploading, CompleteJob, RecordFailure, Download, Encode, UploadResult,
  UploadThumbnail, UploadClips, UploadFails, Ack, Abort, Crash

LEMMA NextIndexed ==
  ASSUME WellFormed, Indexed, [Next]_vars
  PROVE  Indexed'
<1> USE UnchangedKeepsIndexes
<1>0. videos \in [Jobs -> Video \cup {None}]
  BY DEF WellFormed, TypeOK
<1>1. ASSUME NEW j \in Jobs, CreateVideo(j) PROVE Indexed'
  BY <1>0, <1>1, StoreKeepsIndexes DEF CreateVideo
<1>2. ASSUME NEW j \in Jobs, SubmitStep(j) \/ SubmitDies(j) \/ Expire(j)
      PROVE  Indexed'
  BY <1>1, <1>2
     DEF SubmitStep, Submit, CreateJob, ReadDuplicate, FailDuplicate, Send,
         SubmitDies, Expire
<1>3. ASSUME NEW w \in Workers, worker[w].pc # "idle" PROVE worker[w].job \in Jobs
  BY <1>3 DEF WellFormed, TypeOK, WorkerOK, WorkerState
<1>4. ASSUME NEW w \in Workers, PublishVideo(w) PROVE Indexed'
  BY <1>0, <1>3, <1>4, StoreKeepsIndexes DEF PublishVideo
<1>5. ASSUME NEW w \in Workers, FailVideo(w) PROVE Indexed'
  BY <1>0, <1>3, <1>5, FailingKeepsIndexes DEF FailVideo
<1>6. ASSUME NEW w \in Workers, WorkerStep(w) \/ Abort(w) \/ Crash(w)
      PROVE  Indexed'
  BY <1>4, <1>5, <1>6, WorkerStepVideos
<1>7. ASSUME NEW d \in Dismissers, DismissStep(d) PROVE Indexed'
  BY <1>7 DEF DismissStep, DismissOne, DismissAll, ScanJob, ReadDismissed,
     WriteDismissed
<1>8. CASE UNCHANGED vars
  BY <1>8 DEF vars
<1> QED
  BY <1>2, <1>6, <1>7, <1>8 DEF Next

\* Both unique keys hold in every reachable state, through every insert, rewrite
\* and failure of a video.
THEOREM IndexedAlways == Spec => []Indexed
<1>1. Init => Indexed
  BY DEF Init, Indexed, ActiveKeysUnique, DisplayNamesUnique
<1>2. WellFormed /\ Indexed /\ [Next]_vars => Indexed'
  BY NextIndexed
<1> QED
  BY <1>1, <1>2, WellFormedAlways, PTL DEF Spec

-----------------------------------------------------------------------------
(* The path of a run.                                                       *)

\* From which point of run_job a step may lead to which.
Flow(from, to) ==
  \/ to = "ack"
  \/ from = "resolve" /\ to \in {"resolved", "fail"}
  \/ from = "resolved" /\ to \in {"resolved", "check"}
  \/ from = "check" /\ to \in {"start", "fail"}
  \/ from = "start" /\ to \in {"start", "download"}
  \/ from = "download" /\ to \in {"processing", "fail"}
  \/ from = "processing" /\ to \in {"processing", "encode"}
  \/ from = "encode" /\ to \in {"progress", "uploading", "fail"}
  \/ from = "progress" /\ to \in {"progress", "encode"}
  \/ from = "uploading" /\ to \in {"uploading", "result"}
  \/ from = "result" /\ to \in {"thumbnail", "fail"}
  \/ from = "thumbnail" /\ to \in {"clips", "fail"}
  \/ from = "clips" /\ to \in {"name", "fail"}
  \/ from = "name" /\ to \in {"name", "done", "fail"}
  \/ from = "done" /\ to = "done"
  \/ from = "fail" /\ to \in {"fail", "fail_video"}

\* Worker w goes on with its run: the job, the profile once resolved and the
\* result key once drawn stay, and some points are reached in one way only.
Continues(w) ==
  /\ worker[w].pc # "idle" /\ worker'[w].pc # "idle"
  /\ Flow(worker[w].pc, worker'[w].pc)
  /\ worker'[w].job = worker[w].job
  /\ worker'[w].profile = worker[w].profile \/ Resolve(w)
  /\ worker[w].pc = "resolve" => Resolve(w) \/ worker'[w].pc = "ack"
  /\ worker'[w].result_key = worker[w].result_key \/ UploadResult(w)
  /\ worker'[w].pc = "download" => StartRunning(w)
  /\ worker'[w].pc = "thumbnail" => UploadResult(w)
  /\ worker'[w].pc = "clips" => UploadThumbnail(w)
  /\ worker'[w].pc = "name" => UploadClips(w) \/ PublishVideo(w)
  /\ worker'[w].pc = "done" => PublishVideo(w) \/ ReadJob(w)
  /\ worker'[w].pc = "fail_video" => RecordFailure(w)
  /\ worker'[w].pc = "ack" =>
       \/ Abort(w) \/ CompleteJob(w) \/ FailVideo(w)
       \/ jobs[worker[w].job] = None

LEMMA WriteContinues ==
  ASSUME WellFormed, NEW w \in Workers, WriteStep(w)
  PROVE  Continues(w)
<1>1. worker[w] \in WorkerState
  BY DEF WellFormed, TypeOK
<1>2. ASSUME NEW at, NEW updated, NEW next, WriteJob(w, at, updated, next)
      PROVE  /\ worker[w].pc = at /\ worker'[w].pc = next
             /\ worker'[w].job = worker[w].job
             /\ worker'[w].profile = worker[w].profile
             /\ worker'[w].result_key = worker[w].result_key
  <2> DEFINE r == [worker[w] EXCEPT !.pc = next, !.snap = None]
  <2>1. worker[w].pc = at /\ worker'[w] = r
    BY <1>2 DEF WriteJob, WellFormed, TypeOK
  <2>2. /\ r.pc = next /\ r.job = worker[w].job
        /\ r.profile = worker[w].profile /\ r.result_key = worker[w].result_key
    BY <1>1 DEF WorkerState
  <2> QED
    BY <2>1, <2>2
<1>3. ASSUME NEW at \in WorkerPc \ {"idle", "resolve"}, NEW updated, NEW next \in WorkerPc \ {"idle"},
             Flow(at, next), WriteJob(w, at, updated, next),
             next \notin {"thumbnail", "clips", "name", "done"},
             next = "fail_video" => RecordFailure(w),
             next = "ack" => CompleteJob(w),
             next = "download" => StartRunning(w)
      PROVE  Continues(w)
  BY <1>2, <1>3 DEF Continues
<1>4. CASE RecordFailure(w)
  BY <1>3, <1>4 DEF RecordFailure, Flow, WorkerPc
<1>5. CASE CompleteJob(w)
  BY <1>3, <1>5 DEF CompleteJob, Flow, WorkerPc
<1>6. CASE StartRunning(w)
  BY <1>3, <1>6 DEF StartRunning, Flow, WorkerPc
<1>7. CASE ~RecordFailure(w) /\ ~CompleteJob(w) /\ ~StartRunning(w)
  BY <1>3, <1>7 DEF WriteStep, RecordResolved, StartProcessing, RecordProgress,
                    StartUploading, Flow, WorkerPc
<1> QED
  BY <1>4, <1>5, <1>6, <1>7

LEMMA WorkerContinues ==
  ASSUME WellFormed, NEW w \in Workers,
         WorkerStep(w) \/ Abort(w),
         ~Ack(w), \A j \in Jobs : ~Pickup(w, j)
  PROVE  Continues(w)
<1>1. worker[w] \in WorkerState /\ worker \in [Workers -> WorkerState]
  BY DEF WellFormed, TypeOK
<1>2. ASSUME NEW next, Goto(w, next)
      PROVE  /\ worker'[w].pc = next
             /\ worker'[w].job = worker[w].job
             /\ worker'[w].profile = worker[w].profile
             /\ worker'[w].result_key = worker[w].result_key
  <2> DEFINE r == [worker[w] EXCEPT !.pc = next]
  <2>1. worker'[w] = r
    BY <1>1, <1>2 DEF Goto
  <2>2. /\ r.pc = next /\ r.job = worker[w].job
        /\ r.profile = worker[w].profile /\ r.result_key = worker[w].result_key
    BY <1>1 DEF WorkerState
  <2> QED
    BY <2>1, <2>2
<1>3. ASSUME NEW next \in WorkerPc \ {"idle"}, Goto(w, next),
             worker[w].pc # "idle", Flow(worker[w].pc, next),
             worker[w].pc = "resolve" => Resolve(w),
             next = "ack" => FailVideo(w) \/ jobs[worker[w].job] = None,
             next = "clips" => UploadThumbnail(w),
             next = "done" => PublishVideo(w),
             next \notin {"download", "thumbnail", "name", "fail_video"}
      PROVE  Continues(w)
  BY <1>2, <1>3 DEF Continues
<1>4. CASE \/ CheckRunnable(w) \/ Download(w) \/ UploadFails(w) \/ FailVideo(w)
  BY <1>3, <1>4 DEF CheckRunnable, Download, UploadFails, FailVideo, Flow, WorkerPc
<1>a. CASE UploadThumbnail(w)
  <2>1. worker[w].pc = "thumbnail" /\ Goto(w, "clips")
    BY <1>a DEF UploadThumbnail
  <2> QED
    BY <1>3, <1>a, <2>1 DEF Flow, WorkerPc
<1>5. CASE Resolve(w)
  <2>2. worker[w].pc = "resolve"
    BY <1>5, Zenon DEF Resolve
  <2>1. ASSUME NEW p, worker' = [worker EXCEPT ![w] =
                        [worker[w] EXCEPT !.pc = "resolved", !.profile = p]]
        PROVE  Continues(w)
    <3> DEFINE r == [worker[w] EXCEPT !.pc = "resolved", !.profile = p]
    <3>1. /\ r.pc = "resolved" /\ r.job = worker[w].job
          /\ r.result_key = worker[w].result_key
      BY <1>1 DEF WorkerState
    <3>2. worker'[w] = r
      BY <1>1, <2>1
    <3> HIDE DEF r
    <3> QED
      BY <1>5, <2>2, <3>1, <3>2 DEF Continues, Flow
  <2>3. CASE Goto(w, "fail")
    BY <1>3, <1>5, <2>2, <2>3 DEF Flow, WorkerPc
  <2> QED
    BY <1>5, <2>1, <2>3, Zenon DEF Resolve
<1>6. CASE ReadJob(w)
  <2> DEFINE r == [worker[w] EXCEPT !.snap = jobs[worker[w].job]]
  <2>1. /\ r.pc = worker[w].pc /\ r.job = worker[w].job
        /\ r.profile = worker[w].profile /\ r.result_key = worker[w].result_key
    BY <1>1 DEF WorkerState
  <2>2. /\ worker[w].pc \in UpdatePc
        /\ (Goto(w, "ack") /\ jobs[worker[w].job] = None) \/ worker'[w] = r
    BY <1>1, <1>6 DEF ReadJob, Goto
  <2>3. CASE Goto(w, "ack") /\ jobs[worker[w].job] = None
    BY <1>3, <2>2, <2>3 DEF Flow, WorkerPc, UpdatePc
  <2> QED
    BY <1>6, <2>1, <2>2, <2>3 DEF Continues, Flow, UpdatePc
<1>7. CASE Encode(w)
  <2> DEFINE r == [worker[w] EXCEPT !.pc = "progress", !.ticks = worker[w].ticks + 1]
  <2>1. /\ r.pc = "progress" /\ r.job = worker[w].job
        /\ r.profile = worker[w].profile /\ r.result_key = worker[w].result_key
    BY <1>1 DEF WorkerState
  <2>2. /\ worker[w].pc = "encode"
        /\ Goto(w, "uploading") \/ Goto(w, "fail") \/ worker'[w] = r
    BY <1>1, <1>7 DEF Encode
  <2>3. CASE Goto(w, "uploading") \/ Goto(w, "fail")
    BY <1>3, <2>2, <2>3 DEF Flow, WorkerPc
  <2> QED
    BY <2>1, <2>2, <2>3 DEF Continues, Flow
<1>8. CASE UploadResult(w)
  <2> DEFINE key == <<worker[w].job, "result", uploads[worker[w].job] + 1>>
             r == [worker[w] EXCEPT !.pc = "thumbnail", !.result_key = key]
  <2>1. /\ r.pc = "thumbnail" /\ r.job = worker[w].job
        /\ r.profile = worker[w].profile
    BY <1>1 DEF WorkerState
  <2>2. worker[w].pc = "result" /\ worker'[w] = r
    BY <1>1, <1>8 DEF UploadResult
  <2> QED
    BY <1>8, <2>1, <2>2 DEF Continues, Flow
<1>9. CASE UploadClips(w)
  <2> DEFINE r == [worker[w] EXCEPT !.pc = "name", !.attempt = 0]
  <2>1. /\ r.pc = "name" /\ r.job = worker[w].job
        /\ r.profile = worker[w].profile /\ r.result_key = worker[w].result_key
    BY <1>1 DEF WorkerState
  <2>2. worker[w].pc = "clips" /\ worker'[w] = r
    BY <1>1, <1>9 DEF UploadClips
  <2> QED
    BY <1>9, <2>1, <2>2 DEF Continues, Flow
<1>10. CASE PublishVideo(w)
  <2> DEFINE pc == IF worker[w].attempt + 1 < MaxDisplayNameAttempts
                   THEN "name" ELSE "fail"
             r == [worker[w] EXCEPT !.attempt = worker[w].attempt + 1, !.pc = pc]
  <2>1. /\ r.pc \in {"name", "fail"} /\ r.job = worker[w].job
        /\ r.profile = worker[w].profile /\ r.result_key = worker[w].result_key
    BY <1>1 DEF WorkerState
  <2>2. NextName(w) => worker'[w] = r
    BY <1>1 DEF NextName
  <2> HIDE DEF r
  <2>3. worker[w].pc = "name" /\ (NextName(w) \/ Goto(w, "fail") \/ Goto(w, "done"))
    BY <1>10 DEF PublishVideo
  <2>4. CASE NextName(w)
    BY <1>10, <2>1, <2>2, <2>3, <2>4 DEF Continues, Flow
  <2> QED
    BY <1>3, <1>10, <2>3, <2>4 DEF Flow, WorkerPc
<1>11. CASE Abort(w)
  <2> DEFINE r == [worker[w] EXCEPT !.pc = "ack", !.snap = None]
  <2>1. /\ r.pc = "ack" /\ r.job = worker[w].job
        /\ r.profile = worker[w].profile /\ r.result_key = worker[w].result_key
    BY <1>1 DEF WorkerState
  <2>2. worker[w].pc # "idle" /\ worker'[w] = r
    BY <1>1, <1>11 DEF Abort
  <2> QED
    BY <1>11, <2>1, <2>2 DEF Continues, Flow
<1> QED
  BY <1>4, <1>5, <1>6, <1>7, <1>8, <1>9, <1>10, <1>11, <1>a, WriteContinues DEF WorkerStep

\* A step of one worker leaves the others where they are.
LEMMA OthersStay ==
  ASSUME WellFormed, NEW w \in Workers, WorkerStep(w) \/ Abort(w) \/ Crash(w),
         NEW x \in Workers \ {w}
  PROVE  worker'[x] = worker[x]
<1>1. worker \in [Workers -> WorkerState]
  BY DEF WellFormed, TypeOK
<1>2. ASSUME NEW pc, Goto(w, pc) PROVE worker'[x] = worker[x]
  BY <1>1, <1>2 DEF Goto
<1>3. ASSUME WriteStep(w) PROVE worker'[x] = worker[x]
  BY <1>1, <1>3
     DEF WriteStep, WriteJob, RecordResolved, StartRunning, StartProcessing,
         RecordProgress, StartUploading, CompleteJob, RecordFailure
<1>4. ASSUME \/ CheckRunnable(w) \/ Download(w) \/ UploadThumbnail(w)
             \/ UploadFails(w) \/ FailVideo(w)
      PROVE  worker'[x] = worker[x]
  BY <1>2, <1>4 DEF CheckRunnable, Download, UploadThumbnail, UploadFails, FailVideo
<1>a. ASSUME NEW r, worker' = [worker EXCEPT ![w] = r] PROVE worker'[x] = worker[x]
  BY <1>1, <1>a
<1>b. ASSUME Resolve(w) PROVE worker'[x] = worker[x]
  BY <1>a, <1>2, <1>b, Zenon DEF Resolve
<1>5. ASSUME Encode(w) PROVE worker'[x] = worker[x]
  BY <1>a, <1>2, <1>5 DEF Encode
<1>6. ASSUME UploadResult(w) \/ UploadClips(w) \/ Ack(w) PROVE worker'[x] = worker[x]
  BY <1>a, <1>6, Zenon DEF UploadResult, UploadClips, Ack
<1>d. ASSUME Abort(w) \/ Crash(w) \/ \E j \in Jobs : Pickup(w, j)
      PROVE  worker'[x] = worker[x]
  BY <1>a, <1>d, Zenon DEF Abort, Crash, Pickup
<1>c. ASSUME ReadJob(w) PROVE worker'[x] = worker[x]
  BY <1>1, <1>c DEF ReadJob
<1>7. ASSUME PublishVideo(w) PROVE worker'[x] = worker[x]
  BY <1>1, <1>2, <1>7 DEF PublishVideo, NextName
<1> QED
  BY <1>3, <1>4, <1>5, <1>6, <1>7, <1>b, <1>c, <1>d DEF WorkerStep

\* A run begins with Pickup and ends with Ack or a crash.
LEMMA StartOrEnd ==
  ASSUME WellFormed, NEW w \in Workers,
         Ack(w) \/ Crash(w) \/ \E j \in Jobs : Pickup(w, j)
  PROVE  worker'[w].pc \in {"idle", "resolve", "ack"}
<1>1. CASE Ack(w) \/ Crash(w)
  BY <1>1 DEF Ack, Crash, IdleWorker, WellFormed, TypeOK
<1>2. ASSUME NEW j \in Jobs, Pickup(w, j) PROVE worker'[w].pc \in {"ack", "resolve"}
  <2> DEFINE r == [IdleWorker EXCEPT
                     !.pc = IF jobs[j] = None THEN "ack" ELSE "resolve", !.job = j]
  <2>1. r.pc \in {"ack", "resolve"}
    BY DEF IdleWorker
  <2>2. worker'[w] = r
    BY <1>2 DEF Pickup, WellFormed, TypeOK
  <2> QED
    BY <2>1, <2>2
<1> QED
  BY <1>1, <1>2

-----------------------------------------------------------------------------
(* What a published video links to.                                         *)

\* What a run has uploaded so far.
UploadsOK(w) ==
  /\ worker[w].pc \in {"thumbnail", "clips", "name", "done"} =>
       worker[w].result_key \in objects
  /\ worker[w].pc \in {"clips", "name", "done"} =>
       ThumbnailKey(worker[w].job) \in objects
  /\ worker[w].pc \in {"name", "done"} => ClipsKey(worker[w].job) \in objects

Stored == PublishedIsStored /\ \A w \in Workers : UploadsOK(w)

\* The record a run publishes.
LEMMA PublishedFields ==
  ASSUME WellFormed, NEW w \in Workers, worker[w].pc = "name",
         videos[worker[w].job] # None
  PROVE  /\ Published(w) # None
         /\ Published(w).status = "done"
         /\ Published(w).display_name # None
         /\ Published(w).profile = worker[w].profile
         /\ Published(w).result_key = worker[w].result_key
         /\ Published(w).fingerprint = videos[worker[w].job].fingerprint
         /\ Published(w).max_quality = videos[worker[w].job].max_quality
<1> DEFINE j == worker[w].job
           name == MakeDisplayName(j, submit[j].file, worker[w].profile, worker[w].attempt)
           v == [videos[j] EXCEPT !.status = "done", !.profile = worker[w].profile,
                   !.display_name = name, !.result_key = worker[w].result_key,
                   !.previews = TRUE]
<1>1. worker[w] \in WorkerState /\ WorkerOK(w)
  BY DEF WellFormed, TypeOK
<1>2. /\ j \in Jobs /\ worker[w].profile \in Implemented /\ worker[w].attempt \in Nat
      /\ videos[j] \in Video
  BY <1>1 DEF WorkerState, WorkerOK, WellFormed, TypeOK
<1>3. submit[j].file \in Files
  <2>1. SubmitOK(j) /\ Delivered(j)
    BY <1>2 DEF WellFormed, Delivered, Running
  <2> QED
    BY <2>1 DEF SubmitOK
<1>4. name \in DisplayName
  BY <1>2, <1>3 DEF MakeDisplayName, DisplayName
<1>5. name # None /\ Published(w) \in Video
  BY <1>4, AbsenceAssumption, PublishedTyped
<1> HIDE DEF name
<1>6. /\ v.status = "done" /\ v.display_name = name
      /\ v.profile = worker[w].profile /\ v.result_key = worker[w].result_key
      /\ v.fingerprint = videos[j].fingerprint
      /\ v.max_quality = videos[j].max_quality
  BY <1>2 DEF Video
<1>7. Published(w) = v
  BY DEF Published, name
<1> HIDE DEF v
<1> QED
  BY <1>5, <1>6, <1>7, AbsenceAssumption

\* What one step of a worker does to its job's video.
LEMMA VideoAfter ==
  ASSUME WellFormed, NEW w \in Workers, WorkerStep(w) \/ Abort(w) \/ Crash(w)
  PROVE  \/ videos' = videos
         \/ /\ PublishVideo(w) /\ worker[w].pc = "name" /\ worker'[w].pc = "done"
            /\ worker[w].job \in Jobs /\ videos[worker[w].job] # None
            /\ videos'[worker[w].job] = Published(w)
            /\ \A k \in Jobs \ {worker[w].job} : videos'[k] = videos[k]
         \/ /\ FailVideo(w) /\ worker[w].pc = "fail_video"
            /\ worker[w].job \in Jobs /\ videos[worker[w].job] # None
            /\ videos'[worker[w].job] = [videos[worker[w].job] EXCEPT !.status = "failed"]
            /\ \A k \in Jobs \ {worker[w].job} : videos'[k] = videos[k]
<1>1. ASSUME worker[w].pc \in {"name", "fail_video"} PROVE worker[w].job \in Jobs
  BY <1>1 DEF WellFormed, TypeOK, WorkerOK, WorkerState
<1>2. CASE PublishVideo(w)
  <2>1. CASE videos' = [videos EXCEPT ![worker[w].job] = Published(w)]
             /\ videos[worker[w].job] # None /\ Goto(w, "done")
    <3>1. worker[w].pc = "name" /\ worker'[w].pc = "done"
      BY <1>2, <2>1 DEF PublishVideo, Goto, WellFormed, TypeOK, WorkerState
    <3> QED
      BY <1>1, <1>2, <2>1, <3>1 DEF WellFormed, TypeOK
  <2> QED
    BY <1>2, <2>1 DEF PublishVideo
<1>3. CASE FailVideo(w)
  <2>1. worker[w].pc = "fail_video"
    BY <1>3 DEF FailVideo
  <2>2. CASE videos[worker[w].job] # None
             /\ videos' = [videos EXCEPT ![worker[w].job].status = "failed"]
    BY <1>1, <1>3, <2>1, <2>2 DEF WellFormed, TypeOK
  <2> QED
    BY <1>3, <2>2 DEF FailVideo
<1> QED
  BY <1>2, <1>3, WorkerStepVideos

\* What a run has uploaded stays uploaded as it goes on.
LEMMA StepUploads ==
  ASSUME WellFormed, NEW w \in Workers, WorkerStep(w) \/ Abort(w) \/ Crash(w)
  PROVE  objects \subseteq objects' /\ (UploadsOK(w) => UploadsOK(w)')
<1> DEFINE j == worker[w].job
<1>1. objects \subseteq objects'
  <2>1. CASE UploadResult(w) \/ UploadThumbnail(w) \/ UploadClips(w)
    BY <2>1, Zenon DEF UploadResult, UploadThumbnail, UploadClips
  <2>2. CASE ~(UploadResult(w) \/ UploadThumbnail(w) \/ UploadClips(w))
    <3>1. objects' = objects
      BY <2>2, ZenonT(30) DEF WorkerStep, Pickup, Resolve, CheckRunnable, ReadJob,
        WriteStep, WriteJob, RecordResolved, StartRunning, StartProcessing,
        RecordProgress, StartUploading, CompleteJob, RecordFailure, Download,
        Encode, UploadFails, PublishVideo, FailVideo, Ack, Abort, Crash
    <3> QED
      BY <3>1
  <2> QED
    BY <2>1, <2>2
<1>2. ASSUME UploadsOK(w) PROVE UploadsOK(w)'
  <2>1. CASE worker'[w].pc \notin {"thumbnail", "clips", "name", "done"}
    BY <2>1 DEF UploadsOK
  <2>2. CASE worker'[w].pc \in {"thumbnail", "clips", "name", "done"}
    <3>1. Continues(w)
      BY <2>2, StartOrEnd, WorkerContinues
    <3>2. CASE UploadResult(w)
      <4> DEFINE key == <<j, "result", uploads[j] + 1>>
                 r == [worker[w] EXCEPT !.pc = "thumbnail", !.result_key = key]
      <4>1. r.pc = "thumbnail" /\ r.result_key = key
        BY DEF WellFormed, TypeOK, WorkerState
      <4>2. worker'[w] = r /\ key \in objects'
        BY <3>2 DEF UploadResult, WellFormed, TypeOK
      <4> HIDE DEF r, key
      <4> QED
        BY <4>1, <4>2 DEF UploadsOK
    <3>3. CASE UploadThumbnail(w)
      <4>1. /\ worker[w].pc = "thumbnail" /\ ThumbnailKey(j) \in objects'
            /\ worker'[w].pc = "clips"
        BY <3>3 DEF UploadThumbnail, Goto, WellFormed, TypeOK, WorkerState
      <4>2. worker'[w].job = j /\ worker'[w].result_key = worker[w].result_key
        BY <3>1, <4>1 DEF Continues, UploadResult
      <4> QED
        BY <1>1, <1>2, <4>1, <4>2 DEF UploadsOK
    <3>4. CASE UploadClips(w)
      <4>1. worker[w].pc = "clips" /\ ClipsKey(j) \in objects'
        BY <3>4 DEF UploadClips
      <4>2. worker'[w].job = j /\ worker'[w].result_key = worker[w].result_key
        BY <3>1, <4>1 DEF Continues, UploadResult
      <4> QED
        BY <1>1, <1>2, <4>1, <4>2 DEF UploadsOK, ThumbnailKey, ClipsKey
    <3>5. CASE ~UploadResult(w) /\ ~UploadThumbnail(w) /\ ~UploadClips(w)
      <4>1. /\ worker[w].pc \in {"name", "done"} /\ worker'[w].pc \in {"name", "done"}
            /\ worker'[w].job = j /\ worker'[w].result_key = worker[w].result_key
        BY <2>2, <3>1, <3>5 DEF Continues, Flow, PublishVideo, ReadJob
      <4> QED
        BY <1>1, <1>2, <4>1 DEF UploadsOK, ThumbnailKey, ClipsKey
    <3> QED
      BY <3>2, <3>3, <3>4, <3>5
  <2> QED
    BY <2>1, <2>2
<1> QED
  BY <1>1, <1>2

LEMMA NextStored ==
  ASSUME WellFormed, Stored, [Next]_vars
  PROVE  Stored'
<1>1. ASSUME UNCHANGED <<objects, worker>>,
             \A j \in Jobs : videos'[j] = videos[j] \/ ~IsDone(videos'[j])
      PROVE  Stored'
  BY <1>1 DEF Stored, UploadsOK, PublishedIsStored, IsDone
<1>2. ASSUME NEW j \in Jobs, SubmitStep(j) \/ SubmitDies(j) \/ Expire(j)
      PROVE  Stored'
  <2>1. CASE CreateVideo(j)
    <3> DEFINE v == NewVideo(submit[j].file, submit[j].profile, submit[j].max_quality)
    <3>1. v.status # "done"
      BY DEF NewVideo
    <3>2. \A k \in Jobs : videos'[k] \in {videos[k], v}
      BY <2>1 DEF CreateVideo, WellFormed, TypeOK
    <3> HIDE DEF v
    <3> QED
      BY <1>1, <2>1, <3>1, <3>2 DEF CreateVideo, IsDone
  <2> QED
    BY <1>1, <1>2, <2>1
       DEF SubmitStep, Submit, CreateJob, ReadDuplicate, FailDuplicate, Send,
           SubmitDies, Expire
<1>3. ASSUME NEW d \in Dismissers, DismissStep(d) PROVE Stored'
  <2>1. UNCHANGED <<videos, objects, worker>>
    BY <1>3, Zenon DEF DismissStep, DismissOne, DismissAll, ScanJob,
       ReadDismissed, WriteDismissed
  <2> QED
    BY <1>1, <2>1
<1>4. ASSUME NEW w \in Workers, WorkerStep(w) \/ Abort(w) \/ Crash(w) PROVE Stored'
  <2> DEFINE j == worker[w].job
  <2>1. objects \subseteq objects' /\ UploadsOK(w) /\ UploadsOK(w)'
    BY <1>4, StepUploads DEF Stored
  <2>2. ASSUME NEW x \in Workers PROVE UploadsOK(x)'
    BY <1>4, <2>1, OthersStay DEF Stored, UploadsOK, ThumbnailKey, ClipsKey
  <2>3. ASSUME NEW k \in Jobs, IsDone(videos'[k])
        PROVE  /\ videos'[k].display_name # None
               /\ {videos'[k].result_key, ThumbnailKey(k), ClipsKey(k)} \subseteq objects'
    <3>1. CASE videos'[k] = videos[k]
      BY <2>1, <2>3, <3>1 DEF Stored, PublishedIsStored, IsDone
    <3>2. CASE k = j /\ worker[w].pc = "name" /\ videos[j] # None
               /\ videos'[j] = Published(w)
      BY <2>1, <3>2, PublishedFields DEF UploadsOK
    <3>3. CASE k = j /\ videos[k] # None
               /\ videos'[k] = [videos[k] EXCEPT !.status = "failed"]
      <4>1. videos'[k].status = "failed"
        BY <3>3 DEF WellFormed, TypeOK, Video
      <4> QED
        BY <2>3, <4>1 DEF IsDone
    <3> QED
      BY <1>4, <3>1, <3>2, <3>3, VideoAfter
  <2> QED
    BY <2>2, <2>3 DEF Stored, PublishedIsStored, IsDone
<1>5. CASE UNCHANGED vars
  BY <1>1, <1>5 DEF vars
<1> QED
  BY <1>2, <1>3, <1>4, <1>5 DEF Next

\* A video in the library has all it links to in the object store, whichever
\* delivery of its job published it, whatever crashed or was aborted meanwhile.
THEOREM PublishedIsAlwaysStored == Spec => []PublishedIsStored
<1>1. Init => Stored
  BY DEF Init, Stored, UploadsOK, PublishedIsStored, IsDone, IdleWorker
<1>2. Stored => PublishedIsStored
  BY DEF Stored
<1>3. WellFormed /\ Stored /\ [Next]_vars => Stored'
  BY NextStored
<1> QED
  BY <1>1, <1>2, <1>3, WellFormedAlways, PTL DEF Spec

-----------------------------------------------------------------------------
(* A submission and its video.                                              *)

\* What a step of submission j does to its record.
SubmitMoves(j) ==
  /\ \A k \in Jobs \ {j} : submit'[k] = submit[k]
  /\ \/ /\ Submit(j) /\ submit[j].pc = "new"
        /\ submit'[j].pc \in {"create_job", "rejected"}
     \/ /\ submit'[j].file = submit[j].file
        /\ submit'[j].profile = submit[j].profile
        /\ submit'[j].max_quality = submit[j].max_quality
        /\ \/ CreateJob(j) /\ submit[j].pc = "create_job" /\ submit'[j].pc = "create_video"
           \/ /\ CreateVideo(j) /\ submit[j].pc = "create_video"
              /\ submit'[j].pc \in {"send", "duplicate"}
           \/ /\ ReadDuplicate(j) /\ submit[j].pc = "duplicate"
              /\ submit'[j].pc \in {"died", "duplicate"}
           \/ FailDuplicate(j) /\ submit[j].pc = "duplicate" /\ submit'[j].pc = "rejected"
           \/ Send(j) /\ submit[j].pc = "send" /\ submit'[j].pc = "accepted"
           \/ SubmitDies(j) /\ submit'[j].pc = "died"

LEMMA SubmissionMoves ==
  ASSUME WellFormed, NEW j \in Jobs, SubmitStep(j) \/ SubmitDies(j)
  PROVE  SubmitMoves(j)
<1>1. submit \in [Jobs -> Submission] /\ submit[j] \in Submission
  BY DEF WellFormed, TypeOK
<1>2. ASSUME NEW r, submit' = [submit EXCEPT ![j] = r]
      PROVE  submit'[j] = r /\ \A k \in Jobs \ {j} : submit'[k] = submit[k]
  BY <1>1, <1>2
<1>3. ASSUME NEW pc, submit' = [submit EXCEPT ![j].pc = pc]
      PROVE  /\ submit'[j].pc = pc
             /\ submit'[j].file = submit[j].file
             /\ submit'[j].profile = submit[j].profile
             /\ submit'[j].max_quality = submit[j].max_quality
             /\ \A k \in Jobs \ {j} : submit'[k] = submit[k]
  <2> DEFINE r == [submit[j] EXCEPT !.pc = pc]
  <2>1. submit' = [submit EXCEPT ![j] = r]
    BY <1>3
  <2>2. /\ r.pc = pc /\ r.file = submit[j].file /\ r.profile = submit[j].profile
        /\ r.max_quality = submit[j].max_quality
    BY <1>1 DEF Submission
  <2> HIDE DEF r
  <2> QED
    BY <1>2, <2>1, <2>2
<1>4. ASSUME NEW pc, submit' = [submit EXCEPT ![j] =
                        [submit[j] EXCEPT !.pc = pc, !.snap = None]]
      PROVE  /\ submit'[j].pc = pc
             /\ submit'[j].file = submit[j].file
             /\ submit'[j].profile = submit[j].profile
             /\ submit'[j].max_quality = submit[j].max_quality
             /\ \A k \in Jobs \ {j} : submit'[k] = submit[k]
  <2> DEFINE r == [submit[j] EXCEPT !.pc = pc, !.snap = None]
  <2>1. /\ r.pc = pc /\ r.file = submit[j].file /\ r.profile = submit[j].profile
        /\ r.max_quality = submit[j].max_quality
    BY <1>1 DEF Submission
  <2> HIDE DEF r
  <2> QED
    BY <1>2, <1>4, <2>1 DEF r
<1>5. CASE Submit(j)
  <2>1. submit[j].pc = "new"
    BY <1>5 DEF Submit
  <2>2. ASSUME NEW file, NEW profile, NEW quality,
               submit' = [submit EXCEPT ![j] =
                 [ pc |-> "create_job", file |-> file, profile |-> profile,
                   max_quality |-> quality, snap |-> None ]]
        PROVE  submit'[j].pc = "create_job" /\ \A k \in Jobs \ {j} : submit'[k] = submit[k]
    BY <1>1, <2>2
  <2>3. /\ submit'[j].pc \in {"create_job", "rejected"}
        /\ \A k \in Jobs \ {j} : submit'[k] = submit[k]
    BY <1>3, <1>5, <2>2 DEF Submit
  <2> QED
    BY <1>5, <2>1, <2>3 DEF SubmitMoves
<1>6. CASE CreateJob(j) \/ Send(j)
  BY <1>3, <1>6 DEF SubmitMoves, CreateJob, Send
<1>7. CASE CreateVideo(j)
  <2>1. /\ submit[j].pc = "create_video"
        /\ \E pc \in {"send", "duplicate"} : submit' = [submit EXCEPT ![j].pc = pc]
    BY <1>7 DEF CreateVideo
  <2> QED
    BY <1>3, <1>7, <2>1 DEF SubmitMoves
<1>8. CASE ReadDuplicate(j)
  <2>1. CASE submit' = [submit EXCEPT ![j].pc = "died"]
    BY <1>3, <1>8, <2>1 DEF SubmitMoves, ReadDuplicate
  <2>2. CASE submit' = [submit EXCEPT ![j].snap = jobs[j]]
    <3> DEFINE r == [submit[j] EXCEPT !.snap = jobs[j]]
    <3>1. submit' = [submit EXCEPT ![j] = r]
      BY <2>2
    <3>2. /\ r.pc = submit[j].pc /\ r.file = submit[j].file
          /\ r.profile = submit[j].profile /\ r.max_quality = submit[j].max_quality
      BY <1>1 DEF Submission
    <3>3. submit[j].pc = "duplicate"
      BY <1>8 DEF ReadDuplicate
    <3> HIDE DEF r
    <3> QED
      BY <1>2, <1>8, <3>1, <3>2, <3>3 DEF SubmitMoves
  <2> QED
    BY <1>8, <2>1, <2>2 DEF ReadDuplicate
<1>9. CASE FailDuplicate(j)
  <2>1. submit[j].pc = "duplicate"
        /\ submit' = [submit EXCEPT ![j] = [submit[j] EXCEPT !.pc = "rejected", !.snap = None]]
    BY <1>9, Zenon DEF FailDuplicate
  <2> QED
    BY <1>4, <1>9, <2>1 DEF SubmitMoves
<1>10. CASE SubmitDies(j)
  <2>1. submit' = [submit EXCEPT ![j] = [submit[j] EXCEPT !.pc = "died", !.snap = None]]
    BY <1>10, Zenon DEF SubmitDies
  <2> QED
    BY <1>4, <1>10, <2>1 DEF SubmitMoves
<1> QED
  BY <1>5, <1>6, <1>7, <1>8, <1>9, <1>10 DEF SubmitStep

\* A video is what its submission asked for, from its insert to its publication;
\* only where "auto" was asked for does the profile change on the way.
VideoAsRequested(j) ==
  /\ submit[j].pc \in {"new", "create_job", "create_video", "duplicate"} =>
       videos[j] = None
  /\ submit[j].pc \in {"send", "accepted"} => videos[j] # None
  /\ videos[j] # None =>
       /\ videos[j].fingerprint = submit[j].file
       /\ videos[j].max_quality = submit[j].max_quality
       /\ submit[j].profile # "auto" => videos[j].profile = submit[j].profile

RunAsRequested(w) ==
  LET requested == submit[worker[w].job].profile IN
  /\ worker[w].pc \notin {"idle", "resolve", "fail", "fail_video", "ack"}
  /\ requested # "auto"
  => worker[w].profile = requested

AsRequested ==
  /\ \A j \in Jobs : VideoAsRequested(j)
  /\ \A w \in Workers : RunAsRequested(w)

\* A step of a submission leaves the workers and the other jobs' videos alone.
LEMMA SubmissionVideos ==
  ASSUME WellFormed, NEW j \in Jobs, SubmitStep(j) \/ SubmitDies(j)
  PROVE  /\ UNCHANGED <<objects, uploads, worker, dismiss>>
         /\ \A k \in Jobs \ {j} : videos'[k] = videos[k]
         /\ \/ videos'[j] = videos[j]
               /\ (CreateVideo(j) => submit'[j].pc = "duplicate")
            \/ /\ CreateVideo(j) /\ submit'[j].pc = "send"
               /\ videos'[j] =
                    NewVideo(submit[j].file, submit[j].profile, submit[j].max_quality)
<1>1. CASE CreateVideo(j)
  <2>1. /\ UNCHANGED <<objects, uploads, worker, dismiss>>
        /\ submit[j] \in Submission
    BY <1>1 DEF CreateVideo, WellFormed, TypeOK
  <2>2. CASE videos' = videos /\ submit' = [submit EXCEPT ![j].pc = "duplicate"]
    BY <2>1, <2>2 DEF WellFormed, TypeOK, Submission
  <2>3. CASE /\ videos' = [videos EXCEPT ![j] =
                  NewVideo(submit[j].file, submit[j].profile, submit[j].max_quality)]
             /\ submit' = [submit EXCEPT ![j].pc = "send"]
    BY <1>1, <2>1, <2>3 DEF WellFormed, TypeOK, Submission
  <2> QED
    BY <1>1, <2>2, <2>3 DEF CreateVideo
<1>2. CASE ~CreateVideo(j)
  <2>1. UNCHANGED <<videos, objects, uploads, worker, dismiss>>
    BY <1>2, Zenon DEF SubmitStep, Submit, CreateJob, ReadDuplicate, FailDuplicate,
       Send, SubmitDies
  <2> QED
    BY <1>2, <2>1
<1> QED
  BY <1>1, <1>2

LEMMA SubmissionAsRequested ==
  ASSUME WellFormed, AsRequested, NEW j \in Jobs, SubmitStep(j) \/ SubmitDies(j)
  PROVE  AsRequested'
<1>1. SubmitMoves(j)
  BY SubmissionMoves
<1>2. VideoAsRequested(j)
  BY DEF AsRequested
<1>3. VideoAsRequested(j)'
  <2>1. CASE Submit(j) /\ submit[j].pc = "new"
    <3>1. videos'[j] = None
      BY <1>2, <2>1, SubmissionVideos DEF VideoAsRequested, CreateVideo
    <3> QED
      BY <1>1, <2>1, <3>1 DEF SubmitMoves, VideoAsRequested, Submit, CreateJob,
        CreateVideo, ReadDuplicate, FailDuplicate, Send, SubmitDies
  <2>2. CASE CreateVideo(j) /\ submit'[j].pc = "send"
    <3> DEFINE v == NewVideo(submit[j].file, submit[j].profile, submit[j].max_quality)
    <3>1. /\ v.fingerprint = submit[j].file /\ v.profile = submit[j].profile
          /\ v.max_quality = submit[j].max_quality
      BY DEF NewVideo
    <3>2. v # None
      <4>1. SubmitOK(j) /\ submit[j].pc = "create_video" /\ submit[j] \in Submission
        BY <2>2 DEF CreateVideo, WellFormed, TypeOK
      <4>2. v \in Video
        BY <4>1 DEF NewVideo, Video, VideoStatus, SubmitOK, Submission
      <4> QED
        BY <4>2, AbsenceAssumption
    <3>3. videos'[j] = v
      BY <1>2, <2>2, SubmissionVideos DEF VideoAsRequested, CreateVideo
    <3>4. /\ submit'[j].file = submit[j].file
          /\ submit'[j].profile = submit[j].profile
          /\ submit'[j].max_quality = submit[j].max_quality
      BY <1>1, <2>2 DEF SubmitMoves, Submit, CreateVideo
    <3> HIDE DEF v
    <3> QED
      BY <2>2, <3>1, <3>2, <3>3, <3>4 DEF VideoAsRequested
  <2>3. CASE ~Submit(j) /\ ~(CreateVideo(j) /\ submit'[j].pc = "send")
    <3>1. videos'[j] = videos[j] /\ (CreateVideo(j) => submit'[j].pc = "duplicate")
      BY <2>3, SubmissionVideos
    <3> QED
      BY <1>1, <1>2, <2>3, <3>1 DEF SubmitMoves, VideoAsRequested
  <2> QED
    BY <1>1, <2>1, <2>2, <2>3 DEF SubmitMoves, Submit
<1>4. ASSUME NEW k \in Jobs PROVE VideoAsRequested(k)'
  <2>1. CASE k = j
    BY <1>3, <2>1
  <2>2. CASE k # j
    BY <1>1, <2>2, SubmissionVideos DEF AsRequested, VideoAsRequested, SubmitMoves
  <2> QED
    BY <2>1, <2>2
<1>5. ASSUME NEW w \in Workers PROVE RunAsRequested(w)'
  <2>1. worker'[w] = worker[w]
    BY SubmissionVideos
  <2>2. CASE worker[w].pc = "idle"
    BY <2>1, <2>2 DEF RunAsRequested
  <2>3. CASE worker[w].pc # "idle"
    <3>1. worker[w].job \in Jobs /\ submit[worker[w].job].pc = "accepted"
      BY <2>3 DEF WellFormed, TypeOK, WorkerOK, WorkerState, SubmitOK, Delivered, Running
    <3>2. submit'[worker[w].job].profile = submit[worker[w].job].profile
      BY <1>1, <3>1 DEF SubmitMoves
    <3> QED
      BY <2>1, <3>2 DEF AsRequested, RunAsRequested
  <2> QED
    BY <2>2, <2>3
<1> QED
  BY <1>4, <1>5 DEF AsRequested

LEMMA WorkerAsRequested ==
  ASSUME WellFormed, AsRequested, NEW w \in Workers,
         WorkerStep(w) \/ Abort(w) \/ Crash(w)
  PROVE  AsRequested'
<1> DEFINE j == worker[w].job
<1>1. submit' = submit
  BY Zenon DEF WorkerStep, Pickup, Resolve, CheckRunnable, ReadJob, WriteStep,
      WriteJob, RecordResolved, StartRunning, StartProcessing, RecordProgress,
      StartUploading, CompleteJob, RecordFailure, Download, Encode, UploadResult,
      UploadThumbnail, UploadClips, UploadFails, PublishVideo, FailVideo, Ack,
      Abort, Crash
<1>2. RunAsRequested(w)'
  <2>1. CASE worker'[w].pc \in {"idle", "resolve", "fail", "fail_video", "ack"}
    BY <2>1 DEF RunAsRequested
  <2>2. CASE worker'[w].pc \notin {"idle", "resolve", "fail", "fail_video", "ack"}
    <3>1. Continues(w)
      BY <2>2, StartOrEnd, WorkerContinues
    <3>2. CASE Resolve(w)
      <4>1. \/ \E p \in IF submit[j].profile = "auto" THEN Implemented
                        ELSE {submit[j].profile} :
                 worker' = [worker EXCEPT ![w] =
                   [worker[w] EXCEPT !.pc = "resolved", !.profile = p]]
            \/ Goto(w, "fail")
        BY <3>2, Zenon DEF Resolve
      <4>2. ~Goto(w, "fail")
        BY <2>2 DEF Goto, WellFormed, TypeOK, WorkerState
      <4>3. ASSUME submit[j].profile # "auto"
            PROVE  worker'[w].profile = submit[j].profile
        <5> DEFINE r == [worker[w] EXCEPT !.pc = "resolved", !.profile = submit[j].profile]
        <5>1. worker' = [worker EXCEPT ![w] = r]
          BY <4>1, <4>2, <4>3, Zenon
        <5>2. r.profile = submit[j].profile
          BY DEF WellFormed, TypeOK, WorkerState
        <5> HIDE DEF r
        <5> QED
          BY <5>1, <5>2 DEF WellFormed, TypeOK
      <4> QED
        BY <1>1, <3>1, <4>3 DEF Continues, RunAsRequested
    <3>3. CASE ~Resolve(w)
      <4>1. /\ worker'[w].profile = worker[w].profile /\ worker'[w].job = j
            /\ worker[w].pc \notin {"idle", "fail", "fail_video", "ack"}
        BY <2>2, <3>1, <3>3 DEF Continues, Flow
      <4>2. worker[w].pc # "resolve"
        BY <2>2, <3>1, <3>3 DEF Continues
      <4> QED
        BY <1>1, <4>1, <4>2 DEF AsRequested, RunAsRequested
    <3> QED
      BY <3>2, <3>3
  <2> QED
    BY <2>1, <2>2
<1>3. ASSUME NEW x \in Workers PROVE RunAsRequested(x)'
  BY <1>1, <1>2, OthersStay DEF AsRequested, RunAsRequested
<1>4. ASSUME NEW k \in Jobs PROVE VideoAsRequested(k)'
  <2>0. VideoAsRequested(k)
    BY DEF AsRequested
  <2>1. CASE videos'[k] = videos[k]
    BY <1>1, <2>0, <2>1 DEF VideoAsRequested
  <2>2. CASE k = j /\ worker[w].pc = "name" /\ videos[j] # None
             /\ videos'[j] = Published(w)
    <3>1. RunAsRequested(w)
      BY DEF AsRequested
    <3> QED
      BY <1>1, <2>0, <2>2, <3>1, PublishedFields DEF VideoAsRequested, RunAsRequested
  <2>3. CASE k = j /\ videos[k] # None
             /\ videos'[k] = [videos[k] EXCEPT !.status = "failed"]
    <3> DEFINE v == [videos[k] EXCEPT !.status = "failed"]
    <3>1. /\ v \in Video /\ v.fingerprint = videos[k].fingerprint
          /\ v.profile = videos[k].profile /\ v.max_quality = videos[k].max_quality
      BY <2>3 DEF WellFormed, TypeOK, Video, VideoStatus
    <3> HIDE DEF v
    <3>2. v # None
      BY <3>1, AbsenceAssumption
    <3> QED
      BY <1>1, <2>0, <2>3, <3>1, <3>2 DEF VideoAsRequested, v
  <2> QED
    BY <2>1, <2>2, <2>3, VideoAfter
<1> QED
  BY <1>3, <1>4 DEF AsRequested

\* A step that is neither a submission's nor a worker's.
LEMMA OtherSteps ==
  ASSUME [Next]_vars,
         \A j \in Jobs : ~SubmitStep(j) /\ ~SubmitDies(j),
         \A w \in Workers : ~WorkerStep(w) /\ ~Abort(w) /\ ~Crash(w)
  PROVE  UNCHANGED <<videos, objects, uploads, queue, submit, worker>>
<1>1. ASSUME NEW d \in Dismissers, DismissStep(d)
      PROVE  UNCHANGED <<videos, objects, uploads, queue, submit, worker>>
  BY <1>1, Zenon DEF DismissStep, DismissOne, DismissAll, ScanJob, ReadDismissed,
     WriteDismissed
<1>2. ASSUME NEW j \in Jobs, Expire(j)
      PROVE  UNCHANGED <<videos, objects, uploads, queue, submit, worker>>
  BY <1>2 DEF Expire
<1> QED
  BY <1>1, <1>2 DEF Next, vars

LEMMA NextAsRequested ==
  ASSUME WellFormed, AsRequested, [Next]_vars
  PROVE  AsRequested'
<1>1. CASE UNCHANGED <<videos, objects, uploads, queue, submit, worker>>
  BY <1>1 DEF AsRequested, VideoAsRequested, RunAsRequested
<1> QED
  BY <1>1, SubmissionAsRequested, WorkerAsRequested, OtherSteps

LEMMA AsRequestedAlways == Spec => []AsRequested
<1>1. Init => AsRequested
  BY DEF Init, AsRequested, VideoAsRequested, RunAsRequested, IdleWorker
<1>2. WellFormed /\ AsRequested /\ [Next]_vars => AsRequested'
  BY NextAsRequested
<1> QED
  BY <1>1, <1>2, WellFormedAlways, PTL DEF Spec

\* OneRunPerRequest, but for the requests that leave the profile to "auto".
OneRunPerExplicitRequest ==
  \A j, k \in Jobs :
    /\ submit[j].pc = "accepted" /\ submit[k].pc = "accepted"
    /\ submit[j].file = submit[k].file
    /\ submit[j].profile = submit[k].profile
    /\ submit[j].profile # "auto"
    /\ submit[j].max_quality = submit[k].max_quality
    /\ videos[j].status \in ActiveStatus /\ videos[k].status \in ActiveStatus
    => j = k

\* A file is never accepted twice for a profile that is asked for by its name,
\* while the first video is in progress or done: what FR-021 says of every
\* request fails for "auto" only.
THEOREM ExplicitRunsOnce == Spec => []OneRunPerExplicitRequest
<1>1. Indexed /\ AsRequested => OneRunPerExplicitRequest
  <2> SUFFICES ASSUME Indexed, AsRequested,
                      NEW j \in Jobs, NEW k \in Jobs,
                      submit[j].pc = "accepted", submit[k].pc = "accepted",
                      submit[j].file = submit[k].file,
                      submit[j].profile = submit[k].profile,
                      submit[j].profile # "auto",
                      submit[j].max_quality = submit[k].max_quality,
                      videos[j].status \in ActiveStatus,
                      videos[k].status \in ActiveStatus
               PROVE  j = k
    BY DEF OneRunPerExplicitRequest
  <2>1. videos[j] # None /\ videos[k] # None
    BY DEF AsRequested, VideoAsRequested
  <2>2. Matches(videos[k], videos[j].fingerprint, videos[j].profile,
                videos[j].max_quality)
    BY <2>1 DEF Matches, AsRequested, VideoAsRequested
  <2> QED
    BY <2>1, <2>2 DEF Indexed, ActiveKeysUnique
<1> QED
  BY <1>1, IndexedAlways, AsRequestedAlways, PTL

-----------------------------------------------------------------------------
(* Videos nobody is going to settle.                                        *)

\* A video is given up when it is stranded, and as soon as its job is missing.
GivenUp(j) ==
  \/ Stranded(j)
  \/ jobs[j] = None /\ submit[j].pc \in {"create_video", "send", "accepted"}

LostJobs == {j \in Jobs : GivenUp(j)}

Spent ==
  (MaxAborts - budget.aborts) + (MaxApiDeaths - budget.api_deaths)
    + (MaxExpiries - budget.expiries)

\* A run that has published its video has settled it.
Settled(w) ==
  worker[w].pc = "done" =>
    /\ videos[worker[w].job] # None
    /\ videos[worker[w].job].status # "in_progress"

AllSettled == \A w \in Workers : Settled(w)

Bounded == IsFiniteSet(LostJobs) /\ Cardinality(LostJobs) <= Spent

\* One more job at most is given up, and one more fault spent; or none.
LEMMA BoundStep ==
  ASSUME WellFormed, Bounded, Spent' \in Int,
         \/ LostJobs' \subseteq LostJobs /\ Spent' = Spent
         \/ \E j \in Jobs : LostJobs' \subseteq LostJobs \cup {j} /\ Spent' = Spent + 1
  PROVE  Bounded'
<1> DEFINE L == LostJobs
           M == LostJobs'
           n == Spent
           m == Spent'
<1>1. IsFiniteSet(L) /\ Cardinality(L) <= n /\ Cardinality(L) \in Nat
  BY FS_CardinalityType DEF Bounded
<1>2. n \in Int /\ m \in Int
  BY DEF Spent, WellFormed, TypeOK, Budget
<1>3. CASE M \subseteq L /\ m = n
  <2>1. IsFiniteSet(M) /\ Cardinality(M) <= Cardinality(L)
    BY <1>1, <1>3, FS_Subset
  <2>2. Cardinality(M) \in Nat
    BY <2>1, FS_CardinalityType
  <2>3. Cardinality(M) <= m
    BY <1>1, <1>2, <1>3, <2>1, <2>2
  <2> QED
    BY <2>1, <2>3 DEF Bounded
<1>4. ASSUME NEW j \in Jobs, M \subseteq L \cup {j}, m = n + 1 PROVE Bounded'
  <2>a. /\ IsFiniteSet(L \cup {j})
        /\ Cardinality(L \cup {j}) \in {Cardinality(L), Cardinality(L) + 1}
    BY <1>1, FS_AddElement
  <2>1. /\ IsFiniteSet(L \cup {j})
        /\ Cardinality(L \cup {j}) <= Cardinality(L) + 1
        /\ Cardinality(L \cup {j}) \in Nat
    BY <1>1, <2>a
  <2>2. IsFiniteSet(M) /\ Cardinality(M) <= Cardinality(L \cup {j})
    BY <1>4, <2>1, FS_Subset
  <2>3. Cardinality(M) \in Nat
    BY <2>2, FS_CardinalityType
  <2>4. Cardinality(M) <= m
    BY <1>1, <1>2, <1>4, <2>1, <2>2, <2>3
  <2> QED
    BY <2>2, <2>4 DEF Bounded
<1> QED
  BY <1>3, <1>4

\* A job that a step leaves out of account is given up only if it was before.
LEMMA GivenUpFrame ==
  ASSUME NEW j \in Jobs, GivenUp(j)',
         submit'[j] = submit[j], videos'[j] = videos[j],
         jobs'[j] = None => jobs[j] = None,
         j \in queue => j \in queue',
         \A w \in Workers : worker[w].job = j => worker'[w] = worker[w]
  PROVE  GivenUp(j)
BY DEF GivenUp, Stranded

LEMMA SubmissionGivesUp ==
  ASSUME WellFormed, AsRequested, NEW j \in Jobs, SubmitStep(j),
         NEW k \in Jobs, GivenUp(k)'
  PROVE  GivenUp(k)
<1>1. /\ SubmitMoves(j) /\ VideoAsRequested(j) /\ UNCHANGED worker
      /\ jobs \in [Jobs -> Job \cup {None}]
  BY SubmissionMoves, SubmissionVideos DEF AsRequested, WellFormed, TypeOK
<1>2. /\ \A x \in Jobs \ {j} : jobs'[x] = jobs[x]
      /\ jobs'[j] # jobs[j] => CreateJob(j) \/ FailDuplicate(j)
  BY <1>1, Zenon DEF SubmitStep, Submit, CreateJob, CreateVideo, ReadDuplicate,
     FailDuplicate, Send
<1>3. queue \subseteq queue'
  BY Zenon DEF SubmitStep, Submit, CreateJob, CreateVideo, ReadDuplicate,
     FailDuplicate, Send
<1>4. CASE k # j
  BY <1>1, <1>2, <1>3, <1>4, SubmissionVideos, GivenUpFrame DEF SubmitMoves
<1>5. CASE k = j
  <2>1. CASE submit[j].pc \in {"new", "duplicate"}
    <3>1. videos'[j] = None
      BY <1>1, <2>1, SubmissionVideos DEF VideoAsRequested, CreateVideo
    <3>2. submit'[j].pc \in {"create_job", "rejected", "died", "duplicate"}
      BY <1>1, <2>1 DEF SubmitMoves
    <3> QED
      BY <1>5, <3>1, <3>2 DEF GivenUp, Stranded
  <2>2. CASE CreateJob(j)
    <3>1. videos'[j] = None
      BY <1>1, <2>2 DEF VideoAsRequested, CreateJob
    <3>2. submit[j] \in Submission /\ SubmitOK(j) /\ submit[j].pc = "create_job"
      BY <2>2 DEF CreateJob, WellFormed, TypeOK
    <3>3. NewJob(submit[j].file, submit[j].profile, submit[j].max_quality) \in Job
      BY <3>2 DEF NewJob, Job, JobStatus, SubmitOK, Submission
    <3>4. jobs'[j] # None
      BY <1>1, <2>2, <3>3, AbsenceAssumption DEF CreateJob
    <3> QED
      BY <1>5, <3>1, <3>4 DEF GivenUp, Stranded
  <2>3. CASE CreateVideo(j)
    <3>1. jobs'[j] = jobs[j] /\ submit[j].pc = "create_video"
      BY <2>3 DEF CreateVideo
    <3>2. \/ submit'[j].pc = "send"
          \/ submit'[j].pc = "duplicate" /\ videos'[j] = None
      <4>1. \/ submit'[j].pc = "send"
            \/ submit'[j].pc = "duplicate" /\ videos'[j] = videos[j]
        BY <2>3, SubmissionVideos
      <4>2. videos[j] = None
        BY <1>1, <3>1 DEF VideoAsRequested
      <4> QED
        BY <4>1, <4>2
    <3> QED
      BY <1>5, <3>1, <3>2 DEF GivenUp, Stranded
  <2>4. CASE Send(j)
    BY <1>5, <2>4 DEF Send, GivenUp, Stranded
  <2> QED
    BY <1>1, <2>1, <2>2, <2>3, <2>4 DEF SubmitMoves, SubmitStep, Submit,
       ReadDuplicate, FailDuplicate
<1> QED
  BY <1>4, <1>5

\* What a worker's step leaves of a video in progress, and of a job's hash.
LEMMA WorkerLeaves ==
  ASSUME WellFormed, NEW w \in Workers, WorkerStep(w) \/ Abort(w) \/ Crash(w),
         NEW j \in Jobs
  PROVE  /\ submit' = submit
         /\ videos'[j] = None <=> videos[j] = None
         /\ videos'[j].status = "in_progress" /\ videos[j] # None
              => videos'[j] = videos[j]
         /\ jobs'[j] = None => jobs[j] = None
<1>1. submit' = submit
  BY Zenon DEF WorkerStep, Pickup, Resolve, CheckRunnable, ReadJob, WriteStep,
      WriteJob, RecordResolved, StartRunning, StartProcessing, RecordProgress,
      StartUploading, CompleteJob, RecordFailure, Download, Encode, UploadResult,
      UploadThumbnail, UploadClips, UploadFails, PublishVideo, FailVideo, Ack,
      Abort, Crash
<1>2. /\ videos'[j] = None <=> videos[j] = None
      /\ videos'[j].status = "in_progress" /\ videos[j] # None
           => videos'[j] = videos[j]
  <2>1. ASSUME videos[j] # None
        PROVE  LET v == [videos[j] EXCEPT !.status = "failed"] IN
               v # None /\ v.status = "failed"
    <3> DEFINE v == [videos[j] EXCEPT !.status = "failed"]
    <3>1. v \in Video /\ v.status = "failed"
      BY <2>1 DEF WellFormed, TypeOK, Video, VideoStatus
    <3> HIDE DEF v
    <3>2. v # None /\ v.status = "failed"
      BY <3>1, AbsenceAssumption
    <3> QED
      BY <3>2 DEF v
  <2> QED
    BY <2>1, VideoAfter, PublishedFields
<1>3. jobs'[j] = None => jobs[j] = None
  <2>1. CASE jobs' = jobs
    BY <2>1
  <2>2. CASE WriteStep(w)
    <3>1. StoresTyped' /\ worker[w] \in WorkerState
      BY NextWellFormed, <2>2 DEF WellFormed, TypeOK, StoresTyped, Next, WorkerStep
    <3>2. PICK updated : jobs' = [jobs EXCEPT ![worker[w].job] = updated]
                         /\ updated # None
      <4>1. worker[w].snap \in Job
        BY <2>2, <3>1 DEF WriteStep, RecordResolved, StartRunning, StartProcessing,
           RecordProgress, StartUploading, CompleteJob, RecordFailure, WriteJob,
           WorkerState
      <4> DEFINE s == worker[w].snap
      <4>2. ASSUME NEW at, NEW updated, NEW next, WriteJob(w, at, updated, next),
                   updated \in Job
            PROVE  \E u : jobs' = [jobs EXCEPT ![worker[w].job] = u] /\ u # None
        <5>1. updated # None
          BY <4>2, AbsenceAssumption
        <5>2. jobs' = [jobs EXCEPT ![worker[w].job] = updated]
          BY <4>2 DEF WriteJob
        <5> QED
          BY <5>1, <5>2, Zenon
      <4>3. WorkerOK(w)
        BY DEF WellFormed
      <4>4. CASE RecordResolved(w)
        <5>1. [s EXCEPT !.resolved_profile = worker[w].profile] \in Job
          BY <3>1, <4>1 DEF Job, WorkerState
        <5> QED
          BY <4>2, <4>4, <5>1 DEF RecordResolved
      <4>5. CASE StartRunning(w)
        <5>1. [s EXCEPT !.status = "running", !.stage = "downloading"] \in Job
          BY <4>1 DEF Job, JobStatus, JobStage
        <5> QED
          BY <4>2, <4>5, <5>1 DEF StartRunning
      <4>6. CASE StartProcessing(w)
        <5>1. [s EXCEPT !.stage = "processing"] \in Job
          BY <4>1 DEF Job, JobStage
        <5> QED
          BY <4>2, <4>6, <5>1 DEF StartProcessing
      <4>7. CASE RecordProgress(w)
        BY <4>1, <4>2, <4>7 DEF RecordProgress
      <4>8. CASE StartUploading(w)
        <5>1. [s EXCEPT !.stage = "uploading_result"] \in Job
          BY <4>1 DEF Job, JobStage
        <5> QED
          BY <4>2, <4>8, <5>1 DEF StartUploading
      <4>9. CASE CompleteJob(w)
        <5>1. [s EXCEPT !.status = "done", !.stage = None,
                        !.result_key = worker[w].result_key] \in Job
          BY <3>1, <4>1 DEF Job, JobStatus, WorkerState
        <5> QED
          BY <4>2, <4>9, <5>1 DEF CompleteJob
      <4>10. CASE RecordFailure(w)
        <5>1. [s EXCEPT !.status = "failed", !.error = TRUE] \in Job
          BY <4>1 DEF Job, JobStatus
        <5> QED
          BY <4>2, <4>10, <5>1 DEF RecordFailure
      <4> QED
        BY <2>2, <4>4, <4>5, <4>6, <4>7, <4>8, <4>9, <4>10 DEF WriteStep
    <3> QED
      BY <3>2 DEF WellFormed, TypeOK
  <2> QED
    BY <2>1, <2>2, Zenon
       DEF WorkerStep, Pickup, Resolve, CheckRunnable, ReadJob, Download,
           Encode, UploadResult, UploadThumbnail, UploadClips, UploadFails,
           PublishVideo, FailVideo, Ack, Abort, Crash
<1> QED
  BY <1>1, <1>2, <1>3

LEMMA WorkerSpendsNothing ==
  ASSUME NEW w \in Workers, WorkerStep(w)
  PROVE  budget' = budget
<1> QED
  BY Zenon DEF WorkerStep, Pickup, Resolve, CheckRunnable, ReadJob, WriteStep,
    WriteJob, RecordResolved, StartRunning, StartProcessing, RecordProgress,
    StartUploading, CompleteJob, RecordFailure, Download, Encode, UploadResult,
    UploadThumbnail, UploadClips, UploadFails, PublishVideo, FailVideo, Ack

LEMMA WorkerGivesUp ==
  ASSUME WellFormed, AsRequested, AllSettled, NEW w \in Workers,
         WorkerStep(w) \/ Crash(w),
         NEW k \in Jobs, GivenUp(k)'
  PROVE  GivenUp(k)
<1>1. submit' = submit /\ (jobs'[k] = None => jobs[k] = None)
  BY WorkerLeaves
<1>2. CASE jobs'[k] = None /\ submit'[k].pc \in {"create_video", "send", "accepted"}
  BY <1>1, <1>2 DEF GivenUp
<1>3. CASE Stranded(k)'
  <2>1. /\ videos[k] # None /\ videos[k].status = "in_progress"
        /\ videos'[k] = videos[k]
        /\ submit[k].pc # "send" /\ k \notin queue'
        /\ \A x \in Workers : worker'[x].job = k => worker'[x].pc = "ack"
    BY <1>1, <1>3, WorkerLeaves DEF Stranded
  <2>2. CASE k \in queue
    <3>1. submit[k].pc = "accepted"
      BY <2>2 DEF WellFormed, SubmitOK, Delivered
    <3>2. Pickup(w, k)
      <4>1. queue' = queue \/ Crash(w) \/ \E j \in Jobs : Pickup(w, j)
        BY Zenon DEF WorkerStep, Resolve, CheckRunnable, ReadJob, WriteStep,
          WriteJob, RecordResolved, StartRunning, StartProcessing, RecordProgress,
          StartUploading, CompleteJob, RecordFailure, Download, Encode,
          UploadResult, UploadThumbnail, UploadClips, UploadFails, PublishVideo,
          FailVideo, Ack
      <4>2. ~Crash(w)
        BY <2>1, <2>2 DEF Crash
      <4>3. ASSUME NEW j \in Jobs, Pickup(w, j), j # k PROVE FALSE
        BY <2>1, <2>2, <4>3 DEF Pickup
      <4> QED
        BY <2>1, <2>2, <4>1, <4>2, <4>3
    <3>3. jobs[k] = None
      <4> DEFINE r == [IdleWorker EXCEPT
                         !.pc = IF jobs[k] = None THEN "ack" ELSE "resolve", !.job = k]
      <4>1. r.job = k /\ r.pc = IF jobs[k] = None THEN "ack" ELSE "resolve"
        BY DEF IdleWorker
      <4>2. worker'[w] = r
        BY <3>2 DEF Pickup, WellFormed, TypeOK
      <4> HIDE DEF r
      <4>3. worker'[w].pc = "ack"
        BY <2>1, <4>1, <4>2
      <4> QED
        BY <4>1, <4>2, <4>3
    <3> QED
      BY <3>1, <3>3 DEF GivenUp
  <2>3. CASE k \notin queue /\ worker[w].job = k /\ worker[w].pc # "ack"
    <3>1. submit[k].pc = "accepted" /\ worker[w].pc # "idle"
      BY <2>3 DEF WellFormed, SubmitOK, Delivered, Running, WorkerOK
    <3>2. Continues(w)
      <4>1. ~Ack(w) /\ ~Crash(w) /\ \A j \in Jobs : ~Pickup(w, j)
        BY <2>1, <2>3, <3>1 DEF Ack, Crash, Pickup
      <4> QED
        BY <4>1, WorkerContinues
    <3>3. worker'[w].pc = "ack"
      BY <2>1, <2>3, <3>2 DEF Continues
    <3>4. Abort(w) \/ CompleteJob(w) \/ FailVideo(w) \/ jobs[k] = None
      BY <2>3, <3>2, <3>3 DEF Continues
    <3>5. ~CompleteJob(w)
      BY <2>1, <2>3 DEF AllSettled, Settled, CompleteJob, WriteJob
    <3>6. ~FailVideo(w)
      <4> DEFINE v == [videos[k] EXCEPT !.status = "failed"]
      <4>1. ASSUME FailVideo(w) PROVE videos'[k] = v
        BY <2>1, <2>3, <4>1 DEF FailVideo, WellFormed, TypeOK
      <4>2. v.status = "failed"
        BY <2>1 DEF WellFormed, TypeOK, Video
      <4> HIDE DEF v
      <4> QED
        BY <2>1, <4>1, <4>2
    <3>7. ~Abort(w)
      <4>1. ~Crash(w)
        BY <2>1, <2>3 DEF Crash
      <4>2. budget' = budget
        BY <4>1, WorkerSpendsNothing
      <4> QED
        BY <4>2 DEF Abort, WellFormed, TypeOK, Budget
    <3> QED
      BY <3>1, <3>4, <3>5, <3>6, <3>7 DEF GivenUp
  <2>4. CASE k \notin queue /\ ~(worker[w].job = k /\ worker[w].pc # "ack")
    <3>1. \A x \in Workers : worker[x].job = k => worker[x].pc = "ack"
      BY <2>1, <2>4, OthersStay
    <3> QED
      BY <2>1, <2>4, <3>1 DEF GivenUp, Stranded
  <2> QED
    BY <2>2, <2>3, <2>4
<1> QED
  BY <1>2, <1>3 DEF GivenUp

LEMMA NextSettled ==
  ASSUME WellFormed, AllSettled, [Next]_vars
  PROVE  AllSettled'
<1>1. CASE UNCHANGED <<videos, objects, uploads, queue, submit, worker>>
  BY <1>1 DEF AllSettled, Settled
<1>2. ASSUME NEW j \in Jobs, SubmitStep(j) \/ SubmitDies(j) PROVE AllSettled'
  <2> SUFFICES ASSUME NEW x \in Workers, worker'[x].pc = "done"
               PROVE  /\ videos'[worker'[x].job] # None
                      /\ videos'[worker'[x].job].status # "in_progress"
    BY DEF AllSettled, Settled
  <2>1. worker' = worker
    BY <1>2, SubmissionVideos
  <2>2. worker[x].job \in Jobs /\ submit[worker[x].job].pc = "accepted"
    BY <2>1 DEF WellFormed, TypeOK, WorkerOK, WorkerState, SubmitOK, Delivered, Running
  <2>3. videos'[worker[x].job] = videos[worker[x].job]
    BY <1>2, <2>2, SubmissionVideos DEF CreateVideo
  <2> QED
    BY <2>1, <2>3 DEF AllSettled, Settled
<1>3. ASSUME NEW w \in Workers, WorkerStep(w) \/ Abort(w) \/ Crash(w)
      PROVE  AllSettled'
  <2> SUFFICES ASSUME NEW x \in Workers, worker'[x].pc = "done"
               PROVE  /\ videos'[worker'[x].job] # None
                      /\ videos'[worker'[x].job].status # "in_progress"
    BY DEF AllSettled, Settled
  <2>1. CASE worker'[x].job = worker[x].job /\ worker[x].pc = "done"
    <3>1. worker[x].job \in Jobs
      BY <2>1 DEF WellFormed, TypeOK, WorkerOK, WorkerState
    <3> QED
      BY <1>3, <2>1, <3>1, WorkerLeaves DEF AllSettled, Settled
  <2>2. CASE ~(worker'[x].job = worker[x].job /\ worker[x].pc = "done")
    <3>1. x = w /\ Continues(w)
      <4>1. x = w
        BY <1>3, <2>2, OthersStay
      <4>2. ~Ack(w) /\ ~Crash(w) /\ \A j \in Jobs : ~Pickup(w, j)
        BY <4>1, StartOrEnd
      <4> QED
        BY <1>3, <4>1, <4>2, WorkerContinues
    <3>2. worker[w].pc = "name" /\ PublishVideo(w) /\ worker'[w].job = worker[w].job
      <4>1. ReadJob(w) => worker[w].pc # "name"
        BY DEF ReadJob, UpdatePc
      <4>2. worker'[w].pc = "done" /\ worker'[w].job = worker[w].job
        BY <3>1 DEF Continues
      <4> QED
        BY <2>2, <3>1, <4>1, <4>2 DEF Continues, Flow
    <3>3. worker[w].job \in Jobs
      BY <3>2 DEF WellFormed, TypeOK, WorkerOK, WorkerState
    <3>4. videos[worker[w].job] # None
          /\ videos'[worker[w].job] = Published(w)
      <4>1. ~Goto(w, "fail")
        BY <3>1 DEF Goto, WellFormed, TypeOK, WorkerState
      <4>2. ~NextName(w)
        <5> DEFINE pc == IF worker[w].attempt + 1 < MaxDisplayNameAttempts
                         THEN "name" ELSE "fail"
                   r == [worker[w] EXCEPT !.attempt = worker[w].attempt + 1, !.pc = pc]
        <5>1. r.pc \in {"name", "fail"}
          BY DEF WellFormed, TypeOK, WorkerState
        <5>2. NextName(w) => worker'[w] = r
          BY DEF NextName, WellFormed, TypeOK
        <5> HIDE DEF r
        <5> QED
          BY <3>1, <5>1, <5>2
      <4> QED
        BY <3>2, <3>3, <4>1, <4>2 DEF PublishVideo, WellFormed, TypeOK
    <3> QED
      BY <3>1, <3>2, <3>4, PublishedFields
  <2> QED
    BY <2>1, <2>2
<1> QED
  BY <1>1, <1>2, <1>3, OtherSteps

LEMMA NextBounded ==
  ASSUME WellFormed, AsRequested, AllSettled, Bounded, [Next]_vars
  PROVE  Bounded'
<1>0. /\ budget \in Budget /\ Spent \in Int
      /\ MaxAborts \in Int /\ MaxApiDeaths \in Int /\ MaxExpiries \in Int
  BY DEF Spent, WellFormed, TypeOK, Budget
<1>1. ASSUME \A k \in Jobs : GivenUp(k)' => GivenUp(k),
             \/ budget' = budget
             \/ budget' = [budget EXCEPT !.crashes = budget.crashes - 1]
      PROVE  Bounded'
  <2>1. /\ budget'.aborts = budget.aborts /\ budget'.api_deaths = budget.api_deaths
        /\ budget'.expiries = budget.expiries
    BY <1>0, <1>1 DEF Budget
  <2>2. Spent' = Spent
    BY <2>1 DEF Spent
  <2>3. LostJobs' \subseteq LostJobs
    BY <1>1 DEF LostJobs
  <2> QED
    BY <1>0, <2>2, <2>3, BoundStep
<1>2. ASSUME NEW j \in Jobs, \A k \in Jobs \ {j} : GivenUp(k)' => GivenUp(k),
             \/ budget' = [budget EXCEPT !.aborts = budget.aborts - 1]
             \/ budget' = [budget EXCEPT !.api_deaths = budget.api_deaths - 1]
             \/ budget' = [budget EXCEPT !.expiries = budget.expiries - 1]
      PROVE  Bounded'
  <2>1. Spent' = Spent + 1 /\ Spent' \in Int
    BY <1>0, <1>2 DEF Spent, Budget
  <2>2. LostJobs' \subseteq LostJobs \cup {j}
    BY <1>2 DEF LostJobs
  <2> QED
    BY <2>1, <2>2, BoundStep
<1>3. ASSUME NEW j \in Jobs, SubmitStep(j) PROVE Bounded'
  <2>1. budget' = budget
    BY <1>3, Zenon DEF SubmitStep, Submit, CreateJob, CreateVideo, ReadDuplicate,
       FailDuplicate, Send
  <2> QED
    BY <1>1, <1>3, <2>1, SubmissionGivesUp
<1>4. ASSUME NEW w \in Workers, WorkerStep(w) PROVE Bounded'
  BY <1>1, <1>4, WorkerSpendsNothing, WorkerGivesUp
<1>5. ASSUME NEW w \in Workers, Crash(w) PROVE Bounded'
  <2>1. budget' = [budget EXCEPT !.crashes = budget.crashes - 1]
    BY <1>5 DEF Crash
  <2> QED
    BY <1>1, <1>5, <2>1, WorkerGivesUp
<1>6. ASSUME NEW j \in Jobs, SubmitDies(j) PROVE Bounded'
  <2>1. /\ budget' = [budget EXCEPT !.api_deaths = budget.api_deaths - 1]
        /\ UNCHANGED <<jobs, videos, queue, worker>>
    BY <1>6 DEF SubmitDies
  <2>2. \A k \in Jobs \ {j} : submit'[k] = submit[k]
    BY <1>6, SubmissionMoves DEF SubmitMoves
  <2>3. \A k \in Jobs \ {j} : GivenUp(k)' => GivenUp(k)
    BY <2>1, <2>2, GivenUpFrame
  <2> QED
    BY <1>2, <2>1, <2>3
<1>7. ASSUME NEW j \in Jobs, Expire(j) PROVE Bounded'
  <2>1. /\ budget' = [budget EXCEPT !.expiries = budget.expiries - 1]
        /\ UNCHANGED <<videos, queue, submit, worker>>
        /\ \A k \in Jobs \ {j} : jobs'[k] = jobs[k]
    BY <1>7 DEF Expire, WellFormed, TypeOK
  <2>2. \A k \in Jobs \ {j} : GivenUp(k)' => GivenUp(k)
    BY <2>1, GivenUpFrame
  <2> QED
    BY <1>2, <2>1, <2>2
<1>8. ASSUME NEW w \in Workers, Abort(w) PROVE Bounded'
  <2> DEFINE j == worker[w].job
  <2>1. /\ budget' = [budget EXCEPT !.aborts = budget.aborts - 1]
        /\ UNCHANGED <<jobs, videos, queue, submit>>
        /\ j \in Jobs
    BY <1>8 DEF Abort, WellFormed, TypeOK, WorkerOK, WorkerState
  <2>2. \A x \in Workers : x # w => worker'[x] = worker[x]
    BY <1>8, OthersStay
  <2>3. \A k \in Jobs \ {j} : GivenUp(k)' => GivenUp(k)
    BY <2>1, <2>2, GivenUpFrame
  <2> QED
    BY <1>2, <2>1, <2>3
<1>9. ASSUME NEW d \in Dismissers, DismissStep(d) PROVE Bounded'
  <2>1. UNCHANGED <<videos, queue, submit, worker, budget>>
    <3>1. CASE DismissAll(d) \/ WriteDismissed(d)
      BY <3>1, Zenon DEF DismissAll, WriteDismissed
    <3>2. ASSUME NEW j \in Jobs, DismissOne(d, j) \/ ScanJob(d, j) \/ ReadDismissed(d, j)
          PROVE  UNCHANGED <<videos, queue, submit, worker, budget>>
      BY <3>2, Zenon DEF DismissOne, ScanJob, ReadDismissed
    <3> QED
      BY <1>9, <3>1, <3>2 DEF DismissStep
  <2>2. \A k \in Jobs : jobs'[k] = None => jobs[k] = None
    <3>1. CASE WriteDismissed(d)
      <4>0. dismiss[d].snap \in Job
        BY <3>1 DEF WriteDismissed, WellFormed, TypeOK, Dismissal
      <4>1. [dismiss[d].snap EXCEPT !.dismissed = TRUE] \in Job
        BY <4>0 DEF Job
      <4>2. [dismiss[d].snap EXCEPT !.dismissed = TRUE] # None
        BY <4>1, AbsenceAssumption
      <4> QED
        BY <3>1, <4>2 DEF WriteDismissed, WellFormed, TypeOK
    <3>2. CASE ~WriteDismissed(d)
      <4>1. jobs' = jobs
        BY <1>9, <3>2, Zenon DEF DismissStep, DismissOne, DismissAll, ScanJob,
           ReadDismissed
      <4> QED
        BY <4>1
    <3> QED
      BY <3>1, <3>2
  <2> QED
    BY <1>1, <2>1, <2>2, GivenUpFrame
<1>10. CASE UNCHANGED vars
  BY <1>1, <1>10, GivenUpFrame DEF vars
<1> QED
  BY <1>3, <1>4, <1>5, <1>6, <1>7, <1>8, <1>9, <1>10 DEF Next

\* Each aborted run, half-way submission and expired hash strands one video at
\* most; killing workers strands none, however often and wherever it happens.
THEOREM OnlyFaultsStrand == Spec => []StrandedByFaults
<1>1. Init => AllSettled /\ Bounded
  <2> SUFFICES ASSUME Init PROVE AllSettled /\ Bounded
    OBVIOUS
  <2>1. LostJobs = {}
    BY DEF Init, LostJobs, GivenUp, Stranded
  <2>2. Spent = 0
    BY DEF Init, Spent
  <2> QED
    BY <2>1, <2>2, FS_EmptySet DEF Init, AllSettled, Settled, Bounded, IdleWorker
<1>2. WellFormed /\ Bounded => StrandedByFaults
  <2> SUFFICES ASSUME WellFormed, Bounded PROVE StrandedByFaults
    OBVIOUS
  <2> DEFINE S == {j \in Jobs : Stranded(j)}
  <2>1. S \subseteq LostJobs
    BY DEF LostJobs, GivenUp
  <2>2. /\ Cardinality(S) <= Cardinality(LostJobs) /\ Cardinality(LostJobs) \in Nat
        /\ Cardinality(S) \in Nat
    BY <2>1, FS_Subset, FS_CardinalityType DEF Bounded
  <2>3. Spent \in Int
    BY DEF Spent, WellFormed, TypeOK, Budget
  <2>4. Cardinality(S) <= Spent
    BY <2>2, <2>3 DEF Bounded
  <2> QED
    BY <2>4 DEF StrandedByFaults, Spent
<1>3. WellFormed /\ AsRequested /\ AllSettled /\ Bounded /\ [Next]_vars
        => AllSettled' /\ Bounded'
  BY NextSettled, NextBounded
<1> QED
  BY <1>1, <1>2, <1>3, WellFormedAlways, AsRequestedAlways, PTL DEF Spec

=============================================================================
