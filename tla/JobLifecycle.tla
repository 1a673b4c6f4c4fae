---------------------------- MODULE JobLifecycle ----------------------------
(***************************************************************************)
(* What the job store promises its readers about each job, whoever writes  *)
(* the job's hash, in whatever order: JobPipeline implements this as long  *)
(* as no message is redelivered, and Dashboard relies on no more than it.  *)
(*                                                                         *)
(* A hash whose TTL runs out while somebody is between the read and the    *)
(* write of JobStore.update is missed by readers and then written anew:    *)
(* the job's record is not stored for that while, but its status lives on. *)
(***************************************************************************)
CONSTANT Jobs

VARIABLE job

Pending == {"queued", "running"}
Terminal == {"done", "failed"}

Record == [ status   : {"none", "gone"} \cup Pending \cup Terminal,
            dismissed: BOOLEAN,
            stored   : BOOLEAN ]

Unstored(status) == [status |-> status, dismissed |-> FALSE, stored |-> FALSE]

Init == job = [j \in Jobs |-> Unstored("none")]

Write(j, status, dismissed) ==
  job' = [job EXCEPT ![j] =
    [status |-> status, dismissed |-> dismissed, stored |-> TRUE]]

-----------------------------------------------------------------------------

Create(j) == job[j].status = "none" /\ Write(j, "queued", FALSE)

Run(j) == job[j].status = "queued" /\ Write(j, "running", FALSE)

Finish(j) == job[j].status = "running" /\ Write(j, "done", FALSE)

Fail(j) == job[j].status \in Pending /\ Write(j, "failed", FALSE)

\* A job is dismissed when it is over, and for good.
Dismiss(j) == job[j].status \in Terminal /\ Write(j, job[j].status, TRUE)

\* An update of something else brings a lapsed hash back.
Rewrite(j) ==
  /\ job[j].status \in Pending /\ ~job[j].stored
  /\ Write(j, job[j].status, FALSE)

\* The TTL runs out while an update is under way ...
Lapse(j) ==
  /\ job[j].stored
  /\ job' = [job EXCEPT ![j] = Unstored(job[j].status)]

\* ... and in the end it does for good.  A submission that is refused or dies
\* never makes the job it would have made.
Vanish(j) ==
  /\ job[j].status # "gone"
  /\ job' = [job EXCEPT ![j] = Unstored("gone")]

Next ==
  \E j \in Jobs :
    \/ Create(j) \/ Run(j) \/ Finish(j) \/ Fail(j) \/ Dismiss(j)
    \/ Rewrite(j) \/ Lapse(j) \/ Vanish(j)

Spec == Init /\ [][Next]_job
=============================================================================
