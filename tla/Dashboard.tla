----------------------------- MODULE Dashboard -----------------------------
(***************************************************************************)
(* The dashboard: the page's list of jobs beside the job store.  The page  *)
(* is single-threaded, but between a request and its answer everything     *)
(* else goes on: other pollers, other lists, other clients, the workers.   *)
(* jobsStore lives as long as the page is not reloaded; every visit of the *)
(* dashboard loads the list of jobs again, and no poller is ever stopped.  *)
(*                                                                         *)
(* The job store's side is JobLifecycle, which JobPipeline implements as   *)
(* long as no message is redelivered.                                      *)
(* Only the fields the page decides by are kept: stage, progress, profile, *)
(* error and result link travel with the status.                           *)
(***************************************************************************)
EXTENDS Naturals

CONSTANTS
  Jobs,       \* jobs this page or another client submits
  MaxLists,   \* bound: visits of the dashboard in one page session
  MaxFailures,\* bound: requests or answers lost on the way
  None

ASSUME DashboardAssumption ==
  /\ MaxLists \in Nat /\ MaxFailures \in Nat
  /\ None \notin Jobs \cup {"queued", "running", "done", "failed",
                             "error"}

VARIABLES
  job,      \* Redis: each job's status, whether it was dismissed, is stored
  items,    \* the page: jobsStore.items, by local id
  submit,   \* the page: submitFile for each job it submits
  poller,   \* the page: the pollers, by who started them for which job
  list,     \* loadAllJobs for each visit
  dismiss,  \* handleDismiss for each item
  clear,    \* handleDismissAll
  failures  \* requests that may still be lost

dashboardVars ==
  <<job, items, submit, poller, list, dismiss, clear, failures>>

Store == INSTANCE JobLifecycle

Lists == 1..MaxLists

\* An item or a poller of submitFile (0) or of one visit's list, for one job:
\* each of them adds at most one item and starts at most one poller per job.
Ids == (0..MaxLists) \X Jobs

Terminal == {"done", "failed"}
Pending  == {"queued", "running"}
JobStatus == Pending \cup Terminal

Item == [ phase : {"uploading", "submitted", "failed"},
          job   : Jobs \cup {None},
          status: JobStatus \cup {None} ]
ASSUME NoneAssumption == None \notin Item

Poller == [ pc: {"none", "asking", "answered"},
            id: Ids \cup {None},
            answer: JobStatus \cup {"error", None} ]
List == [ pc  : {"unused", "reading", "over"},
          seen: [Jobs -> JobStatus \cup {"unread", "absent"}] ]
Clear == [ pc: {"idle", "sent"},
           scanned: SUBSET Jobs, eligible: SUBSET Jobs ]

NoPoller == [pc |-> "none", id |-> None, answer |-> None]
Unread == [j \in Jobs |-> "unread"]
NoClear == [pc |-> "idle", scanned |-> {}, eligible |-> {}]

\* The store's records, the page's items and the requests are well typed.
TypeOK ==
  /\ job \in [Jobs -> Store!Record]
  /\ items \in [Ids -> Item \cup {None}]
  /\ submit \in [Jobs -> {"unused", "sending", "accepted", "over"}]
  /\ poller \in [Ids -> Poller]
  /\ list \in [Lists -> List]
  /\ dismiss \in [Ids -> {"idle", "sent", "done"}]
  /\ clear \in Clear
  /\ failures \in Nat

Init ==
  /\ Store!Init
  /\ items = [i \in Ids |-> None]
  /\ submit = [j \in Jobs |-> "unused"]
  /\ poller = [k \in Ids |-> NoPoller]
  /\ list = [l \in Lists |-> [pc |-> "unused", seen |-> Unread]]
  /\ dismiss = [i \in Ids |-> "idle"]
  /\ clear = NoClear
  /\ failures = MaxFailures

-----------------------------------------------------------------------------
(* The page's list *)

Shown == {i \in Ids : items[i] # None}
ItemsOf(j) == {i \in Shown : items[i].job = j}

\* items.find: a job's own item was pushed before the job existed.
Find(j) == CHOOSE i \in ItemsOf(j) : \A k \in ItemsOf(j) : i[1] <= k[1]

\* Seeded fault: every item with a job can be dismissed.
isDismissableAny(item) == item.job # None

isDismissable(item) == item.job # None /\ item.status \in Terminal

visualFailed(item) ==
  item.phase = "failed" \/ (item.phase = "submitted" /\ item.status = "failed")

\* update does nothing when the item was removed meanwhile.
SetStatus(i, status) ==
  items' = [items EXCEPT ![i] = IF @ = None THEN None
                                ELSE [@ EXCEPT !.status = status]]
SetPhase(i, phase) ==
  items' = [items EXCEPT ![i] = IF @ = None THEN None
                                ELSE [@ EXCEPT !.phase = phase]]

Track(i) == [pc |-> "asking", id |-> i, answer |-> None]

Lose == failures > 0 /\ failures' = failures - 1

-----------------------------------------------------------------------------
(* The job store, its workers and the other clients *)

Read(j) == IF job[j].stored THEN job[j].status ELSE "absent"

\* A job another client submits.
Appear(j) ==
  /\ submit[j] = "unused" /\ Store!Create(j)
  /\ UNCHANGED <<items, submit, poller, list, dismiss, clear, failures>>

\* What a run does to its job, and a submission that loses the race.
Advance(j) ==
  /\ Store!Run(j) \/ Store!Finish(j) \/ Store!Fail(j) \/ Store!Rewrite(j)
  /\ UNCHANGED <<items, submit, poller, list, dismiss, clear, failures>>

\* The hash's TTL runs out, perhaps in the middle of an update.
Expire(j) ==
  /\ Store!Lapse(j) \/ (job[j].status # "none" /\ Store!Vanish(j))
  /\ UNCHANGED <<items, submit, poller, list, dismiss, clear, failures>>

\* Another client dismisses a job.
DismissElsewhere(j) ==
  /\ Store!Dismiss(j)
  /\ UNCHANGED <<items, submit, poller, list, dismiss, clear, failures>>

-----------------------------------------------------------------------------
(* submitFile *)

\* jobsStore.add: a file the user picks, named by the job it will be.
Pick(j) ==
  /\ submit[j] = "unused" /\ job[j].status = "none"
  /\ submit' = [submit EXCEPT ![j] = "sending"]
  /\ items' = [items EXCEPT ![<<0, j>>] =
                 [phase |-> "uploading", job |-> None, status |-> None]]
  /\ UNCHANGED <<job, poller, list, dismiss, clear, failures>>

\* POST /jobs creates the job's record; the answer is under way.
Accept(j) ==
  /\ submit[j] = "sending"
  /\ submit' = [submit EXCEPT ![j] = "accepted"]
  /\ Store!Create(j)
  /\ UNCHANGED <<items, poller, list, dismiss, clear, failures>>

\* Seeded fault: the answer's two fields are mixed up.
SubmittedSwapped(j) ==
  /\ submit[j] = "accepted"
  /\ submit' = [submit EXCEPT ![j] = "over"]
  /\ items' = [items EXCEPT ![<<0, j>>] =
                 [phase |-> "submitted", job |-> "queued", status |-> j]]
  /\ poller' = [poller EXCEPT ![<<0, j>>] = Track(<<0, j>>)]
  /\ UNCHANGED <<job, list, dismiss, clear, failures>>

\* The answer carries the status the job was created with.
Submitted(j) ==
  /\ submit[j] = "accepted"
  /\ submit' = [submit EXCEPT ![j] = "over"]
  /\ items' = [items EXCEPT ![<<0, j>>] =
                 [phase |-> "submitted", job |-> j, status |-> "queued"]]
  /\ poller' = [poller EXCEPT ![<<0, j>>] = Track(<<0, j>>)]
  /\ UNCHANGED <<job, list, dismiss, clear, failures>>

\* The upload fails, the submission is refused, or its answer is lost or is
\* the refusal of a job that lost the race.
SubmitFails(j) ==
  /\ \/ submit[j] = "sending" /\ UNCHANGED failures
     \/ submit[j] = "accepted" /\ Lose
     \/ submit[j] = "accepted" /\ job[j].status = "failed" /\ UNCHANGED failures
  /\ submit' = [submit EXCEPT ![j] = "over"]
  /\ SetPhase(<<0, j>>, "failed")
  /\ UNCHANGED <<job, poller, list, dismiss, clear>>

-----------------------------------------------------------------------------
(* pollJob *)

\* GET /jobs/{id}: a dismissed job is still answered, an expired one is not.
PollRead(k) ==
  /\ poller[k].pc = "asking"
  /\ poller' = [poller EXCEPT ![k] = [@ EXCEPT !.pc = "answered",
       !.answer = IF Read(k[2]) = "absent" THEN "error" ELSE Read(k[2])]]
  /\ UNCHANGED <<job, items, submit, list, dismiss, clear, failures>>

\* Seeded fault: the last answer ends polling before it is shown.
PollAnsweredEndsFirst(k) ==
  /\ poller[k].pc = "answered" /\ poller[k].answer \in JobStatus
  /\ IF poller[k].answer \in Terminal
     THEN poller' = [poller EXCEPT ![k] = NoPoller] /\ UNCHANGED items
     ELSE /\ SetStatus(poller[k].id, poller[k].answer)
          /\ poller' = [poller EXCEPT ![k] = Track(poller[k].id)]
  /\ UNCHANGED <<job, submit, list, dismiss, clear, failures>>

\* onUpdate, then the end of polling or the next tick.
PollAnswered(k) ==
  /\ poller[k].pc = "answered" /\ poller[k].answer \in JobStatus
  /\ SetStatus(poller[k].id, poller[k].answer)
  /\ poller' = [poller EXCEPT ![k] =
       IF poller[k].answer \in Terminal THEN NoPoller
       ELSE Track(poller[k].id)]
  /\ UNCHANGED <<job, submit, list, dismiss, clear, failures>>

\* Seeded fault: a failed poll is reported as a failed job.
PollErrorAsStatus(k) ==
  /\ \/ poller[k].answer = "error" /\ UNCHANGED failures
     \/ poller[k].pc # "none" /\ poller[k].answer # "error" /\ Lose
  /\ SetStatus(poller[k].id, "failed")
  /\ poller' = [poller EXCEPT ![k] = NoPoller]
  /\ UNCHANGED <<job, submit, list, dismiss, clear>>

\* onError ends polling, after an error status or a lost request or answer.
PollError(k) ==
  /\ \/ poller[k].answer = "error" /\ UNCHANGED failures
     \/ poller[k].pc # "none" /\ poller[k].answer # "error" /\ Lose
  /\ SetPhase(poller[k].id, "failed")
  /\ poller' = [poller EXCEPT ![k] = NoPoller]
  /\ UNCHANGED <<job, submit, list, dismiss, clear>>

-----------------------------------------------------------------------------
(* loadAllJobs *)

Visit(l) ==
  /\ list[l].pc = "unused"
  /\ list' = [list EXCEPT ![l] = [@ EXCEPT !.pc = "reading"]]
  /\ UNCHANGED <<job, items, submit, poller, dismiss, clear, failures>>

\* JobStore.list_all reads one hash after the other.
ListRead(l, j) ==
  /\ list[l].pc = "reading" /\ list[l].seen[j] = "unread"
  /\ list' = [list EXCEPT ![l].seen[j] =
       IF job[j].dismissed THEN "absent" ELSE Read(j)]
  /\ UNCHANGED <<job, items, submit, poller, dismiss, clear, failures>>

\* Seeded fault: hydrateFromServer looks for the item by its local id.
TargetByLocalId(l, j) == <<l, j>>

\* The item a listed job is shown by: found, or pushed by this list.
Target(l, j) == IF ItemsOf(j) = {} THEN <<l, j>> ELSE Find(j)

fromServerJob(j) == [phase |-> "submitted", job |-> j, status |-> None]

hydrateFromServer(l) ==
  LET seen == list[l].seen IN
  items' = [i \in Ids |->
    IF i = Target(l, i[2]) /\ seen[i[2]] \in JobStatus
    THEN [ (IF items[i] = None THEN fromServerJob(i[2]) ELSE items[i])
           EXCEPT !.status = seen[i[2]] ]
    ELSE items[i]]

\* Seeded fault: only jobs the page did not show yet are tracked.
ListAnsweredTracksNew(l) ==
  /\ list[l].pc = "reading" /\ \A j \in Jobs : list[l].seen[j] # "unread"
  /\ hydrateFromServer(l)
  /\ poller' = [k \in Ids |->
       IF k[1] = l /\ list[l].seen[k[2]] \in Pending /\ ItemsOf(k[2]) = {}
       THEN Track(k) ELSE poller[k]]
  /\ list' = [list EXCEPT ![l] = [pc |-> "over", seen |-> Unread]]
  /\ UNCHANGED <<job, submit, dismiss, clear, failures>>

ListAnswered(l) ==
  /\ list[l].pc = "reading" /\ \A j \in Jobs : list[l].seen[j] # "unread"
  /\ hydrateFromServer(l)
  /\ poller' = [k \in Ids |->
       IF k[1] = l /\ list[l].seen[k[2]] \in Pending
       THEN Track(Target(l, k[2])) ELSE poller[k]]
  /\ list' = [list EXCEPT ![l] = [pc |-> "over", seen |-> Unread]]
  /\ UNCHANGED <<job, submit, dismiss, clear, failures>>

\* onMount is left with an exception: nothing is shown or tracked.
ListFails(l) ==
  /\ list[l].pc = "reading" /\ Lose
  /\ list' = [list EXCEPT ![l] = [pc |-> "over", seen |-> Unread]]
  /\ UNCHANGED <<job, items, submit, poller, dismiss, clear>>

-----------------------------------------------------------------------------
(* handleDismiss and handleDismissAll *)

\* A card has the button when it looks failed and its job is over.
DismissSent(i) ==
  /\ i \in Shown /\ visualFailed(items[i]) /\ isDismissable(items[i])
  /\ dismiss[i] = "idle"
  /\ dismiss' = [dismiss EXCEPT ![i] = "sent"]
  /\ UNCHANGED <<job, items, submit, poller, list, clear, failures>>

DismissServed(i) ==
  /\ dismiss[i] = "sent" /\ Store!Dismiss(i[2])
  /\ dismiss' = [dismiss EXCEPT ![i] = "done"]
  /\ UNCHANGED <<items, submit, poller, list, clear, failures>>

\* jobsStore.remove
DismissAnswered(i) ==
  /\ dismiss[i] = "done"
  /\ items' = [items EXCEPT ![i] = None]
  /\ dismiss' = [dismiss EXCEPT ![i] = "idle"]
  /\ UNCHANGED <<job, submit, poller, list, clear, failures>>

\* The job expired or is in progress, or the request or its answer is lost.
DismissFails(i) ==
  /\ dismiss[i] # "idle"
  /\ \/ dismiss[i] = "sent" /\ Read(i[2]) \notin Terminal
        /\ UNCHANGED failures
     \/ Lose
  /\ dismiss' = [dismiss EXCEPT ![i] = "idle"]
  /\ UNCHANGED <<job, items, submit, poller, list, clear>>

ClearSent ==
  /\ clear.pc = "idle" /\ \E i \in Shown : isDismissable(items[i])
  /\ clear' = [NoClear EXCEPT !.pc = "sent"]
  /\ UNCHANGED <<job, items, submit, poller, list, dismiss, failures>>

\* JobStore.dismiss_all first reads every job,
ClearScan(j) ==
  /\ clear.pc = "sent" /\ j \notin clear.scanned
  /\ LET eligible == Read(j) \in Terminal /\ ~job[j].dismissed IN
     clear' = [clear EXCEPT !.scanned = @ \cup {j},
                 !.eligible = IF eligible THEN @ \cup {j} ELSE @]
  /\ UNCHANGED <<job, items, submit, poller, list, dismiss, failures>>

\* then updates the eligible ones; an expired one breaks it off.
ClearWrite(j) ==
  /\ clear.scanned = Jobs /\ j \in clear.eligible
  /\ \/ Store!Dismiss(j) /\ clear' = [clear EXCEPT !.eligible = @ \ {j}]
     \/ Read(j) = "absent" /\ clear' = NoClear /\ UNCHANGED job
  /\ UNCHANGED <<items, submit, poller, list, dismiss, failures>>

\* jobsStore.clearDismissable
ClearAnswered ==
  /\ clear.pc = "sent" /\ clear.scanned = Jobs /\ clear.eligible = {}
  /\ items' = [i \in Ids |->
       IF items[i] # None /\ isDismissable(items[i]) THEN None ELSE items[i]]
  /\ clear' = NoClear
  /\ UNCHANGED <<job, submit, poller, list, dismiss, failures>>

ClearFails ==
  /\ clear.pc = "sent" /\ Lose
  /\ clear' = NoClear
  /\ UNCHANGED <<job, items, submit, poller, list, dismiss>>

-----------------------------------------------------------------------------

StoreStep(j) == Appear(j) \/ Advance(j) \/ Expire(j) \/ DismissElsewhere(j)
SubmitStep(j) == Pick(j) \/ Accept(j) \/ Submitted(j) \/ SubmitFails(j)
PollStep(k) == PollRead(k) \/ PollAnswered(k) \/ PollError(k)
ListStep(l) ==
  \/ Visit(l) \/ ListAnswered(l) \/ ListFails(l)
  \/ \E j \in Jobs : ListRead(l, j)
DismissStep(i) ==
  DismissSent(i) \/ DismissServed(i) \/ DismissAnswered(i) \/ DismissFails(i)
ClearStep ==
  \/ ClearSent \/ ClearAnswered \/ ClearFails
  \/ \E j \in Jobs : ClearScan(j) \/ ClearWrite(j)

Next ==
  \/ \E j \in Jobs : StoreStep(j)
  \/ \E j \in Jobs : SubmitStep(j)
  \/ \E k \in Ids : PollStep(k) \/ DismissStep(k)
  \/ \E l \in Lists : ListStep(l)
  \/ ClearStep

Spec == Init /\ [][Next]_dashboardVars

\* A poller's request is answered or fails, and its timer fires.  Nothing else
\* is fair: no job has to finish, no list has to arrive.
LiveSpec == Spec /\ \A k \in Ids : WF_dashboardVars(PollStep(k))

-----------------------------------------------------------------------------
(* Properties *)

\* A job the page shows as queued or running is polled, whichever list or
\* submission brought it and however late their answers came; otherwise the
\* card would stay as it is for ever (loadAllJobs, submitFile, pollJob).
ShownIsTracked ==
  \A i \in Shown :
    items[i].phase = "submitted" /\ items[i].status \in Pending
      => \E k \in Ids : poller[k].pc # "none" /\ poller[k].id = i

\* What the page shows as done or failed has ended so in the job store, if it
\* has not expired there: no stale answer makes up an end.
ShownEndIsTrue ==
  \A i \in Shown :
    items[i].status \in Terminal
      => job[i[2]].status \in {items[i].status, "gone"}

\* A job is shown twice only while nobody could know better: one of the two
\* is this page's submission, which had no job id yet when a list brought the
\* other (hydrateFromServer, matched by jobId).
ListedOnce ==
  \A i, k \in Shown :
    items[i].job = items[k].job /\ items[i].job # None /\ i # k
      => i[1] = 0 \/ k[1] = 0

\* An item leaves the page only when its job is over, and the cross of one
\* card only removes what the job store has dismissed or lost.
RemovedIsOver ==
  [][\A i \in Ids : items[i] # None /\ items'[i] = None =>
       /\ job[i[2]].status \in Terminal \cup {"gone"}
       /\ \/ ClearAnswered
          \/ job[i[2]].dismissed \/ ~job[i[2]].stored]_dashboardVars

\* The page comes to agree with the job store about every job that is over,
\* and goes on agreeing, unless it has reported a failed request on the card.
ShownSettles ==
  \A i \in Ids : <>[](
    items[i] # None => \/ items[i].phase # "submitted"
                       \/ job[i[2]].status \notin Terminal
                       \/ items[i].status = job[i[2]].status)

\* jobs.svelte.ts:86: "server-side dismissal already happened by the time this
\* is called": what clearDismissable drops is dismissed in the job store, if
\* the store still has it.
ClearedIsDismissed ==
  [][ClearAnswered => \A i \in Ids : items[i] # None /\ items'[i] = None =>
       job[i[2]].dismissed \/ ~job[i[2]].stored]_dashboardVars

=============================================================================
