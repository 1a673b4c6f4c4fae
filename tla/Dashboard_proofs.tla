-------------------------- MODULE Dashboard_proofs --------------------------
(***************************************************************************)
(* The dashboard's safety for any number of jobs, visits and lost          *)
(* requests: what it shows as over is over, what it shows as pending is    *)
(* polled.                                                                 *)
(***************************************************************************)
EXTENDS Dashboard, TLAPS

\* The job store only forgets what is over, or lets it end.
Over(j) == job[j].status \in Terminal \cup {"gone"}

JobOK ==
  \A j \in Jobs :
    /\ job[j].dismissed => Over(j)
    /\ job[j].stored => job[j].status \notin {"none", "gone"}

SendingOK == \A j \in Jobs : submit[j] = "sending" => job[j].status = "none"

\* An item's job, and who may have none yet.
ItemOK(i) ==
  items[i] # None =>
    /\ items[i].job \in {None, i[2]}
    /\ i[1] # 0 => items[i].job = i[2]
    /\ items[i].job = None =>
         items[i].status = None /\ items[i].phase # "submitted"
    /\ items[i].job # None /\ i[1] = 0 => submit[i[2]] = "over"

\* What was read of a job, wherever it has got to, is still true if terminal.
StillTrue(j, status) ==
  status \in Terminal => job[j].status \in {status, "gone"}

PollerOK(k) ==
  IF poller[k].pc = "none" THEN poller[k] = NoPoller
  ELSE /\ poller[k].id \in Ids /\ poller[k].id[2] = k[2]
       /\ poller[k].id[1] = 0 => submit[k[2]] = "over"
       /\ items[poller[k].id] # None => items[poller[k].id].job # None
       /\ StillTrue(k[2], poller[k].answer)
       /\ poller[k].pc = "asking" => poller[k].answer = None

ListOK(l) == \A j \in Jobs : StillTrue(j, list[l].seen[j])

\* No reader will find the job undismissed again.
Hidden(j) == Over(j) /\ (job[j].stored => job[j].dismissed)

DismissOK(i) == dismiss[i] = "done" => Hidden(i[2])

\* A list that has not been answered has added no item and no poller, nor has
\* a submission that has not been answered.
FreshOK ==
  /\ \A l \in Lists, j \in Jobs : list[l].pc # "over" =>
       items[<<l, j>>] = None /\ poller[<<l, j>>].pc = "none"
  /\ \A j \in Jobs : submit[j] # "over" => poller[<<0, j>>].pc = "none"

Tracked(i) == \E k \in Ids : poller[k].pc # "none" /\ poller[k].id = i

\* The inductive invariant.
DashboardOK ==
  /\ TypeOK
  /\ JobOK
  /\ SendingOK
  /\ \A i \in Ids : ItemOK(i)
  /\ \A k \in Ids : PollerOK(k)
  /\ \A l \in Lists : ListOK(l)
  /\ \A i \in Ids : DismissOK(i)
  /\ FreshOK
  /\ ShownIsTracked
  /\ ShownEndIsTrue
  /\ ListedOnce

-----------------------------------------------------------------------------
(* Identifiers *)

LEMMA IdsType ==
  /\ \A i \in Ids : i[1] \in 0..MaxLists /\ i[2] \in Jobs /\ i = <<i[1], i[2]>>
  /\ \A n \in 0..MaxLists, j \in Jobs :
       <<n, j>> \in Ids /\ <<n, j>>[1] = n /\ <<n, j>>[2] = j
  /\ \A l \in Lists : l \in 0..MaxLists /\ l # 0
  /\ 0 \in 0..MaxLists
BY DashboardAssumption DEF Ids, Lists

LEMMA InitDashboardOK == Init => DashboardOK
<1> SUFFICES ASSUME Init PROVE DashboardOK
  OBVIOUS
<1>1. TypeOK
  BY DashboardAssumption
     DEF Init, TypeOK, Poller, NoPoller, List, Unread, Clear, NoClear,
         Store!Init, Store!Record, Store!Unstored
<1>2. JobOK /\ SendingOK
  BY DEF Init, JobOK, SendingOK, Store!Init, Store!Unstored
<1>3. /\ \A i \in Ids : ItemOK(i) /\ DismissOK(i)
      /\ \A k \in Ids : PollerOK(k)
  BY DEF Init, ItemOK, DismissOK, PollerOK, NoPoller
<1>4. \A l \in Lists : ListOK(l)
  BY DEF Init, ListOK, Unread, StillTrue, Terminal
<1>5. FreshOK
  BY IdsType DEF Init, FreshOK, NoPoller
<1>6. ShownIsTracked /\ ShownEndIsTrue /\ ListedOnce
  BY DEF Init, ShownIsTracked, ShownEndIsTrue, ListedOnce, Shown
<1> QED
  BY <1>1, <1>2, <1>3, <1>4, <1>5, <1>6 DEF DashboardOK

-----------------------------------------------------------------------------
(* Steps that leave the page alone *)

\* A job that is over stays so until it is forgotten; a dismissal is kept.
JobMono ==
  \A j \in Jobs :
    /\ Over(j) => job'[j].status \in {job[j].status, "gone"}
    /\ Hidden(j) => Hidden(j)'

LEMMA StoreFrame ==
  ASSUME DashboardOK, TypeOK', JobOK', SendingOK', JobMono,
         UNCHANGED <<items, poller, list>>,
         \A j \in Jobs : submit'[j] = "over" <=> submit[j] = "over",
         \A i \in Ids : dismiss'[i] = "done" =>
           dismiss[i] = "done" \/ Hidden(i[2])'
  PROVE  DashboardOK'
<1>1. \A j \in Jobs : \A status : StillTrue(j, status) => StillTrue(j, status)'
  BY DEF JobMono, StillTrue, Over, Terminal
<1>2. ASSUME NEW i \in Ids PROVE ItemOK(i)' /\ DismissOK(i)'
  BY IdsType DEF DashboardOK, ItemOK, DismissOK, Hidden, Over, JobMono
<1>3. ASSUME NEW k \in Ids PROVE PollerOK(k)'
  BY <1>1, IdsType DEF DashboardOK, PollerOK
<1>4. ASSUME NEW l \in Lists PROVE ListOK(l)'
  BY <1>1 DEF DashboardOK, ListOK
<1>5. FreshOK'
  BY DEF DashboardOK, FreshOK
<1>6. ShownIsTracked' /\ ListedOnce'
  BY DEF DashboardOK, ShownIsTracked, ListedOnce, Shown
<1>7. ShownEndIsTrue'
  BY IdsType DEF DashboardOK, ShownEndIsTrue, Shown, JobMono, Over, Terminal
<1> QED
  BY <1>2, <1>3, <1>4, <1>5, <1>6, <1>7 DEF DashboardOK

\* What a step of the job store leaves in one job's record.
Recorded(j, r) ==
  /\ r \in Store!Record
  /\ job' = [job EXCEPT ![j] = r]
  /\ Over(j) => r.status \in {job[j].status, "gone"}
  /\ Over(j) /\ r.stored => r.dismissed
  /\ r.dismissed => r.status \in Terminal
  /\ r.stored => r.status \notin {"none", "gone"}

LEMMA RecordedFrame ==
  ASSUME DashboardOK, NEW j \in Jobs, NEW r, Recorded(j, r)
  PROVE  JobOK' /\ JobMono /\ job' \in [Jobs -> Store!Record]
<1>1. /\ job'[j] = r
      /\ \A k \in Jobs \ {j} : job'[k] = job[k]
      /\ job' \in [Jobs -> Store!Record]
  BY DEF Recorded, DashboardOK, TypeOK
<1>2. JobOK'
  BY <1>1 DEF Recorded, DashboardOK, JobOK, Over
<1>3. JobMono
  BY <1>1 DEF Recorded, JobMono, Hidden, Over, Terminal
<1> QED
  BY <1>1, <1>2, <1>3

\* No step makes a job of a submission that has not arrived.
LEMMA SendingFrame ==
  ASSUME DashboardOK, NEW j \in Jobs, NEW r, Recorded(j, r),
         submit[j] # "sending" \/ job[j].status # "none",
         \A k \in Jobs : submit'[k] = "sending" => submit[k] = "sending"
  PROVE  SendingOK'
BY DEF Recorded, DashboardOK, TypeOK, SendingOK

\* What a reader finds is the job's status.
LEMMA ReadTrue ==
  ASSUME DashboardOK, NEW j \in Jobs
  PROVE  Read(j) \in JobStatus \cup {"absent"} /\ StillTrue(j, Read(j))
<1>1. /\ job[j].status \in {"none", "gone"} \cup JobStatus
      /\ job[j].stored => job[j].status \notin {"none", "gone"}
  BY DEF DashboardOK, TypeOK, JobOK, Store!Record, Store!Pending, Store!Terminal,
     JobStatus, Pending, Terminal
<1> QED
  BY <1>1 DEF Read, StillTrue, Terminal

\* The writes of JobLifecycle.
LEMMA WriteStep ==
  ASSUME DashboardOK, NEW j \in Jobs, NEW s \in JobStatus, NEW d \in BOOLEAN,
         Store!Write(j, s, d),
         Over(j) => job[j].status = s /\ d,
         d => s \in Terminal
  PROVE  Recorded(j, [status |-> s, dismissed |-> d, stored |-> TRUE])
BY DEF Store!Write, Store!Record, Store!Pending, Store!Terminal, Recorded,
   JobStatus, Pending, Terminal

LEMMA ForgetStep ==
  ASSUME DashboardOK, NEW j \in Jobs, Store!Lapse(j) \/ Store!Vanish(j)
  PROVE  \E r : Recorded(j, r)
<1>1. job[j] \in Store!Record
  BY DEF DashboardOK, TypeOK
<1>2. CASE Store!Lapse(j)
  <2>1. Recorded(j, Store!Unstored(job[j].status))
    BY <1>1, <1>2 DEF Store!Lapse, Store!Unstored, Store!Record, Recorded
  <2> QED
    BY <2>1
<1>3. CASE Store!Vanish(j)
  <2>1. Recorded(j, Store!Unstored("gone"))
    BY <1>1, <1>3 DEF Store!Vanish, Store!Unstored, Store!Record, Recorded
  <2> QED
    BY <2>1
<1> QED
  BY <1>2, <1>3

LEMMA DismissStepRecord ==
  ASSUME DashboardOK, NEW j \in Jobs, Store!Dismiss(j)
  PROVE  /\ Recorded(j, [status |-> job[j].status, dismissed |-> TRUE,
                         stored |-> TRUE])
         /\ Hidden(j)'
<1>1. Recorded(j, [status |-> job[j].status, dismissed |-> TRUE, stored |-> TRUE])
  BY WriteStep DEF Store!Dismiss, Store!Terminal, Terminal, JobStatus
<1>2. job \in [Jobs -> Store!Record]
  BY DEF DashboardOK, TypeOK
<1>3. Hidden(j)'
  BY <1>2 DEF Store!Dismiss, Store!Write, Store!Terminal, Terminal, Hidden, Over
<1> QED
  BY <1>1, <1>3

LEMMA StoreKeeps ==
  ASSUME DashboardOK, NEW j \in Jobs, StoreStep(j)
  PROVE  DashboardOK'
<1>1. \E r : Recorded(j, r)
  <2>0. job[j].status \in JobStatus \cup {"none", "gone"}
    BY DEF DashboardOK, TypeOK, Store!Record, Store!Pending, Store!Terminal,
       JobStatus, Pending, Terminal
  <2>1. CASE Appear(j)
    BY <2>1, WriteStep DEF Appear, Store!Create, Over, JobStatus, Pending, Terminal
  <2>2. CASE Store!Run(j) \/ Store!Finish(j) \/ Store!Fail(j) \/ Store!Rewrite(j)
    BY <2>2, WriteStep
       DEF Store!Run, Store!Finish, Store!Fail, Store!Rewrite, Store!Pending,
           Over, JobStatus, Pending, Terminal
  <2>3. CASE Expire(j)
    BY <2>3, ForgetStep DEF Expire
  <2>4. CASE DismissElsewhere(j)
    BY <2>4, DismissStepRecord DEF DismissElsewhere
  <2> QED
    BY <2>1, <2>2, <2>3, <2>4 DEF StoreStep, Advance
<1>2. UNCHANGED <<items, submit, poller, list, dismiss, clear, failures>>
  BY DEF StoreStep, Appear, Advance, Expire, DismissElsewhere
<1>3. JobOK' /\ JobMono /\ TypeOK'
  BY <1>1, <1>2, RecordedFrame DEF DashboardOK, TypeOK
<1>4. submit[j] # "sending" \/ job[j].status # "none"
  BY DEF StoreStep, Appear, Advance, Expire, DismissElsewhere, DashboardOK, JobOK,
     Store!Run, Store!Finish, Store!Fail, Store!Rewrite, Store!Pending,
     Store!Lapse, Store!Dismiss, Store!Terminal
<1>5. SendingOK'
  BY <1>1, <1>2, <1>4, SendingFrame
<1> QED
  BY <1>2, <1>3, <1>5, StoreFrame

LEMMA QuietKeeps ==
  ASSUME DashboardOK,
         \/ \E j \in Jobs : Accept(j) \/ ClearScan(j) \/ ClearWrite(j)
         \/ \E i \in Ids : DismissSent(i) \/ DismissServed(i) \/ DismissFails(i)
         \/ ClearSent \/ ClearFails
  PROVE  DashboardOK'
<1> DEFINE JobFacts == JobOK' /\ JobMono /\ job' \in [Jobs -> Store!Record]
<1>0. UNCHANGED job => JobFacts
  BY DEF DashboardOK, TypeOK, JobOK, JobMono, Hidden, Over
<1>1. ASSUME NEW j \in Jobs, Accept(j) PROVE DashboardOK'
  <2>1. Recorded(j, [status |-> "queued", dismissed |-> FALSE, stored |-> TRUE])
    BY <1>1, WriteStep
       DEF Accept, Store!Create, Over, Terminal, JobStatus, Pending
  <2>2. JobFacts
    BY <2>1, RecordedFrame
  <2>3. SendingOK'
    BY <1>1 DEF Accept, Store!Create, Store!Write, DashboardOK, TypeOK, SendingOK
  <2>4. TypeOK'
    BY <1>1, <2>2 DEF Accept, DashboardOK, TypeOK
  <2>5. /\ UNCHANGED <<items, poller, list, dismiss>>
        /\ \A k \in Jobs : submit'[k] = "over" <=> submit[k] = "over"
    BY <1>1 DEF Accept, DashboardOK, TypeOK
  <2> QED
    BY <2>2, <2>3, <2>4, <2>5, StoreFrame
<1>2. ASSUME NEW j \in Jobs, ClearWrite(j) PROVE DashboardOK'
  <2>1. JobFacts
    BY <1>2, <1>0, DismissStepRecord, RecordedFrame DEF ClearWrite
  <2>2. /\ UNCHANGED <<items, submit, poller, list, dismiss, failures>>
        /\ clear' \in Clear
    BY <1>2 DEF ClearWrite, DashboardOK, TypeOK, Clear, NoClear
  <2>3. SendingOK'
    <3>1. CASE Store!Dismiss(j)
      BY <2>2, <3>1, DismissStepRecord, SendingFrame
         DEF Store!Dismiss, Store!Terminal
    <3>2. CASE UNCHANGED job
      BY <2>2, <3>2 DEF DashboardOK, SendingOK
    <3> QED
      BY <1>2, <3>1, <3>2 DEF ClearWrite
  <2>4. TypeOK'
    BY <2>1, <2>2 DEF DashboardOK, TypeOK
  <2> QED
    BY <2>1, <2>2, <2>3, <2>4, StoreFrame
<1>3. ASSUME NEW i \in Ids, DismissServed(i) PROVE DashboardOK'
  <2>1. JobFacts /\ Hidden(i[2])'
    BY <1>3, IdsType, DismissStepRecord, RecordedFrame DEF DismissServed
  <2>2. /\ UNCHANGED <<items, submit, poller, list, clear, failures>>
        /\ dismiss' = [dismiss EXCEPT ![i] = "done"]
    BY <1>3 DEF DismissServed
  <2>3. SendingOK'
    <3>1. i[2] \in Jobs /\ Store!Dismiss(i[2])
      BY <1>3, IdsType DEF DismissServed
    <3> QED
      BY <2>2, <3>1, DismissStepRecord, SendingFrame
         DEF Store!Dismiss, Store!Terminal
  <2>4. TypeOK'
    BY <2>1, <2>2 DEF DashboardOK, TypeOK
  <2>5. \A k \in Ids : dismiss'[k] = "done" => dismiss[k] = "done" \/ k = i
    BY <2>2 DEF DashboardOK, TypeOK
  <2> QED
    BY <2>1, <2>2, <2>3, <2>4, <2>5, StoreFrame
<1>4. ASSUME \/ \E i \in Ids : DismissSent(i) \/ DismissFails(i)
             \/ \E j \in Jobs : ClearScan(j)
             \/ ClearSent \/ ClearFails
      PROVE  DashboardOK'
  <2>1. UNCHANGED <<job, items, submit, poller, list>>
    BY <1>4 DEF DismissSent, DismissFails, ClearScan, ClearSent, ClearFails
  <2>2. /\ dismiss' \in [Ids -> {"idle", "sent", "done"}]
        /\ \A k \in Ids : dismiss'[k] = "done" => dismiss[k] = "done"
    BY <1>4 DEF DismissSent, DismissFails, ClearScan, ClearSent, ClearFails,
       DashboardOK, TypeOK
  <2>3. failures' \in Nat
    <3>1. failures' = failures \/ Lose
      BY <1>4 DEF DismissSent, DismissFails, ClearScan, ClearSent, ClearFails
    <3> QED
      BY <3>1 DEF DashboardOK, TypeOK, Lose
  <2>3a. clear' \in Clear
    <3>0. clear \in Clear
      BY DEF DashboardOK, TypeOK
    <3>1. ASSUME NEW j \in Jobs, ClearScan(j) PROVE clear' \in Clear
      BY <3>0, <3>1 DEF ClearScan, Clear
    <3>2. CASE ClearSent \/ ClearFails
      BY <3>2 DEF ClearSent, ClearFails, Clear, NoClear
    <3>3. CASE \E i \in Ids : DismissSent(i) \/ DismissFails(i)
      BY <3>0, <3>3 DEF DismissSent, DismissFails
    <3> QED
      BY <1>4, <3>1, <3>2, <3>3
  <2>4. TypeOK' /\ SendingOK'
    BY <2>1, <2>2, <2>3, <2>3a DEF DashboardOK, TypeOK, SendingOK
  <2> QED
    BY <1>0, <2>1, <2>2, <2>4, StoreFrame
<1> QED
  BY <1>1, <1>2, <1>3, <1>4

\* The steps of a list before it is answered, and one that never is.
LEMMA ListKeeps ==
  ASSUME DashboardOK, NEW l \in Lists,
         \/ Visit(l) \/ ListFails(l)
         \/ \E j \in Jobs : ListRead(l, j)
  PROVE  DashboardOK'
<1>1. UNCHANGED <<job, items, submit, poller, dismiss, clear>>
  BY DEF Visit, ListFails, ListRead
<1>2. failures' \in Nat
  BY DEF Visit, ListFails, ListRead, Lose, DashboardOK, TypeOK
<1>3. PICK r \in List :
        /\ list' = [list EXCEPT ![l] = r]
        /\ r.pc # "over" => list[l].pc # "over"
        /\ \A j \in Jobs : StillTrue(j, r.seen[j])
  <2>0. list[l] \in List
    BY DEF DashboardOK, TypeOK
  <2>1. CASE Visit(l)
    <3> DEFINE r == [list[l] EXCEPT !.pc = "reading"]
    <3>1. r \in List /\ r.seen = list[l].seen /\ list' = [list EXCEPT ![l] = r]
      BY <2>0, <2>1 DEF Visit, List
    <3> QED
      BY <2>1, <3>1 DEF Visit, DashboardOK, ListOK
  <2>2. CASE ListFails(l)
    <3> DEFINE r == [pc |-> "over", seen |-> Unread]
    <3>1. r \in List
      BY DEF List, Unread
    <3> QED
      BY <2>2, <3>1 DEF ListFails, StillTrue, Unread, Terminal
  <2>3. ASSUME NEW j \in Jobs, ListRead(l, j)
        PROVE  \E r \in List :
                 /\ list' = [list EXCEPT ![l] = r]
                 /\ r.pc # "over" => list[l].pc # "over"
                 /\ \A k \in Jobs : StillTrue(k, r.seen[k])
    <3> DEFINE v == IF job[j].dismissed THEN "absent" ELSE Read(j)
               r == [list[l] EXCEPT !.seen = [@ EXCEPT ![j] = v]]
    <3>1. v \in JobStatus \cup {"absent"} /\ StillTrue(j, v)
      BY ReadTrue DEF StillTrue, Terminal
    <3>2. /\ r \in List /\ r.pc = list[l].pc
          /\ \A k \in Jobs : r.seen[k] = IF k = j THEN v ELSE list[l].seen[k]
      <4> HIDE DEF v
      <4> QED
        BY <2>0, <3>1 DEF List
    <3>3. list' = [list EXCEPT ![l] = r]
      BY <2>3 DEF ListRead
    <3>4. list[l].pc # "over" /\ \A k \in Jobs : StillTrue(k, list[l].seen[k])
      BY <2>3 DEF ListRead, DashboardOK, ListOK
    <3> HIDE DEF v, r
    <3>5. \A k \in Jobs : StillTrue(k, r.seen[k])
      BY <3>1, <3>2, <3>4
    <3> QED
      BY <3>2, <3>3, <3>4, <3>5
  <2> QED
    BY <2>1, <2>2, <2>3
<1>3a. /\ list' \in [Lists -> List]
       /\ \A k \in Lists : list'[k] = IF k = l THEN r ELSE list[k]
  BY <1>3 DEF DashboardOK, TypeOK
<1>4. ASSUME NEW k \in Lists PROVE ListOK(k)'
  BY <1>1, <1>3, <1>3a DEF DashboardOK, ListOK, StillTrue
<1>5. TypeOK' /\ JobOK' /\ SendingOK'
  BY <1>1, <1>2, <1>3a DEF DashboardOK, TypeOK, JobOK, SendingOK, Over
<1>6. \A i \in Ids : ItemOK(i)' /\ DismissOK(i)' /\ PollerOK(i)'
  BY <1>1 DEF DashboardOK, ItemOK, DismissOK, Hidden, Over, PollerOK, StillTrue
<1>7. FreshOK'
  BY <1>1, <1>3, <1>3a DEF DashboardOK, FreshOK
<1>8. ShownIsTracked' /\ ShownEndIsTrue' /\ ListedOnce'
  BY <1>1 DEF DashboardOK, ShownIsTracked, ShownEndIsTrue, ListedOnce, Shown
<1> QED
  BY <1>4, <1>5, <1>6, <1>7, <1>8 DEF DashboardOK

-----------------------------------------------------------------------------
(* Steps of the page *)

\* Items may be removed at any time.
LEMMA RemoveFrame ==
  ASSUME DashboardOK, TypeOK', UNCHANGED <<job, submit, poller, list>>,
         \A i \in Ids : items'[i] \in {items[i], None},
         \A i \in Ids : dismiss'[i] \in {dismiss[i], "idle"}
  PROVE  DashboardOK'
<1>1. JobOK' /\ SendingOK' /\ \A l \in Lists : ListOK(l)'
  BY DEF DashboardOK, JobOK, SendingOK, Over, ListOK, StillTrue
<1>2. ASSUME NEW i \in Ids PROVE ItemOK(i)' /\ DismissOK(i)'
  BY DEF DashboardOK, ItemOK, DismissOK, Hidden, Over
<1>3. ASSUME NEW k \in Ids PROVE PollerOK(k)'
  BY DEF DashboardOK, PollerOK, StillTrue
<1>4. FreshOK'
  BY IdsType DEF DashboardOK, FreshOK
<1>5. ShownIsTracked' /\ ShownEndIsTrue' /\ ListedOnce'
  BY DEF DashboardOK, ShownIsTracked, ShownEndIsTrue, ListedOnce, Shown
<1> QED
  BY <1>1, <1>2, <1>3, <1>4, <1>5 DEF DashboardOK

LEMMA RemoveKeeps ==
  ASSUME DashboardOK, ClearAnswered \/ \E i \in Ids : DismissAnswered(i)
  PROVE  DashboardOK'
<1>1. UNCHANGED <<job, submit, poller, list, failures>>
  BY DEF ClearAnswered, DismissAnswered
<1>2. /\ items' \in [Ids -> Item \cup {None}]
      /\ \A i \in Ids : items'[i] \in {items[i], None}
  BY DEF ClearAnswered, DismissAnswered, DashboardOK, TypeOK
<1>3. /\ dismiss' \in [Ids -> {"idle", "sent", "done"}]
      /\ \A i \in Ids : dismiss'[i] \in {dismiss[i], "idle"}
  BY DEF ClearAnswered, DismissAnswered, DashboardOK, TypeOK
<1>4. clear' \in Clear
  BY DEF ClearAnswered, DismissAnswered, DashboardOK, TypeOK, Clear, NoClear
<1>5. TypeOK'
  BY <1>1, <1>2, <1>3, <1>4 DEF DashboardOK, TypeOK
<1> QED
  BY <1>1, <1>2, <1>3, <1>5, RemoveFrame

\* A step of submitFile: the page's own item, and its submission.
LEMMA SubmitFrame ==
  ASSUME DashboardOK, NEW j \in Jobs, NEW r \in Item \cup {None},
         items' = [items EXCEPT ![<<0, j>>] = r],
         submit[j] # "over", UNCHANGED <<job, poller, list, dismiss, clear>>,
         NEW s \in {"unused", "sending", "accepted", "over"},
         submit' = [submit EXCEPT ![j] = s], failures' \in Nat,
         s = "sending" => job[j].status = "none",
         r # None => r.job = None /\ r.status = None /\ r.phase # "submitted"
  PROVE  DashboardOK'
<1> USE DashboardAssumption
<1>1. <<0, j>> \in Ids /\ <<0, j>>[1] = 0 /\ <<0, j>>[2] = j
  BY IdsType
<1>2. /\ \A i \in Ids : items'[i] = IF i = <<0, j>> THEN r ELSE items[i]
      /\ \A k \in Jobs : submit'[k] = IF k = j THEN s ELSE submit[k]
      /\ TypeOK'
  BY <1>1 DEF DashboardOK, TypeOK
<1>3. JobOK' /\ SendingOK' /\ \A l \in Lists : ListOK(l)'
  BY <1>2 DEF DashboardOK, JobOK, SendingOK, Over, ListOK, StillTrue
<1>4. ASSUME NEW i \in Ids PROVE ItemOK(i)' /\ DismissOK(i)'
  <2>1. i[1] = 0 /\ i[2] = j <=> i = <<0, j>>
    BY IdsType
  <2> QED
    BY <1>1, <1>2, <2>1, IdsType DEF DashboardOK, ItemOK, DismissOK, Hidden, Over
<1>5. ASSUME NEW k \in Ids PROVE PollerOK(k)'
  <2>1. CASE poller[k].pc = "none"
    BY <2>1 DEF DashboardOK, PollerOK
  <2>2. CASE poller[k].pc # "none"
    <3>1. poller[k].id \in Ids /\ poller[k].id # <<0, j>>
      BY <1>1, <2>2 DEF DashboardOK, PollerOK
    <3>2. items'[poller[k].id] = items[poller[k].id]
      BY <1>2, <3>1
    <3> QED
      BY <1>2, <2>2, <3>2, IdsType DEF DashboardOK, PollerOK, StillTrue
  <2> QED
    BY <2>1, <2>2
<1>6. FreshOK'
  BY <1>2, IdsType DEF DashboardOK, FreshOK
<1>7. ShownIsTracked' /\ ShownEndIsTrue'
  BY <1>2 DEF DashboardOK, ShownIsTracked, ShownEndIsTrue, Shown, Terminal
<1>8. ListedOnce'
  BY <1>2 DEF DashboardOK, ListedOnce, Shown
<1> QED
  BY <1>2, <1>3, <1>4, <1>5, <1>6, <1>7, <1>8 DEF DashboardOK

LEMMA PickKeeps ==
  ASSUME DashboardOK, NEW j \in Jobs, Pick(j) \/ SubmitFails(j)
  PROVE  DashboardOK'
<1> USE DashboardAssumption
<1>1. CASE Pick(j)
  <2> DEFINE r == [phase |-> "uploading", job |-> None, status |-> None]
  <2>1. /\ r \in Item \cup {None}
        /\ r.job = None /\ r.status = None /\ r.phase # "submitted"
    BY DEF Item
  <2>2. /\ submit[j] # "over" /\ job[j].status = "none"
        /\ items' = [items EXCEPT ![<<0, j>>] = r]
        /\ submit' = [submit EXCEPT ![j] = "sending"]
        /\ UNCHANGED <<job, poller, list, dismiss, clear>>
        /\ failures' \in Nat
    BY <1>1 DEF Pick, DashboardOK, TypeOK
  <2> HIDE DEF r
  <2> QED
    BY <2>1, <2>2, SubmitFrame
<1>2. CASE SubmitFails(j)
  <2> DEFINE i == <<0, j>>
             r == IF items[i] = None THEN None
                  ELSE [items[i] EXCEPT !.phase = "failed"]
  <2>1. i \in Ids /\ i[1] = 0 /\ i[2] = j
    BY IdsType
  <2>2. /\ submit[j] # "over"
        /\ items' = [items EXCEPT ![i] = r]
        /\ submit' = [submit EXCEPT ![j] = "over"]
        /\ UNCHANGED <<job, poller, list, dismiss, clear>>
        /\ failures' \in Nat
    BY <1>2 DEF SubmitFails, SetPhase, DashboardOK, TypeOK, Lose
  <2>3. items[i] # None => items[i].job = None /\ items[i].status = None
    BY <2>1, <2>2 DEF DashboardOK, ItemOK
  <2>4. /\ r \in Item \cup {None}
        /\ r # None => r.job = None /\ r.status = None /\ r.phase # "submitted"
    BY <2>1, <2>3 DEF DashboardOK, TypeOK, Item
  <2> HIDE DEF r
  <2> QED
    BY <2>2, <2>4, SubmitFrame
<1> QED
  BY <1>1, <1>2

-----------------------------------------------------------------------------
(* Pollers *)

\* The answer to a submission: the own item gets its job and its poller.
LEMMA SubmittedKeeps ==
  ASSUME DashboardOK, NEW j \in Jobs, Submitted(j)
  PROVE  DashboardOK'
<1> USE DashboardAssumption
<1> DEFINE i == <<0, j>>
           r == [phase |-> "submitted", job |-> j, status |-> "queued"]
<1>0. i \in Ids /\ i[1] = 0 /\ i[2] = j
  BY IdsType
<1>1. /\ r \in Item /\ r.job = j /\ r.status = "queued"
      /\ Track(i) \in Poller /\ Track(i).pc = "asking"
      /\ Track(i).id = i /\ Track(i).answer = None
  BY <1>0 DEF Item, Track, Poller, JobStatus, Pending
<1>2. /\ UNCHANGED <<job, list, dismiss, clear, failures>>
      /\ \A k \in Ids : items'[k] = IF k = i THEN r ELSE items[k]
      /\ \A k \in Ids : poller'[k] = IF k = i THEN Track(i) ELSE poller[k]
      /\ \A k \in Jobs : submit'[k] = IF k = j THEN "over" ELSE submit[k]
      /\ submit[j] = "accepted"
  BY <1>0 DEF Submitted, DashboardOK, TypeOK
<1>3. /\ items' \in [Ids -> Item \cup {None}]
      /\ submit' \in [Jobs -> {"unused", "sending", "accepted", "over"}]
      /\ poller' \in [Ids -> Poller]
  BY <1>0, <1>1 DEF Submitted, DashboardOK, TypeOK
<1> HIDE DEF r
<1>4. TypeOK'
  BY <1>2, <1>3 DEF DashboardOK, TypeOK
<1>5. JobOK' /\ SendingOK' /\ \A l \in Lists : ListOK(l)'
  BY <1>2 DEF DashboardOK, JobOK, SendingOK, Over, ListOK, StillTrue
<1>6. ASSUME NEW k \in Ids PROVE ItemOK(k)' /\ DismissOK(k)'
  BY <1>0, <1>1, <1>2, IdsType DEF DashboardOK, ItemOK, DismissOK, Hidden, Over
<1>7. ASSUME NEW k \in Ids PROVE PollerOK(k)'
  <2>1. CASE k = i
    BY <1>0, <1>1, <1>2, <2>1 DEF PollerOK, StillTrue, Terminal
  <2>2. CASE k # i /\ poller[k].pc = "none"
    BY <1>2, <2>2 DEF DashboardOK, PollerOK
  <2>3. CASE k # i /\ poller[k].pc # "none"
    <3>1. poller[k].id \in Ids /\ poller[k].id # i
      BY <1>0, <1>2, <2>3 DEF DashboardOK, PollerOK
    <3>2. items'[poller[k].id] = items[poller[k].id]
      BY <1>2, <3>1
    <3> QED
      BY <1>2, <2>3, <3>2, IdsType DEF DashboardOK, PollerOK, StillTrue
  <2> QED
    BY <2>1, <2>2, <2>3
<1>8. FreshOK'
  BY <1>0, <1>2, IdsType DEF DashboardOK, FreshOK
<1>9. ShownIsTracked'
  <2>1. poller[i].pc = "none"
    BY <1>0, <1>2 DEF DashboardOK, FreshOK
  <2>2. ASSUME NEW k \in Ids, Tracked(k) PROVE Tracked(k)'
    BY <1>2, <2>1, <2>2 DEF Tracked
  <2>3. Tracked(i)'
    BY <1>0, <1>1, <1>2 DEF Tracked
  <2> QED
    BY <1>2, <2>2, <2>3 DEF DashboardOK, ShownIsTracked, Shown, Tracked
<1>10. ShownEndIsTrue' /\ ListedOnce'
  BY <1>0, <1>1, <1>2 DEF DashboardOK, ShownEndIsTrue, ListedOnce, Shown, Terminal
<1> QED
  BY <1>4, <1>5, <1>6, <1>7, <1>8, <1>9, <1>10 DEF DashboardOK

\* A step of one poller that changes its item at most: its phase to "failed",
\* or its status to one that is still true.
LEMMA PollFrame ==
  ASSUME DashboardOK, NEW k \in Ids, poller[k].pc # "none",
         NEW p \in Poller, poller' = [poller EXCEPT ![k] = p],
         NEW r \in Item \cup {None},
         items' = [items EXCEPT ![poller[k].id] = r],
         UNCHANGED <<job, submit, list, dismiss, clear>>, failures' \in Nat,
         IF p.pc = "none" THEN p = NoPoller
         ELSE /\ p.id = poller[k].id /\ StillTrue(k[2], p.answer)
              /\ p.pc = "asking" => p.answer = None,
         r # None => /\ items[poller[k].id] # None
                     /\ r.job = items[poller[k].id].job
                     /\ StillTrue(k[2], r.status),
         r # None /\ r.phase = "submitted" /\ r.status \in Pending => p.pc # "none"
  PROVE  DashboardOK'
<1> USE DashboardAssumption
<1> DEFINE i == poller[k].id
<1>0. /\ i \in Ids /\ i[2] = k[2]
      /\ i[1] = 0 => submit[k[2]] = "over"
      /\ items[i] # None => items[i].job # None
  BY DEF DashboardOK, PollerOK
<1>1. /\ \A n \in Ids : items'[n] = IF n = i THEN r ELSE items[n]
      /\ \A n \in Ids : poller'[n] = IF n = k THEN p ELSE poller[n]
      /\ TypeOK'
  BY <1>0 DEF DashboardOK, TypeOK
<1>2. JobOK' /\ SendingOK' /\ \A l \in Lists : ListOK(l)'
  BY DEF DashboardOK, JobOK, SendingOK, Over, ListOK, StillTrue
<1>3. ASSUME NEW n \in Ids PROVE ItemOK(n)' /\ DismissOK(n)'
  BY <1>0, <1>1 DEF DashboardOK, ItemOK, DismissOK, Hidden, Over
<1>4. ASSUME NEW n \in Ids PROVE PollerOK(n)'
  BY <1>0, <1>1 DEF DashboardOK, PollerOK, StillTrue
<1>5. FreshOK'
  BY <1>0, <1>1, IdsType DEF DashboardOK, FreshOK
<1>6. ShownIsTracked'
  <2>1. ASSUME NEW n \in Ids, n # i, Tracked(n) PROVE Tracked(n)'
    BY <1>1, <2>1 DEF Tracked
  <2>2. p.pc # "none" => Tracked(i)'
    BY <1>0, <1>1 DEF Tracked
  <2> QED
    BY <1>0, <1>1, <2>1, <2>2 DEF DashboardOK, ShownIsTracked, Shown, Tracked
<1>7. ShownEndIsTrue' /\ ListedOnce'
  BY <1>0, <1>1 DEF DashboardOK, ShownEndIsTrue, ListedOnce, Shown, StillTrue
<1> QED
  BY <1>1, <1>2, <1>3, <1>4, <1>5, <1>6, <1>7 DEF DashboardOK

LEMMA PollKeeps ==
  ASSUME DashboardOK, NEW k \in Ids, PollStep(k)
  PROVE  DashboardOK'
<1> USE DashboardAssumption
<1> DEFINE i == poller[k].id
           a == poller[k].answer
<1>0. /\ poller[k] \in Poller /\ NoPoller \in Poller
      /\ poller[k].pc # "none" /\ i \in Ids /\ i[2] = k[2] /\ StillTrue(k[2], a)
      /\ items[i] \in Item \cup {None}
  <2>1. poller[k] \in Poller /\ NoPoller \in Poller
    BY DEF DashboardOK, TypeOK, Poller, NoPoller
  <2>2. poller[k].pc # "none"
    BY DEF PollStep, PollRead, PollAnswered, PollError, DashboardOK, PollerOK,
       NoPoller
  <2>3. i \in Ids /\ i[2] = k[2] /\ StillTrue(k[2], a)
    BY <2>2 DEF DashboardOK, PollerOK
  <2> QED
    BY <2>1, <2>2, <2>3 DEF DashboardOK, TypeOK
<1>1. items[i] # None => StillTrue(k[2], items[i].status)
  BY <1>0 DEF DashboardOK, ShownEndIsTrue, Shown, StillTrue
<1>2. Track(i) \in Poller /\ Track(i).pc = "asking"
      /\ Track(i).id = i /\ Track(i).answer = None
  BY <1>0 DEF Track, Poller
<1>3. CASE PollRead(k)
  <2> DEFINE v == IF Read(k[2]) = "absent" THEN "error" ELSE Read(k[2])
             p == [poller[k] EXCEPT !.pc = "answered", !.answer = v]
  <2>1. v \in JobStatus \cup {"error"} /\ StillTrue(k[2], v)
    BY IdsType, ReadTrue DEF StillTrue, Terminal
  <2>2. p \in Poller /\ p.pc = "answered" /\ p.id = i /\ p.answer = v
    <3> HIDE DEF v
    <3> QED
      BY <1>0, <2>1 DEF Poller
  <2>3. /\ poller' = [poller EXCEPT ![k] = p]
        /\ items' = [items EXCEPT ![i] = items[i]]
        /\ UNCHANGED <<job, submit, list, dismiss, clear>> /\ failures' \in Nat
    BY <1>3, <1>0 DEF PollRead, DashboardOK, TypeOK
  <2> HIDE DEF v, p
  <2> QED
    BY <1>0, <1>1, <2>1, <2>2, <2>3, PollFrame
<1>4. CASE PollAnswered(k)
  <2> DEFINE r == IF items[i] = None THEN None
                  ELSE [items[i] EXCEPT !.status = a]
             p == IF a \in Terminal THEN NoPoller ELSE Track(i)
  <2>1. /\ poller' = [poller EXCEPT ![k] = p]
        /\ items' = [items EXCEPT ![i] = r]
        /\ UNCHANGED <<job, submit, list, dismiss, clear>> /\ failures' \in Nat
        /\ a \in JobStatus
    BY <1>4 DEF PollAnswered, SetStatus, DashboardOK, TypeOK
  <2>2. /\ r \in Item \cup {None}
        /\ r # None => items[i] # None /\ r.job = items[i].job /\ r.status = a
    BY <1>0, <2>1 DEF Item
  <2>3. /\ p \in Poller
        /\ IF p.pc = "none" THEN p = NoPoller
           ELSE p.id = i /\ p.answer = None
        /\ a \in Pending => p.pc # "none"
    BY <1>0, <1>2 DEF NoPoller, Terminal, Pending
  <2>4. StillTrue(k[2], None)
    BY DEF StillTrue, Terminal
  <2> HIDE DEF r, p
  <2> QED
    BY <1>0, <2>1, <2>2, <2>3, <2>4, PollFrame
<1>5. CASE PollError(k)
  <2> DEFINE r == IF items[i] = None THEN None
                  ELSE [items[i] EXCEPT !.phase = "failed"]
  <2>1. /\ poller' = [poller EXCEPT ![k] = NoPoller]
        /\ items' = [items EXCEPT ![i] = r]
        /\ UNCHANGED <<job, submit, list, dismiss, clear>> /\ failures' \in Nat
    BY <1>5 DEF PollError, SetPhase, Lose, DashboardOK, TypeOK
  <2>2. /\ r \in Item \cup {None}
        /\ r # None => /\ items[i] # None /\ r.job = items[i].job
                       /\ r.status = items[i].status /\ r.phase = "failed"
    BY <1>0 DEF Item
  <2>3. NoPoller.pc = "none"
    BY DEF NoPoller
  <2> HIDE DEF r
  <2> QED
    BY <1>0, <1>1, <2>1, <2>2, <2>3, PollFrame
<1> QED
  BY <1>3, <1>4, <1>5 DEF PollStep

-----------------------------------------------------------------------------
(* The answer to a list *)

LEMMA ItemsOfType ==
  ASSUME DashboardOK, NEW j \in Jobs, NEW i \in ItemsOf(j)
  PROVE  /\ i \in Ids /\ i[2] = j /\ items[i] # None /\ items[i].job = j
         /\ i[1] = 0 => submit[j] = "over"
BY DashboardAssumption DEF DashboardOK, ItemOK, ItemsOf, Shown

\* A job has its own item, or one item of a list, or both: find has a result.
LEMMA FindType ==
  ASSUME DashboardOK, NEW j \in Jobs, ItemsOf(j) # {}
  PROVE  Find(j) \in ItemsOf(j)
<1>1. \E i \in ItemsOf(j) : \A k \in ItemsOf(j) : i[1] <= k[1]
  <2>1. \A k \in ItemsOf(j) : k[1] \in Nat /\ k[2] = j
    BY ItemsOfType, IdsType, DashboardAssumption
  <2>2. CASE <<0, j>> \in ItemsOf(j)
    BY <2>1, <2>2, IdsType
  <2>3. CASE <<0, j>> \notin ItemsOf(j)
    <3>1. \A k \in ItemsOf(j) : k[1] # 0 /\ k \in Shown /\ items[k].job = j
      BY <2>3, ItemsOfType, IdsType DEF ItemsOf
    <3>2. \A i, k \in ItemsOf(j) : i = k
      BY <3>1, DashboardAssumption DEF DashboardOK, ListedOnce
    <3> QED
      BY <2>1, <3>2
  <2> QED
    BY <2>2, <2>3
<1> QED
  BY <1>1 DEF Find

LEMMA TargetType ==
  ASSUME DashboardOK, NEW l \in Lists, list[l].pc # "over", NEW j \in Jobs
  PROVE  /\ Target(l, j) \in Ids /\ Target(l, j)[2] = j
         /\ Target(l, j)[1] = 0 => submit[j] = "over"
         /\ items[Target(l, j)] # None => items[Target(l, j)].job = j
         /\ items[Target(l, j)] = None =>
              Target(l, j) = <<l, j>> /\ ItemsOf(j) = {}
<1>1. CASE ItemsOf(j) = {}
  BY <1>1, IdsType DEF Target, DashboardOK, FreshOK
<1>2. CASE ItemsOf(j) # {}
  BY <1>2, FindType, ItemsOfType DEF Target
<1> QED
  BY <1>1, <1>2

LEMMA AnsweredKeeps ==
  ASSUME DashboardOK, NEW l \in Lists, ListAnswered(l)
  PROVE  DashboardOK'
<1> USE DashboardAssumption
<1> DEFINE seen(j) == list[l].seen[j]
           hit(i) == i = Target(l, i[2]) /\ seen(i[2]) \in JobStatus
           own(k) == k[1] = l /\ seen(k[2]) \in Pending
<1>0. /\ UNCHANGED <<job, submit, dismiss, clear, failures>>
      /\ list[l].pc = "reading"
      /\ \A j \in Jobs : StillTrue(j, seen(j))
  BY DEF ListAnswered, DashboardOK, ListOK
<1>1. \A i \in Ids : ~hit(i) => items'[i] = items[i]
  BY DEF ListAnswered, hydrateFromServer
<1>2. ASSUME NEW i \in Ids, hit(i)
      PROVE  /\ items'[i] \in Item
             /\ items'[i].job = i[2] /\ items'[i].status = seen(i[2])
             /\ items[i] = None => i[1] = l /\ ItemsOf(i[2]) = {}
  <2> DEFINE base == IF items[i] = None THEN fromServerJob(i[2]) ELSE items[i]
  <2>1. i[2] \in Jobs /\ Target(l, i[2]) = i
    BY <1>2, IdsType
  <2>2. base \in Item /\ base.job = i[2]
    BY <1>0, <2>1, TargetType DEF DashboardOK, TypeOK, fromServerJob, Item
  <2>3. items'[i] = [base EXCEPT !.status = seen(i[2])]
    BY <1>2 DEF ListAnswered, hydrateFromServer
  <2>4. items[i] = None => i[1] = l /\ ItemsOf(i[2]) = {}
    BY <1>0, <2>1, TargetType, IdsType
  <2> HIDE DEF base
  <2> QED
    BY <1>2, <2>2, <2>3, <2>4 DEF Item
<1>3. \A k \in Ids : poller'[k] =
        IF own(k) THEN Track(Target(l, k[2])) ELSE poller[k]
  BY DEF ListAnswered
<1>4. \A k \in Lists : list'[k] =
        IF k = l THEN [pc |-> "over", seen |-> Unread] ELSE list[k]
  BY DEF ListAnswered, DashboardOK, TypeOK
<1>5. TypeOK'
  <2>1. items' \in [Ids -> Item \cup {None}]
    <3>1. items' = [i \in Ids |-> items'[i]]
      BY DEF ListAnswered, hydrateFromServer
    <3> QED
      BY <1>1, <1>2, <3>1 DEF DashboardOK, TypeOK
  <2>2. poller' \in [Ids -> Poller]
    <3>1. \A k \in Ids : Track(Target(l, k[2])) \in Poller
      BY <1>0, TargetType, IdsType DEF Track, Poller
    <3>2. poller' = [k \in Ids |-> poller'[k]]
      BY DEF ListAnswered
    <3> QED
      BY <1>3, <3>1, <3>2 DEF DashboardOK, TypeOK
  <2>3. list' \in [Lists -> List]
    BY DEF ListAnswered, DashboardOK, TypeOK, List, Unread
  <2> QED
    BY <1>0, <2>1, <2>2, <2>3 DEF DashboardOK, TypeOK
<1>6. /\ JobOK' /\ SendingOK' /\ \A k \in Lists : ListOK(k)'
      /\ \A i \in Ids : DismissOK(i)'
  BY <1>0, <1>4 DEF DashboardOK, JobOK, SendingOK, Over, ListOK, StillTrue,
     Unread, Terminal, DismissOK, Hidden
<1>7. ASSUME NEW i \in Ids PROVE ItemOK(i)'
  <2>1. CASE hit(i)
    <3>1. i[1] = 0 => submit[i[2]] = "over"
      BY <1>0, <2>1, TargetType, IdsType
    <3> QED
      BY <1>0, <1>2, <2>1, <3>1, IdsType DEF ItemOK
  <2>2. CASE ~hit(i)
    BY <1>0, <1>1, <2>2 DEF DashboardOK, ItemOK
  <2> QED
    BY <2>1, <2>2
<1>8. ASSUME NEW k \in Ids PROVE PollerOK(k)'
  <2>1. CASE own(k)
    <3> DEFINE t == Target(l, k[2])
    <3>1. /\ t \in Ids /\ t[2] = k[2] /\ hit(t)
          /\ t[1] = 0 => submit[k[2]] = "over"
      BY <1>0, <2>1, TargetType, IdsType DEF JobStatus
    <3>2. items'[t].job # None
      BY <1>2, <3>1, IdsType
    <3>3. poller'[k] = [pc |-> "asking", id |-> t, answer |-> None]
      BY <1>3, <2>1 DEF Track
    <3> HIDE DEF t
    <3> QED
      BY <1>0, <3>1, <3>2, <3>3 DEF PollerOK, StillTrue, Terminal
  <2>2. CASE ~own(k)
    <3>1. poller'[k] = poller[k]
      BY <1>3, <2>2
    <3>2. CASE poller[k].pc = "none"
      BY <3>1, <3>2 DEF DashboardOK, PollerOK
    <3>3. CASE poller[k].pc # "none"
      <4> DEFINE t == poller[k].id
      <4>1. t \in Ids /\ (items[t] # None => items[t].job # None)
        BY <3>3 DEF DashboardOK, PollerOK
      <4>2. items'[t] # None => items'[t].job # None
        BY <1>1, <1>2, <4>1, IdsType
      <4> QED
        BY <1>0, <3>1, <3>3, <4>2 DEF DashboardOK, PollerOK, StillTrue
    <3> QED
      BY <3>2, <3>3
  <2> QED
    BY <2>1, <2>2
<1>9. FreshOK'
  <2>1. ASSUME NEW k \in Lists, NEW j \in Jobs, list'[k].pc # "over"
        PROVE  items'[<<k, j>>] = None /\ poller'[<<k, j>>].pc = "none"
    <3>1. k # l /\ list[k].pc # "over"
      BY <1>4, <2>1
    <3>2. items[<<k, j>>] = None /\ poller[<<k, j>>].pc = "none"
      BY <3>1 DEF DashboardOK, FreshOK
    <3>3. ~hit(<<k, j>>) /\ ~own(<<k, j>>)
      BY <1>2, <3>1, <3>2, IdsType
    <3> QED
      BY <1>1, <1>3, <3>2, <3>3, IdsType
  <2>2. ASSUME NEW j \in Jobs, submit'[j] # "over"
        PROVE  poller'[<<0, j>>].pc = "none"
    BY <1>0, <1>3, <2>2, IdsType DEF DashboardOK, FreshOK
  <2> QED
    BY <2>1, <2>2 DEF FreshOK
<1>10. ASSUME NEW i \in Ids, items'[i] # None, items'[i].phase = "submitted",
              items'[i].status \in Pending
       PROVE  Tracked(i)'
  <2>1. CASE hit(i)
    <3> DEFINE k == <<l, i[2]>>
    <3>1. k \in Ids /\ k[2] = i[2] /\ own(k)
      BY <1>2, <1>10, <2>1, IdsType
    <3>2. poller'[k] = Track(i)
      BY <1>3, <2>1, <3>1
    <3>3. poller'[k].pc = "asking" /\ poller'[k].id = i
      BY <3>2 DEF Track
    <3> HIDE DEF k
    <3> QED
      BY <3>1, <3>3 DEF Tracked
  <2>2. CASE ~hit(i)
    <3>1. PICK k \in Ids : poller[k].pc # "none" /\ poller[k].id = i
      BY <1>1, <1>10, <2>2 DEF DashboardOK, ShownIsTracked, Shown
    <3>2. ~own(k)
      BY <1>0, <3>1, IdsType DEF DashboardOK, FreshOK
    <3> QED
      BY <1>3, <3>1, <3>2 DEF Tracked
  <2> QED
    BY <2>1, <2>2
<1>11. ShownIsTracked'
  BY <1>10 DEF ShownIsTracked, Shown, Tracked
<1>12. ShownEndIsTrue'
  <2>1. ASSUME NEW i \in Ids, items'[i] # None, items'[i].status \in Terminal
        PROVE  job[i[2]].status \in {items'[i].status, "gone"}
    BY <1>0, <1>1, <1>2, <2>1, IdsType
       DEF DashboardOK, ShownEndIsTrue, Shown, StillTrue
  <2> QED
    BY <1>0, <2>1 DEF ShownEndIsTrue, Shown
<1>13. ListedOnce'
  <2>1. ASSUME NEW i \in Ids, NEW k \in Ids, i # k, i[1] # 0, k[1] # 0,
               items'[i] # None, items'[k] # None, items'[i].job = items'[k].job
        PROVE  FALSE
    <3>1. i[2] = k[2] /\ i[2] \in Jobs
      BY <1>7, <2>1, IdsType DEF ItemOK
    <3>2. ASSUME NEW n \in Ids, n[2] = i[2], n[1] # 0, items[n] # None
          PROVE  n \in ItemsOf(i[2])
      BY <3>2 DEF DashboardOK, ItemOK, ItemsOf, Shown
    <3>3. CASE items[i] = None /\ items[k] = None
      BY <1>1, <2>1, <3>1, <3>3
    <3>4. CASE items[i] = None /\ items[k] # None
      BY <1>1, <1>2, <2>1, <3>1, <3>2, <3>4
    <3>5. CASE items[i] # None /\ items[k] = None
      BY <1>1, <1>2, <2>1, <3>1, <3>2, <3>5
    <3>6. CASE items[i] # None /\ items[k] # None
      <4>1. i \in ItemsOf(i[2]) /\ k \in ItemsOf(i[2])
        BY <2>1, <3>1, <3>2, <3>6
      <4> QED
        BY <2>1, <3>1, <4>1 DEF DashboardOK, ListedOnce, ItemsOf
    <3> QED
      BY <3>3, <3>4, <3>5, <3>6
  <2> QED
    BY <2>1 DEF ListedOnce, Shown
<1> QED
  BY <1>5, <1>6, <1>7, <1>8, <1>9, <1>11, <1>12, <1>13 DEF DashboardOK

-----------------------------------------------------------------------------
(* The theorems *)

LEMMA StepDashboardOK ==
  ASSUME DashboardOK, [Next]_dashboardVars
  PROVE  DashboardOK'
<1>1. CASE Next
  <2>1. CASE \E j \in Jobs : StoreStep(j)
    BY <2>1, StoreKeeps
  <2>2. CASE \E j \in Jobs : SubmitStep(j)
    BY <2>2, PickKeeps, QuietKeeps, SubmittedKeeps DEF SubmitStep
  <2>3. CASE \E k \in Ids : PollStep(k) \/ DismissStep(k)
    BY <2>3, PollKeeps, QuietKeeps, RemoveKeeps DEF DismissStep
  <2>4. CASE \E l \in Lists : ListStep(l)
    BY <2>4, ListKeeps, AnsweredKeeps DEF ListStep
  <2>5. CASE ClearStep
    BY <2>5, QuietKeeps, RemoveKeeps DEF ClearStep
  <2> QED
    BY <1>1, <2>1, <2>2, <2>3, <2>4, <2>5 DEF Next
<1>2. CASE UNCHANGED dashboardVars
  <2>1. TypeOK' /\ JobOK' /\ SendingOK' /\ FreshOK'
    BY <1>2 DEF dashboardVars, DashboardOK, TypeOK, JobOK, SendingOK, Over,
       FreshOK
  <2>2. /\ \A i \in Ids : ItemOK(i)' /\ DismissOK(i)' /\ PollerOK(i)'
        /\ \A l \in Lists : ListOK(l)'
    BY <1>2 DEF dashboardVars, DashboardOK, ItemOK, DismissOK, Hidden, Over,
       PollerOK, ListOK,
       StillTrue
  <2>3. ShownIsTracked' /\ ShownEndIsTrue' /\ ListedOnce'
    BY <1>2 DEF dashboardVars, DashboardOK, ShownIsTracked, ShownEndIsTrue,
       ListedOnce, Shown
  <2> QED
    BY <2>1, <2>2, <2>3 DEF DashboardOK
<1> QED
  BY <1>1, <1>2

LEMMA AlwaysDashboardOK == Spec => []DashboardOK
BY InitDashboardOK, StepDashboardOK, PTL DEF Spec

\* The page, the pollers, the lists and the job store hold values of their
\* types, for any number of jobs and visits.
THEOREM DashboardTypeOK == Spec => []TypeOK
BY AlwaysDashboardOK, PTL DEF DashboardOK

\* A job shown as pending always has a poller: pollJob, loadAllJobs and
\* submitFile lose none, in whatever order lists and answers arrive.
THEOREM PendingIsPolled == Spec => []ShownIsTracked
BY AlwaysDashboardOK, PTL DEF DashboardOK

\* A job shown as done or failed is so in the job store, or has expired.
THEOREM EndIsTrue == Spec => []ShownEndIsTrue
BY AlwaysDashboardOK, PTL DEF DashboardOK

\* No two lists show one job twice, and hydrateFromServer's find is unique
\* but for the page's own submission.
THEOREM NoSecondListing == Spec => []ListedOnce
BY AlwaysDashboardOK, PTL DEF DashboardOK

\* No other step takes an item away.
LEMMA ItemStays ==
  ASSUME DashboardOK, Next, NEW i \in Ids, items[i] # None, items'[i] = None
  PROVE  ClearAnswered \/ DismissAnswered(i)
<1> USE NoneAssumption, DashboardAssumption
<1>0. items[i] \in Item /\ items \in [Ids -> Item \cup {None}]
  BY DEF DashboardOK, TypeOK
<1>1. ASSUME NEW n \in Ids, NEW r \in Item \cup {None},
             items' = [items EXCEPT ![n] = r], n = i => r # None
      PROVE  FALSE
  BY <1>0, <1>1
<1>2. ASSUME NEW j \in Jobs, SubmitStep(j) PROVE FALSE
  <2>1. <<0, j>> \in Ids
    BY IdsType
  <2>2. /\ [phase |-> "uploading", job |-> None, status |-> None] \in Item
        /\ [phase |-> "submitted", job |-> j, status |-> "queued"] \in Item
    BY DEF Item, JobStatus, Pending
  <2>3. items[<<0, j>>] \in Item =>
          [items[<<0, j>>] EXCEPT !.phase = "failed"] \in Item
    BY DEF Item
  <2>4. CASE Pick(j)
    BY <1>1, <2>1, <2>2, <2>4 DEF Pick
  <2>5. CASE Submitted(j)
    BY <1>1, <2>1, <2>2, <2>5 DEF Submitted
  <2>6. CASE SubmitFails(j)
    BY <1>0, <1>1, <2>1, <2>3, <2>6 DEF SubmitFails, SetPhase
  <2>7. CASE Accept(j)
    BY <2>7 DEF Accept
  <2> QED
    BY <1>2, <2>4, <2>5, <2>6, <2>7 DEF SubmitStep
<1>3. ASSUME NEW k \in Ids, PollStep(k) PROVE FALSE
  <2> DEFINE n == poller[k].id
  <2>2. ASSUME NEW r, n \in Ids, items[n] # None => r \in Item,
               items' = [items EXCEPT ![n] = IF items[n] = None THEN None ELSE r]
        PROVE  FALSE
    BY <1>0, <1>1, <2>2
  <2>3. CASE PollAnswered(k)
    <3> DEFINE r == [items[n] EXCEPT !.status = poller[k].answer]
    <3>1. n \in Ids /\ poller[k].answer \in JobStatus
      BY <2>3 DEF PollAnswered, DashboardOK, PollerOK
    <3>2. items[n] # None => r \in Item
      BY <1>0, <3>1 DEF Item
    <3>3. items' = [items EXCEPT ![n] = IF items[n] = None THEN None ELSE r]
      BY <2>3 DEF PollAnswered, SetStatus
    <3> HIDE DEF r, n
    <3> QED
      BY <2>2, <3>1, <3>2, <3>3
  <2>4. CASE PollError(k)
    <3> DEFINE r == [items[n] EXCEPT !.phase = "failed"]
    <3>1. n \in Ids
      BY <2>4 DEF PollError, DashboardOK, PollerOK, NoPoller
    <3>2. items[n] # None => r \in Item
      BY <1>0, <3>1 DEF Item
    <3>3. items' = [items EXCEPT ![n] = IF items[n] = None THEN None ELSE r]
      BY <2>4 DEF PollError, SetPhase
    <3> HIDE DEF r, n
    <3> QED
      BY <2>2, <3>1, <3>2, <3>3
  <2>5. CASE PollRead(k)
    BY <2>5 DEF PollRead
  <2> QED
    BY <1>3, <2>3, <2>4, <2>5 DEF PollStep
<1>4. ASSUME NEW l \in Lists, ListStep(l) PROVE FALSE
  <2>1. CASE ListAnswered(l)
    <3> DEFINE s == list[l].seen[i[2]]
    <3>1. s \in JobStatus => [items[i] EXCEPT !.status = s] \in Item
      BY <1>0 DEF Item
    <3>2. items'[i] = IF i = Target(l, i[2]) /\ s \in JobStatus
                      THEN [items[i] EXCEPT !.status = s] ELSE items[i]
      BY <2>1 DEF ListAnswered, hydrateFromServer
    <3> QED
      BY <3>1, <3>2
  <2>2. CASE ~ListAnswered(l)
    BY <1>4, <2>2 DEF ListStep, Visit, ListFails, ListRead
  <2> QED
    BY <2>1, <2>2
<1>5. ASSUME NEW n \in Ids, DismissStep(n) PROVE DismissAnswered(i)
  <2>1. CASE DismissAnswered(n)
    BY <1>0, <2>1 DEF DismissAnswered
  <2>2. CASE ~DismissAnswered(n)
    BY <1>5, <2>2 DEF DismissStep, DismissSent, DismissServed, DismissFails
  <2> QED
    BY <2>1, <2>2
<1>6. CASE ClearStep
  BY <1>6 DEF ClearStep, ClearSent, ClearFails, ClearScan, ClearWrite
<1>7. ASSUME NEW j \in Jobs, StoreStep(j) PROVE FALSE
  BY <1>7 DEF StoreStep, Appear, Advance, Expire, DismissElsewhere
<1> QED
  BY <1>2, <1>3, <1>4, <1>5, <1>6, <1>7 DEF Next

LEMMA RemovedStep ==
  ASSUME DashboardOK, [Next]_dashboardVars, NEW i \in Ids,
         items[i] # None, items'[i] = None
  PROVE  /\ job[i[2]].status \in Terminal \cup {"gone"}
         /\ \/ ClearAnswered
            \/ job[i[2]].dismissed \/ ~job[i[2]].stored
<1>1. Next
  BY DEF dashboardVars
<1>2. CASE ClearAnswered
  <2>1. items[i].status \in Terminal
    BY <1>2 DEF ClearAnswered, isDismissable
  <2> QED
    BY <1>2, <2>1 DEF DashboardOK, ShownEndIsTrue, Shown
<1>3. CASE DismissAnswered(i)
  <2>1. Hidden(i[2])
    BY <1>3, IdsType DEF DismissAnswered, DashboardOK, DismissOK
  <2> QED
    BY <2>1 DEF Hidden, Over
<1> QED
  BY <1>1, <1>2, <1>3, ItemStays

\* An item leaves the page only when its job is over, and by its own cross
\* only when the job was dismissed or has expired.
THEOREM OnlyOverIsRemoved == Spec => RemovedIsOver
<1>1. DashboardOK /\ [Next]_dashboardVars =>
        [\A i \in Ids : items[i] # None /\ items'[i] = None =>
           /\ job[i[2]].status \in Terminal \cup {"gone"}
           /\ \/ ClearAnswered
              \/ job[i[2]].dismissed \/ ~job[i[2]].stored]_dashboardVars
  BY RemovedStep
<1> QED
  BY <1>1, AlwaysDashboardOK, PTL DEF Spec, RemovedIsOver

=============================================================================
