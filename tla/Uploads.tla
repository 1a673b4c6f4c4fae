------------------------------- MODULE Uploads -------------------------------
(***************************************************************************)
(* One upload session: the API's handlers (routes/uploads.py), the session *)
(* hash in Redis and the multipart upload in the object store              *)
(* (storage/s3_client.py), and the clients that send the file's parts      *)
(* (frontend upload.ts): uploadFile runs up to CONCURRENCY loops over one  *)
(* cursor, and may be called again, after a failure or from another        *)
(* device, while the loops of an earlier call are still sending.           *)
(*                                                                         *)
(* A presigned URL is minted without changing anything, so asking for it   *)
(* is part of the PUT it is for.  A session never expires: the lookup that *)
(* opens every handler only tells whether initiate_upload has stored it.   *)
(***************************************************************************)
EXTENDS Naturals, FiniteSets

CONSTANTS
  Parts,       \* the file's part numbers, 1..part_count
  Concurrency, \* CONCURRENCY
  Calls,       \* uploadFile calls against the session, each with its submitJob
  Others,      \* clients that abort the upload, or submit a job on its key
  MaxFailures, \* bound: requests that fail or processes that die
  None

Loops == 1..Concurrency

ASSUME UploadsAssumption ==
  /\ Parts \subseteq Nat /\ Parts # {} /\ IsFiniteSet(Parts)
  /\ Concurrency \in Nat \ {0}
  /\ MaxFailures \in Nat
  /\ None \notin Parts
  /\ None \notin {"in_progress", "completed", "aborted"}

VARIABLES
  initiate,  \* POST /uploads
  session,   \* Redis: the session's state, None before it is stored
  multipart, \* the object store's multipart upload
  received,  \* the parts it has stored
  object,    \* the parts the source object was assembled from, {} before
  call,      \* uploadFile, complete_upload and submitJob, per call
  other,     \* abort_upload or submit_job, per other client
  failures   \* failures that may still happen

vars == <<initiate, session, multipart, received, object, call, other, failures>>

\* pc, the map of completed parts, the parts behind the cursor, the part each
\* loop is sending, and the loops whose PUT is stored but not yet answered.
Call == [ pc: {"idle", "run", "complete", "mark", "done", "submitted", "failed"},
          completed: SUBSET Parts,
          remaining: SUBSET Parts,
          part     : [Loops -> Parts \cup {None}],
          stored   : SUBSET Loops ]

TypeOK ==
  /\ initiate \in {"new", "session", "done", "died"}
  /\ session \in {None, "in_progress", "completed", "aborted"}
  /\ multipart \in {"none", "open", "closed"}
  /\ received \subseteq Parts
  /\ object \subseteq Parts
  /\ call \in [Calls -> Call]
  /\ other \in [Others -> {"idle", "mark", "done", "submitted", "failed"}]
  /\ failures \in Nat

NoPart == [l \in Loops |-> None]

Init ==
  /\ initiate = "new" /\ session = None /\ multipart = "none"
  /\ received = {} /\ object = {}
  /\ call = [c \in Calls |-> [ pc |-> "idle", completed |-> {}, remaining |-> {},
                               part |-> NoPart, stored |-> {} ]]
  /\ other = [a \in Others |-> "idle"]
  /\ failures = MaxFailures

-----------------------------------------------------------------------------
(* POST /uploads.                                                          *)

CreateMultipart ==
  /\ initiate = "new"
  /\ initiate' = "session" /\ multipart' = "open"
  /\ UNCHANGED <<session, received, object, call, other, failures>>

CreateSession ==
  /\ initiate = "session"
  /\ initiate' = "done" /\ session' = "in_progress"
  /\ UNCHANGED <<multipart, received, object, call, other, failures>>

\* The multipart upload is left behind without a session.
InitiateDies ==
  /\ initiate = "session"
  /\ failures > 0 /\ failures' = failures - 1
  /\ initiate' = "died"
  /\ UNCHANGED <<session, multipart, received, object, call, other>>

-----------------------------------------------------------------------------
(* uploadFile.                                                             *)

Missing == Parts \ received

\* Seeded fault: a loop starts without asking whether a part is left for it.
FirstPartUnchecked(l) ==
  LET nth == {n \in Missing : Cardinality({m \in Missing : m < n}) = l - 1} IN
  IF nth = {} THEN Cardinality(Parts) + l ELSE CHOOSE n \in nth : TRUE

\* The part loop l starts with: the l-th of those missing, None when there are
\* fewer.
FirstPart(l) ==
  LET nth == {n \in Missing : Cardinality({m \in Missing : m < n}) = l - 1} IN
  IF nth = {} THEN None ELSE CHOOSE n \in nth : TRUE

\* Seeded fault: the map of completed parts starts empty.
StartFromNothing(c) ==
  LET part == [l \in Loops |-> FirstPart(l)] IN
  /\ call[c].pc = "idle" /\ initiate = "done" /\ multipart = "open"
  /\ call' = [call EXCEPT ![c] =
       [ pc |-> IF Missing = {} THEN "complete" ELSE "run", completed |-> {},
         remaining |-> Missing \ {part[l] : l \in Loops},
         part |-> part, stored |-> {} ]]
  /\ UNCHANGED <<initiate, session, multipart, received, object, other, failures>>

\* Seeded fault: with no part missing, nobody reports that the loops have ended.
StartWithoutLoops(c) ==
  LET part == [l \in Loops |-> FirstPart(l)] IN
  /\ call[c].pc = "idle" /\ initiate = "done" /\ multipart = "open"
  /\ call' = [call EXCEPT ![c] =
       [ pc |-> "run", completed |-> received,
         remaining |-> Missing \ {part[l] : l \in Loops},
         part |-> part, stored |-> {} ]]
  /\ UNCHANGED <<initiate, session, multipart, received, object, other, failures>>

\* listReceivedParts, then the loops take their first parts.
Start(c) ==
  LET part == [l \in Loops |-> FirstPart(l)] IN
  /\ call[c].pc = "idle" /\ initiate = "done" /\ multipart = "open"
  /\ call' = [call EXCEPT ![c] =
       [ pc |-> IF Missing = {} THEN "complete" ELSE "run", completed |-> received,
         remaining |-> Missing \ {part[l] : l \in Loops},
         part |-> part, stored |-> {} ]]
  /\ UNCHANGED <<initiate, session, multipart, received, object, other, failures>>

Fail(c) == call' = [call EXCEPT ![c].pc = "failed"]

\* The object store knows no such upload any more.
StartRefused(c) ==
  /\ call[c].pc = "idle" /\ initiate = "done" /\ multipart = "closed"
  /\ Fail(c)
  /\ UNCHANGED <<initiate, session, multipart, received, object, other, failures>>

\* The PUT of uploadPart arrives.
PutPart(c, l) ==
  /\ call[c].part[l] # None /\ l \notin call[c].stored
  /\ multipart = "open"
  /\ received' = received \cup {call[c].part[l]}
  /\ call' = [call EXCEPT ![c].stored = @ \cup {l}]
  /\ UNCHANGED <<initiate, session, multipart, object, other, failures>>

\* Its answer reaches the loop, which goes on to the next part; when the last
\* loop has ended, Promise.all resolves.
PartAnswered(c, l) ==
  LET k == call[c]
      answered(part, remaining, pc) ==
        call' = [call EXCEPT ![c] =
          [ pc |-> pc, completed |-> k.completed \cup {k.part[l]},
            remaining |-> remaining, part |-> part, stored |-> k.stored \ {l} ]] IN
  /\ l \in k.stored
  /\ \/ \E n \in k.remaining :
          /\ \A m \in k.remaining : n <= m
          /\ answered([k.part EXCEPT ![l] = n], k.remaining \ {n}, k.pc)
     \/ /\ k.remaining = {}
        /\ answered([k.part EXCEPT ![l] = None], {},
             IF k.pc = "run" /\ \A i \in Loops \ {l} : k.part[i] = None
             THEN "complete" ELSE k.pc)
  /\ UNCHANGED <<initiate, session, multipart, received, object, other, failures>>

\* Seeded fault: a failed part ends its loop and nothing else.
LoopGivesUp(c, l) ==
  call' = [call EXCEPT ![c] = [@ EXCEPT
    !.part = [@ EXCEPT ![l] = None], !.stored = @ \ {l}]]

\* uploadPart throws: its loop ends and so does uploadFile, but not the loops
\* beside it.
LoopThrows(c, l) ==
  LET k == call[c] IN
  call' = [call EXCEPT ![c] = [k EXCEPT
    !.pc = "failed", !.part = [k.part EXCEPT ![l] = None], !.stored = k.stored \ {l}]]

PutRefused(c, l) ==
  /\ call[c].part[l] # None /\ l \notin call[c].stored
  /\ multipart = "closed"
  /\ LoopThrows(c, l)
  /\ UNCHANGED <<initiate, session, multipart, received, object, other, failures>>

\* The URL request or the PUT fails, or its answer is lost.
PutFails(c, l) ==
  /\ call[c].part[l] # None
  /\ failures > 0 /\ failures' = failures - 1
  /\ LoopThrows(c, l)
  /\ UNCHANGED <<initiate, session, multipart, received, object, other>>

\* The page is closed, the API process dies, or an answer to it is lost.
CallDies(c) ==
  /\ call[c].pc \in {"run", "complete", "mark", "done"}
  /\ failures > 0 /\ failures' = failures - 1
  /\ call' = [call EXCEPT ![c] = [@ EXCEPT
       !.pc = "failed", !.part = NoPart, !.stored = {}]]
  /\ UNCHANGED <<initiate, session, multipart, received, object, other>>

\* POST /uploads/{id}/complete.  The store assembles the parts it is told to,
\* if it has them; each has one content, so whoever sent it, the ETag is right.
Complete(c) ==
  /\ call[c].pc = "complete"
  /\ \/ /\ multipart = "open" /\ call[c].completed \subseteq received
        /\ object' = call[c].completed
        /\ multipart' = "closed" /\ received' = {}
        /\ call' = [call EXCEPT ![c].pc = "mark"]
     \/ /\ ~(multipart = "open" /\ call[c].completed \subseteq received)
        /\ Fail(c)
        /\ UNCHANGED <<multipart, received, object>>
  /\ UNCHANGED <<initiate, session, other, failures>>

MarkCompleted(c) ==
  /\ call[c].pc = "mark"
  /\ session' = "completed"
  /\ call' = [call EXCEPT ![c].pc = "done"]
  /\ UNCHANGED <<initiate, multipart, received, object, other, failures>>

\* submitJob: submit_job looks for the object, not at the session.
SubmitJob(c) ==
  /\ call[c].pc = "done"
  /\ call' = [call EXCEPT ![c].pc = IF object # {} THEN "submitted" ELSE "failed"]
  /\ UNCHANGED <<initiate, session, multipart, received, object, other, failures>>

-----------------------------------------------------------------------------
(* Other clients: POST /jobs, and POST /uploads/{id}/abort.                *)

\* A job on a key whose upload may be at any point.
SubmitKey(a) ==
  /\ other[a] = "idle" /\ initiate = "done"
  /\ other' = [other EXCEPT ![a] = IF object # {} THEN "submitted" ELSE "failed"]
  /\ UNCHANGED <<initiate, session, multipart, received, object, call, failures>>

\* Seeded fault: the store's refusal is ignored.
AbortAnyway(a) ==
  /\ other[a] = "idle" /\ initiate = "done"
  /\ other' = [other EXCEPT ![a] = "mark"]
  /\ multipart' = "closed" /\ received' = {}
  /\ UNCHANGED <<initiate, session, object, call, failures>>

Abort(a) ==
  /\ other[a] = "idle" /\ initiate = "done"
  /\ \/ /\ multipart = "open"
        /\ multipart' = "closed" /\ received' = {}
        /\ other' = [other EXCEPT ![a] = "mark"]
     \/ /\ multipart = "closed"
        /\ other' = [other EXCEPT ![a] = "failed"]
        /\ UNCHANGED <<multipart, received>>
  /\ UNCHANGED <<initiate, session, object, call, failures>>

MarkAborted(a) ==
  /\ other[a] = "mark"
  /\ session' = "aborted"
  /\ other' = [other EXCEPT ![a] = "done"]
  /\ UNCHANGED <<initiate, multipart, received, object, call, failures>>

AbortDies(a) ==
  /\ other[a] = "mark"
  /\ failures > 0 /\ failures' = failures - 1
  /\ other' = [other EXCEPT ![a] = "failed"]
  /\ UNCHANGED <<initiate, session, multipart, received, object, call>>

-----------------------------------------------------------------------------

\* What a call that has started does without a failure.
CallStep(c) ==
  \/ \E l \in Loops : PutPart(c, l) \/ PartAnswered(c, l) \/ PutRefused(c, l)
  \/ Complete(c) \/ MarkCompleted(c) \/ SubmitJob(c)

Next ==
  \/ CreateMultipart \/ CreateSession \/ InitiateDies
  \/ \E c \in Calls :
       \/ Start(c) \/ StartRefused(c) \/ CallStep(c) \/ CallDies(c)
       \/ \E l \in Loops : PutFails(c, l)
  \/ \E a \in Others : SubmitKey(a) \/ Abort(a) \/ MarkAborted(a) \/ AbortDies(a)

Spec == Init /\ [][Next]_vars

\* A call that has started goes on: every request is answered.  Nobody has to
\* start or to abort one.
LiveSpec == Spec /\ \A c \in Calls : WF_vars(CallStep(c))

-----------------------------------------------------------------------------
(* Properties.                                                             *)

Sending(k) == {k.part[l] : l \in Loops} \ {None}

\* The loops of a call share the cursor and the map of completed parts without
\* losing a part or sending one twice, what a call takes for completed is in
\* the store, and nothing but the whole file is ever assembled.
PartsAccounted ==
  /\ object \in {{}, Parts}
  /\ \A c \in Calls :
       /\ call[c].pc = "run" =>
            Parts \subseteq call[c].completed \cup call[c].remaining \cup Sending(call[c])
       /\ call[c].pc = "complete" => call[c].completed = Parts
       /\ multipart = "open" => call[c].completed \subseteq received
       /\ Sending(call[c]) \cap (call[c].completed \cup call[c].remaining) = {}
       /\ call[c].completed \cap call[c].remaining = {}
       /\ \A l, m \in Loops :
            call[c].part[l] = call[c].part[m] => l = m \/ call[c].part[l] = None

\* What SourceUpload calls source, as this module's variables give it.
SourceState ==
  IF object # {} THEN IF object = Parts THEN "whole" ELSE "partial"
  ELSE IF multipart = "closed" THEN "abandoned" ELSE "absent"

Source == INSTANCE SourceUpload WITH
  source <- SourceState,
  told <- IF session = "in_progress" THEN None ELSE session,
  users <- {c \in Calls : call[c].pc = "submitted"}
             \cup {a \in Others : other[a] = "submitted"},
  Clients <- Calls \cup Others

\* Uploading in parts is uploading at once: the object appears whole or the
\* upload is abandoned, once; the session tells the truth about it whichever of
\* complete and abort came first; and only the whole file gets a job.
SourceIsAtomic == Source!Spec

\* A call that has started returns or throws: no loop leaves it waiting.
CallEnds ==
  \A c \in Calls : call[c].pc # "idle" ~> call[c].pc \in {"submitted", "failed"}

\* An interrupted upload can be resumed and finished: once it was called more
\* often than anything failed, the file is there (or the upload was aborted).
ResumedIsFinished ==
  (\A c \in Calls : call[c].pc # "idle") ~> multipart = "closed"
=============================================================================
