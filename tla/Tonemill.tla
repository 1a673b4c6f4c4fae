------------------------------ MODULE Tonemill ------------------------------
(***************************************************************************)
(* The grading pipeline and the video library together: workers publish    *)
(* into the documents and the object store that library requests move and  *)
(* erase, and neither side takes a lock.                                   *)
(***************************************************************************)
EXTENDS JobPipeline, Sequences

CONSTANTS Handlers, Serves, Selectable, MaxHandlerDeaths

ASSUME SystemAssumption ==
  /\ Serves \in [Handlers -> SUBSET {"move", "delete_folder", "delete"}]
  /\ Selectable \subseteq VideoStatus
  /\ MaxHandlerDeaths \in Nat

VARIABLES folders, request, deaths

\* Every video of the library is graded here.
Library == INSTANCE VideoLibrary WITH Previewed <- Jobs

systemVars == <<vars, folders, request, deaths>>

SystemInit == Init /\ Library!NoRequests

\* What the library's requests leave alone, and what the pipeline does.
PipelineOnly == <<jobs, uploads, queue, submit, worker, dismiss, budget>>
LibraryOnly == <<folders, request, deaths>>

PipelineStep == Next /\ UNCHANGED LibraryOnly
LibraryStep == Library!Next /\ UNCHANGED PipelineOnly

SystemNext == PipelineStep \/ LibraryStep

\* The pipeline's fairness; a library request may stay where it is for ever.
SystemFairness ==
  /\ \A j \in Jobs :
       WF_systemVars(submit[j].pc # "new" /\ SubmitStep(j) /\ UNCHANGED LibraryOnly)
  /\ \A w \in Workers : WF_systemVars(WorkerStep(w) /\ UNCHANGED LibraryOnly)

SystemSpec == SystemInit /\ [][SystemNext]_systemVars /\ SystemFairness

-----------------------------------------------------------------------------
(* Properties.                                                             *)

\* A listed video can be downloaded and previewed unless a request is erasing
\* it or was broken off, also when a request read it before it was published.
ListedIsStored == Library!ListedIsStored

\* A deleted video never comes back: the worker's publication, the failure it
\* records and a move that is under way find no document, and make none.
DeletedStaysDeleted ==
  [][\A j \in Jobs :
       submit[j].pc \in {"send", "accepted"} /\ videos[j] = None
       => videos'[j] = None]_systemVars

\* A run whose video is deleted under it still ends, and its job with it.
SettlesWithoutVideo ==
  \A j \in Jobs : submit[j].pc = "accepted" ~>
    jobs[j] # None /\ jobs[j].status \in Dismissable
=============================================================================
