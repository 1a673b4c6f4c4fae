---------------------------- MODULE LibraryPage ----------------------------
(***************************************************************************)
(* The library page beside the library API: the copy of videos and folders *)
(* that library.svelte.ts keeps, the selection, and the calls the page     *)
(* makes.  load() fills the copy from two requests sent together; every    *)
(* other call is reflected in the copy when its answer arrives, and no     *)
(* call reads the copy anew.                                               *)
(*                                                                         *)
(* The store outlives the page, and every visit of the page begins a load: *)
(* loads overlap, and are answered in any order.  Videos are published     *)
(* meanwhile; only a load that reads them after that shows them.           *)
(*                                                                         *)
(* The page's calls are served by the handlers in Mine, the other clients' *)
(* by the rest.  Sending a call and the handler's first lookup are one     *)
(* step; its answer is a step of its own.  Which sections are expanded and *)
(* what a card shows beside its section are left out.                      *)
(***************************************************************************)
EXTENDS VideoLibrary

CONSTANTS
  Mine,     \* the handlers that serve this page: as many calls at a time
  Absent,   \* "the copy does not list this video"
  Unread,   \* a list that load() has not received
  Visits    \* bound: the visits of the page, a load() each

Copy == [Jobs -> Folders \cup {None, Absent}]
Sections == [Folders -> Nat]

CallKind == {"move", "delete", "delete_folder", "create_folder"}

ASSUME PageAssumption ==
  /\ Mine \subseteq Handlers
  /\ Absent \notin Folders \cup {None}
  /\ None \notin CallKind
  /\ Unread \notin Copy \cup Sections
  /\ Selectable \subseteq {"done"} \* a client names what its page lists

VARIABLES
  shown,    \* this.videos: the folder_id the copy gives each video
  sections, \* this.folders: how often the copy lists each folder
  selected, \* this.selectedVideoIds
  call,     \* what each of the page's calls has asked for, and its answer
  load,     \* the load() of each visit
  stale,    \* history: nothing read yet, or a call failed or met a load since
  unseen,   \* history: the videos published since the copy's list was read
  overtaken \* history: the copy's list was read before another was shown

pageVars == <<shown, sections, selected, call, load, stale, unseen, overtaken>>
allVars == <<libraryVars, pageVars>>

Call == [ answer: {"none", "awaited", "ok", "error"},
          kind  : CallKind \cup {None},
          ids   : SUBSET Jobs,
          folder: Folders \cup {None} ]

NoCall == [ answer |-> "none", kind |-> None, ids |-> {}, folder |-> None ]

\* What a load() has received, and three histories: no call of the page was
\* pending at any time since it began; the videos published, and whether another
\* load was answered, since GET /videos was.
Load == [ pc       : {"due", "reading", "over"},
          videos   : Copy \cup {Unread},
          sections : Sections \cup {Unread},
          clean    : BOOLEAN,
          unseen   : SUBSET Jobs,
          overtaken: BOOLEAN ]

NoLoad == [ pc |-> "due", videos |-> Unread, sections |-> Unread,
            clean |-> FALSE, unseen |-> {}, overtaken |-> FALSE ]

\* The library, the copy, the selection and the calls are well typed.
PageTypeOK ==
  /\ TypeOK
  /\ shown \in Copy
  /\ sections \in Sections
  /\ selected \subseteq Jobs
  /\ call \in [Mine -> Call]
  /\ load \in [Visits -> Load]
  /\ stale \in BOOLEAN
  /\ unseen \subseteq Jobs
  /\ overtaken \in BOOLEAN

PageInit ==
  /\ \E done \in SUBSET Jobs : LibraryOf(done)
  /\ shown = [j \in Jobs |-> Absent]
  /\ sections = [f \in Folders |-> 0]
  /\ selected = {}
  /\ call = [h \in Mine |-> NoCall]
  /\ load = [v \in Visits |-> NoLoad]
  /\ stale = TRUE
  /\ unseen = {}
  /\ overtaken = FALSE

\* Unsorted videos have a place of their own, the others their folder's.
Visible(j) == shown[j] # Absent /\ (shown[j] # None => sections[shown[j]] > 0)

NoCalls == \A h \in Mine : call[h] = NoCall

-----------------------------------------------------------------------------
(* Opening the page.                                                       *)

\* Seeded fault: the copy is emptied before the answers are awaited.
OpenEmptied(v) ==
  /\ load[v].pc = "due"
  /\ load' = [load EXCEPT ![v] = [NoLoad EXCEPT !.pc = "reading", !.clean = NoCalls]]
  /\ shown' = [j \in Jobs |-> Absent]
  /\ UNCHANGED <<libraryVars, sections, selected, call, stale, unseen, overtaken>>

\* onMount: the copy read last is shown still, and a load of an earlier visit
\* goes on.
Open(v) ==
  /\ load[v].pc = "due"
  /\ load' = [load EXCEPT ![v] = [NoLoad EXCEPT !.pc = "reading", !.clean = NoCalls]]
  /\ UNCHANGED <<libraryVars, shown, sections, selected, call, stale, unseen, overtaken>>

\* GET /videos
ReadVideos(v) ==
  /\ load[v].pc = "reading" /\ load[v].videos = Unread
  /\ load' = [load EXCEPT ![v].videos =
       [j \in Jobs |-> IF IsListed(videos[j]) THEN videos[j].folder_id ELSE Absent]]
  /\ UNCHANGED <<libraryVars, shown, sections, selected, call, stale, unseen, overtaken>>

\* GET /folders
ReadFolders(v) ==
  /\ load[v].pc = "reading" /\ load[v].sections = Unread
  /\ load' = [load EXCEPT ![v].sections =
       [f \in Folders |-> IF folders[f] = "exists" THEN 1 ELSE 0]]
  /\ UNCHANGED <<libraryVars, shown, sections, selected, call, stale, unseen, overtaken>>

\* Promise.all: both lists replace the copy together, whichever visit they are
\* of; the selection stays.
Loaded(v) ==
  /\ load[v].videos # Unread /\ load[v].sections # Unread
  /\ shown' = load[v].videos
  /\ sections' = load[v].sections
  /\ stale' = ~load[v].clean
  /\ unseen' = load[v].unseen
  /\ overtaken' = load[v].overtaken
  /\ load' = [w \in Visits |->
       IF w = v THEN [NoLoad EXCEPT !.pc = "over"]
       ELSE [load[w] EXCEPT !.overtaken = load[w].videos # Unread]]
  /\ UNCHANGED <<libraryVars, selected, call>>

\* Either request is refused or lost: the copy stays as it is.
LoadFails(v) ==
  /\ load[v].pc = "reading"
  /\ load' = [load EXCEPT ![v] = [NoLoad EXCEPT !.pc = "over"]]
  /\ UNCHANGED <<libraryVars, shown, sections, selected, call, stale, unseen, overtaken>>

-----------------------------------------------------------------------------
(* What the user does.                                                     *)

Toggle(j) ==
  /\ Visible(j)
  /\ selected' = IF j \in selected THEN selected \ {j} ELSE selected \cup {j}
  /\ UNCHANGED <<libraryVars, shown, sections, call, load, stale, unseen, overtaken>>

ClearSelection ==
  /\ selected # {}
  /\ selected' = {}
  /\ UNCHANGED <<libraryVars, shown, sections, call, load, stale, unseen, overtaken>>

\* A call leaves the page; one that meets a load may be undone by it.
Send(h, kind, ids, folder, answer) ==
  /\ call[h] = NoCall
  /\ call' = [call EXCEPT ![h] =
       [answer |-> answer, kind |-> kind, ids |-> ids, folder |-> folder]]
  /\ load' = [v \in Visits |-> [load[v] EXCEPT !.clean = FALSE]]
  /\ UNCHANGED <<shown, sections, selected, stale, unseen, overtaken>>

\* handleDragStart and the drop: the whole selection, if the video is part of it.
Dragged(j) == IF j \in selected THEN selected ELSE {j}

Drag(h, j, target) ==
  /\ Visible(j)
  /\ target # None => sections[target] > 0
  /\ BeginMove(h, target, Dragged(j))
  /\ Send(h, "move", Dragged(j), target, "awaited")

\* The folder is gone from the server: 404, and nothing is moved.
DragToGone(h, j, target) ==
  /\ Visible(j)
  /\ request[h].pc = "idle" /\ "move" \in Serves[h]
  /\ sections[target] > 0 /\ folders[target] # "exists"
  /\ Send(h, "move", Dragged(j), target, "error")
  /\ UNCHANGED libraryVars

\* handleConfirmDelete
DeleteSelected(h) ==
  /\ selected # {}
  /\ BeginDelete(h, selected)
  /\ Send(h, "delete", selected, None, "awaited")

DeleteFolder(h, f) ==
  /\ sections[f] > 0
  /\ StartDeleteFolder(h, f)
  /\ Send(h, "delete_folder", {}, f, "awaited")

DeleteGoneFolder(h, f) ==
  /\ sections[f] > 0 /\ folders[f] # "exists"
  /\ request[h].pc = "idle" /\ "delete_folder" \in Serves[h]
  /\ Send(h, "delete_folder", {}, f, "error")
  /\ UNCHANGED libraryVars

\* handleCreateFolder: one insert, answered at once.
NewFolder(h, f) ==
  /\ request[h].pc = "idle"
  /\ CreateFolder(f)
  /\ Send(h, "create_folder", {}, f, "ok")

-----------------------------------------------------------------------------
(* What the server does, and the answers.                                  *)

\* The last step succeeds, but for a folder another request has dropped: 404.
Outcome(h) ==
  IF request[h].pc = "drop" /\ folders[request[h].folder] # "exists"
    THEN "error" ELSE "ok"

\* A step of the page's request; its last one answers the call.
ServeMine(h) ==
  /\ call[h].answer = "awaited"
  /\ HandlerStep(h)
  /\ call' = IF request'[h].pc # "idle" THEN call
             ELSE [call EXCEPT ![h].answer = Outcome(h)]
  /\ UNCHANGED <<shown, sections, selected, load, stale, unseen, overtaken>>

MineFails(h) ==
  /\ call[h].answer = "awaited"
  /\ VideoNotFound(h) \/ HandlerDies(h)
  /\ call' = [call EXCEPT ![h].answer = "error"]
  /\ UNCHANGED <<shown, sections, selected, load, stale, unseen, overtaken>>

Answered(h, kind) ==
  /\ call[h].answer = "ok" /\ call[h].kind = kind
  /\ call' = [call EXCEPT ![h] = NoCall]
  /\ UNCHANGED <<libraryVars, load, stale, unseen, overtaken>>

\* Seeded fault: the ids are put where the folder belongs.
MovedSwapped(h) ==
  /\ Answered(h, "move")
  /\ shown' = [j \in Jobs |-> IF j \in call[h].ids THEN call[h].ids ELSE shown[j]]
  /\ selected' = {}
  /\ UNCHANGED sections

\* moveVideos after its await: whatever is selected by now is deselected.
Moved(h) ==
  /\ Answered(h, "move")
  /\ shown' = [j \in Jobs |->
       IF j \in call[h].ids /\ shown[j] # Absent THEN call[h].folder ELSE shown[j]]
  /\ selected' = {}
  /\ UNCHANGED sections

\* deleteVideos after its await.
Deleted(h) ==
  /\ Answered(h, "delete")
  /\ shown' = [j \in Jobs |-> IF j \in call[h].ids THEN Absent ELSE shown[j]]
  /\ selected' = {}
  /\ UNCHANGED sections

\* Seeded fault: the folder goes from the copy, its videos stay in it.
FolderDeletedOnly(h) ==
  /\ Answered(h, "delete_folder")
  /\ sections' = [sections EXCEPT ![call[h].folder] = 0]
  /\ UNCHANGED <<shown, selected>>

\* deleteFolder after its await: the folder's videos revert to unsorted.
FolderDeleted(h) ==
  /\ Answered(h, "delete_folder")
  /\ sections' = [sections EXCEPT ![call[h].folder] = 0]
  /\ shown' = [j \in Jobs |->
       IF shown[j] = call[h].folder THEN None ELSE shown[j]]
  /\ UNCHANGED selected

\* createFolder after its await: a push, whether or not a load listed it too.
FolderCreated(h) ==
  /\ Answered(h, "create_folder")
  /\ sections' = [sections EXCEPT ![call[h].folder] = @ + 1]
  /\ UNCHANGED <<shown, selected>>

\* request() throws: an error answer, or one that is lost after the deed.
Rejected(h) ==
  /\ call[h].answer \in {"ok", "error"}
  /\ call' = [call EXCEPT ![h] = NoCall]
  /\ stale' = TRUE
  /\ UNCHANGED <<libraryVars, shown, sections, selected, load, unseen, overtaken>>

-----------------------------------------------------------------------------

UserStep ==
  \/ ClearSelection
  \/ \E v \in Visits : Open(v)
  \/ \E j \in Jobs : Toggle(j)
  \/ \E h \in Mine :
       \/ DeleteSelected(h)
       \/ \E j \in Jobs, target \in Folders \cup {None} : Drag(h, j, target)
       \/ \E j \in Jobs, target \in Folders : DragToGone(h, j, target)
       \/ \E f \in Folders :
            DeleteFolder(h, f) \/ DeleteGoneFolder(h, f) \/ NewFolder(h, f)

AnswerStep ==
  \/ \E v \in Visits : ReadVideos(v) \/ ReadFolders(v) \/ Loaded(v) \/ LoadFails(v)
  \/ \E h \in Mine :
       \/ ServeMine(h) \/ MineFails(h)
       \/ Moved(h) \/ Deleted(h) \/ FolderDeleted(h) \/ FolderCreated(h)
       \/ Rejected(h)

\* The other clients delete videos, one in a request, and create folders.
OthersStep ==
  /\ \/ \E f \in Folders : CreateFolder(f)
     \/ \E h \in Handlers \ Mine, j \in Named : BeginDelete(h, {j})
     \/ \E h \in Handlers \ Mine :
          HandlerStep(h) \/ VideoNotFound(h) \/ HandlerDies(h)
  /\ UNCHANGED pageVars

\* A worker ends with a video: its objects are stored, its document published.
Publish(j) ==
  /\ videos[j] # None /\ videos[j].status = "in_progress"
  /\ \E profile \in Implemented : videos' = [videos EXCEPT ![j] = Graded(@, j, profile)]
  /\ objects' = objects \cup LinkSet(videos'[j], j)
  /\ unseen' = unseen \cup {j}
  /\ load' = [v \in Visits |->
       IF load[v].videos = Unread THEN load[v]
       ELSE [load[v] EXCEPT !.unseen = @ \cup {j}]]
  /\ UNCHANGED <<folders, request, deaths, shown, sections, selected, call, stale, overtaken>>

PageNext == UserStep \/ AnswerStep \/ OthersStep \/ \E j \in Jobs : Publish(j)

PageSpec == PageInit /\ [][PageNext]_allVars

-----------------------------------------------------------------------------
(* Properties.                                                             *)

\* When the last answer is in, the copy puts every listed video where its
\* document is, in a section that is there, once, but for the videos published
\* since the list it shows was read; and a section is a folder.  Reflecting
\* each answer is enough for that, whatever other clients delete and in
\* whatever order the loads of several visits are answered, until a call fails
\* or a load and a call of the page overlap.
CopyIsTrue ==
  NoCalls /\ ~stale =>
    /\ \A j \in Jobs : IsListed(videos[j]) /\ j \notin unseen =>
         shown[j] = videos[j].folder_id /\ Visible(j)
    /\ \A f \in Folders : sections[f] > 0 =>
         sections[f] = 1 /\ folders[f] = "exists"

\* A deletion of the selection takes no video of the library that the page has
\* stopped listing, with one exception: the copy's list was read before the
\* video was published, and answered after a list that another visit read
\* later.  Nothing else hides a selected video, though no load and no failed
\* call touches the selection, and whatever overlaps.
SelectionIsListed ==
  \A j \in selected :
    IsListed(videos[j]) /\ shown[j] = Absent => overtaken /\ j \in unseen
=============================================================================
