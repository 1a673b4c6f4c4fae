---------------------------- MODULE VideoLibrary ----------------------------
(***************************************************************************)
(* The library of graded videos: folders, moving videos between them,      *)
(* deleting a folder, deleting videos.  Each request is served by a        *)
(* handler that goes through the videos one by one and awaits MongoDB or   *)
(* the object store at every step, beside the others.                      *)
(*                                                                         *)
(* A folder's name is left out: a name already taken is refused by one     *)
(* atomic insert, which changes nothing.  list_all is one read: the first  *)
(* batch of a cursor, which holds the whole library up to 101 videos.      *)
(***************************************************************************)
EXTENDS Stores, Sequences

CONSTANTS
  Handlers,        \* requests served at the same time
  Serves,          \* the kinds of request each handler is given
  Selectable,      \* statuses of the videos a client names; the page lists "done"
  Previewed,       \* videos graded since there are previews; older ones have none
  MaxHandlerDeaths \* bound: requests that end half way

ASSUME LibraryAssumption ==
  /\ Serves \in [Handlers -> SUBSET {"move", "delete_folder", "delete"}]
  /\ Selectable \subseteq VideoStatus
  /\ Previewed \subseteq Jobs
  /\ None \notin Video
  /\ MaxHandlerDeaths \in Nat

VARIABLES
  videos,   \* MongoDB: the video documents
  objects,  \* the object store's result, thumbnail and clip keys
  folders,  \* MongoDB: the folders, by id; an id is drawn once
  request,  \* what each handler is doing
  deaths    \* requests that may still end half way

libraryVars == <<videos, objects, folders, request, deaths>>

FolderState == {"unused", "exists", "gone"}
RequestPc == {"idle", "move", "relocate", "list", "unsort", "drop",
              "delete", "erase"}

\* The videos still to do, the one in hand, and its objects still to delete.
Request == [ pc    : RequestPc,
             folder: Folders \cup {None},
             todo  : SUBSET Jobs,
             video : Jobs \cup {None},
             keys  : Seq(ObjectKey) ]

NoRequest == [ pc |-> "idle", folder |-> None, todo |-> {}, video |-> None,
               keys |-> <<>> ]

\* The documents, the folders and the requests in flight are well typed.
TypeOK ==
  /\ videos \in [Jobs -> Video \cup {None}]
  /\ objects \subseteq ObjectKey
  /\ folders \in [Folders -> FolderState]
  /\ request \in [Handlers -> Request]
  /\ deaths \in Nat

\* The objects a video document links to, in the order delete_videos takes.
Links(v, j) ==
  IF v.result_key = None THEN <<>>
  ELSE IF v.previews THEN <<v.result_key, ThumbnailKey(j), ClipsKey(j)>>
  ELSE <<v.result_key>>

LinkSet(v, j) == {Links(v, j)[i] : i \in DOMAIN Links(v, j)}

IsListed(v) == v # None /\ v.status = "done"

NoRequests ==
  /\ folders = [f \in Folders |-> "unused"]
  /\ request = [h \in Handlers |-> NoRequest]
  /\ deaths = MaxHandlerDeaths

\* What publication makes of the document v of job j.
Graded(v, j, profile) ==
  [v EXCEPT
    !.status = "done", !.profile = profile,
    !.display_name = MakeDisplayName(j, v.fingerprint, profile, 0),
    !.result_key = <<j, "result", 1>>, !.previews = j \in Previewed]

\* The videos of the jobs in done are graded, the others still at work; all of
\* them are unsorted.
LibraryOf(done) ==
  /\ \E file \in [Jobs -> Files], profile \in Implemented :
       /\ \A j, k \in Jobs : file[j] = file[k] => j = k
       /\ videos = [j \in Jobs |->
            LET v == NewVideo(file[j], profile, FALSE) IN
            IF j \in done THEN Graded(v, j, profile) ELSE v]
  /\ objects = UNION {LinkSet(videos[j], j) : j \in Jobs}
  /\ NoRequests

Init == LibraryOf(Jobs)

-----------------------------------------------------------------------------

\* A request that is over, answered or broken off by an exception.
Ended(h) == request' = [request EXCEPT ![h] = NoRequest]

\* A handler's loop goes on with the videos left, at "loop", or leaves it.
Continue(h, j, loop, after) ==
  LET left == request[h].todo \ {j} IN
  IF left = {} /\ after = "idle" THEN Ended(h)
  ELSE request' = [request EXCEPT ![h] = [@ EXCEPT
         !.pc = IF left = {} THEN after ELSE loop,
         !.todo = left, !.video = None, !.keys = <<>>]]

\* The videos a client may name in a request.
Named == {j \in Jobs : videos[j] # None /\ videos[j].status \in Selectable}

\* POST /folders
CreateFolder(f) ==
  /\ folders[f] = "unused"
  /\ folders' = [folders EXCEPT ![f] = "exists"]
  /\ UNCHANGED <<videos, objects, request, deaths>>

\* POST /videos/move: the target is looked up once, before the loop.
BeginMove(h, target, ids) ==
  /\ request[h].pc = "idle" /\ "move" \in Serves[h]
  /\ target # None => folders[target] = "exists"
  /\ request' = [request EXCEPT ![h] =
       [NoRequest EXCEPT !.pc = "move", !.folder = target, !.todo = ids]]
  /\ UNCHANGED <<videos, objects, folders, deaths>>

StartMove(h) ==
  \E target \in Folders \cup {None}, ids \in SUBSET Named \ {{}} :
    BeginMove(h, target, ids)

\* An unknown video is skipped, and so is one that is in the target already.
ReadMoved(h, j) ==
  /\ request[h].pc = "move" /\ j \in request[h].todo
  /\ IF videos[j] = None \/ videos[j].folder_id = request[h].folder
     THEN Continue(h, j, "move", "idle")
     ELSE request' = [request EXCEPT ![h] =
            [@ EXCEPT !.pc = "relocate", !.video = j]]
  /\ UNCHANGED <<videos, objects, folders, deaths>>

\* relocate_video: a $set of one field.
Relocate(h) ==
  LET j == request[h].video IN
  /\ request[h].pc = "relocate" /\ videos[j] # None
  /\ videos' = [videos EXCEPT ![j].folder_id = request[h].folder]
  /\ Continue(h, j, "move", "idle")
  /\ UNCHANGED <<objects, folders, deaths>>

\* DELETE /folders/{id}
StartDeleteFolder(h, f) ==
  /\ request[h].pc = "idle" /\ "delete_folder" \in Serves[h]
  /\ folders[f] = "exists"
  /\ request' = [request EXCEPT ![h] =
       [NoRequest EXCEPT !.pc = "list", !.folder = f]]
  /\ UNCHANGED <<videos, objects, folders, deaths>>

ListFolder(h) ==
  LET inside == {j \in Jobs : IsListed(videos[j])
                              /\ videos[j].folder_id = request[h].folder} IN
  /\ request[h].pc = "list"
  /\ request' = [request EXCEPT ![h] = [@ EXCEPT
       !.todo = inside, !.pc = IF inside = {} THEN "drop" ELSE "unsort"]]
  /\ UNCHANGED <<videos, objects, folders, deaths>>

Unsort(h, j) ==
  /\ request[h].pc = "unsort" /\ j \in request[h].todo /\ videos[j] # None
  /\ videos' = [videos EXCEPT ![j].folder_id = None]
  /\ Continue(h, j, "unsort", "drop")
  /\ UNCHANGED <<objects, folders, deaths>>

\* FolderNotFoundError, when another request was faster, changes nothing.
DropFolder(h) ==
  /\ request[h].pc = "drop"
  /\ folders' = [folders EXCEPT ![request[h].folder] = "gone"]
  /\ Ended(h)
  /\ UNCHANGED <<videos, objects, deaths>>

\* POST /videos/delete
BeginDelete(h, ids) ==
  /\ request[h].pc = "idle" /\ "delete" \in Serves[h]
  /\ request' = [request EXCEPT ![h] =
       [NoRequest EXCEPT !.pc = "delete", !.todo = ids]]
  /\ UNCHANGED <<videos, objects, folders, deaths>>

StartDelete(h) == \E ids \in SUBSET Named \ {{}} : BeginDelete(h, ids)

ReadDeleted(h, j) ==
  /\ request[h].pc = "delete" /\ j \in request[h].todo
  /\ IF videos[j] = None THEN Continue(h, j, "delete", "idle")
     ELSE request' = [request EXCEPT ![h] = [@ EXCEPT
            !.pc = "erase", !.video = j, !.keys = Links(videos[j], j)]]
  /\ UNCHANGED <<videos, objects, folders, deaths>>

\* Deleting a key that is missing already is no error.
EraseObject(h) ==
  /\ request[h].pc = "erase" /\ request[h].keys # <<>>
  /\ objects' = objects \ {Head(request[h].keys)}
  /\ request' = [request EXCEPT ![h].keys = Tail(request[h].keys)]
  /\ UNCHANGED <<videos, folders, deaths>>

\* Seeded fault: the loop forgets the document.
EraseObjectsOnly(h) ==
  /\ request[h].pc = "erase" /\ request[h].keys = <<>>
  /\ Continue(h, request[h].video, "delete", "idle")
  /\ UNCHANGED <<videos, objects, folders, deaths>>

\* Seeded fault: the document goes first.
EraseVideoFirst(h) ==
  LET j == request[h].video IN
  /\ request[h].pc = "erase" /\ videos[j] # None
  /\ videos' = [videos EXCEPT ![j] = None]
  /\ Continue(h, j, "delete", "idle")
  /\ UNCHANGED <<objects, folders, deaths>>

\* The document goes last.
EraseVideo(h) ==
  LET j == request[h].video IN
  /\ request[h].pc = "erase" /\ request[h].keys = <<>> /\ videos[j] # None
  /\ videos' = [videos EXCEPT ![j] = None]
  /\ Continue(h, j, "delete", "idle")
  /\ UNCHANGED <<objects, folders, deaths>>

\* VideoNotFoundError: another request deleted the document since it was read
\* or listed.  Nothing catches it, and the request's other videos are left.
VideoNotFound(h) ==
  /\ \/ request[h].pc = "relocate" /\ videos[request[h].video] = None
     \/ /\ request[h].pc = "erase" /\ request[h].keys = <<>>
        /\ videos[request[h].video] = None
     \/ request[h].pc = "unsort" /\ \E j \in request[h].todo : videos[j] = None
  /\ Ended(h)
  /\ UNCHANGED <<videos, objects, folders, deaths>>

\* A store call raises, or the API process is killed, half way.
HandlerDies(h) ==
  /\ request[h].pc # "idle"
  /\ deaths > 0
  /\ deaths' = deaths - 1
  /\ Ended(h)
  /\ UNCHANGED <<videos, objects, folders>>

HandlerStep(h) ==
  \/ Relocate(h) \/ ListFolder(h) \/ DropFolder(h)
  \/ EraseObject(h) \/ EraseVideo(h)
  \/ \E j \in Jobs : ReadMoved(h, j) \/ Unsort(h, j) \/ ReadDeleted(h, j)

Next ==
  \/ \E f \in Folders : CreateFolder(f)
  \/ \E h \in Handlers :
       \/ StartMove(h) \/ StartDelete(h)
       \/ \E f \in Folders : StartDeleteFolder(h, f)
       \/ HandlerStep(h) \/ VideoNotFound(h) \/ HandlerDies(h)

Spec == Init /\ [][Next]_libraryVars

-----------------------------------------------------------------------------
(* Properties.                                                             *)

\* A listed video is in a folder that exists, or unsorted: otherwise the page,
\* which shows unsorted videos and the videos of existing folders, hides it.
\* Two requests at once break it; one at a time keeps it, however it ends.
NoDanglingFolder ==
  \A j \in Jobs : IsListed(videos[j]) /\ videos[j].folder_id # None =>
    folders[videos[j].folder_id] = "exists"

\* When the document of a listed video goes, the objects it links to are gone.
DocumentGoesLast ==
  [][\A j \in Jobs : IsListed(videos[j]) /\ videos'[j] = None =>
       LinkSet(videos[j], j) \cap objects = {}]_libraryVars

\* A listed video can be downloaded and previewed, unless a request is erasing
\* it or one has been broken off half way.
ListedIsStored ==
  \A j \in Jobs : IsListed(videos[j]) =>
    \/ LinkSet(videos[j], j) \subseteq objects
    \/ \E h \in Handlers : request[h].pc = "erase" /\ request[h].video = j
    \/ deaths < MaxHandlerDeaths
=============================================================================
