------------------------- MODULE LibraryPage_proofs -------------------------
(***************************************************************************)
(* What holds of the library and its page for any number of videos,        *)
(* folders and clients: the types, that a video's document is the last of  *)
(* it to go, that the selection stays within the copy, and, with one call  *)
(* of the page's at a time, that the copy is true.                         *)
(*                                                                         *)
(* LibraryMove is any step of any client's request, of the page's or not,  *)
(* and MoveOf(B) one that names no videos but those in B.  The library's   *)
(* own facts are proved of it once; VideoLibrary's steps and the page's,   *)
(* but for publications, are both instances of it.                         *)
(***************************************************************************)
EXTENDS LibraryPage, TLAPS

MoveOf(B) ==
  \/ \E f \in Folders : CreateFolder(f)
  \/ \E h \in Handlers, target \in Folders \cup {None}, ids \in SUBSET B :
       BeginMove(h, target, ids)
  \/ \E h \in Handlers, ids \in SUBSET B : BeginDelete(h, ids)
  \/ \E h \in Handlers, f \in Folders : StartDeleteFolder(h, f)
  \/ \E h \in Handlers : HandlerStep(h) \/ VideoNotFound(h) \/ HandlerDies(h)
  \/ UNCHANGED libraryVars

LibraryMove == MoveOf(Jobs)

-----------------------------------------------------------------------------
(* Types.                                                                  *)

LEMMA NoRequestIsRequest == NoRequest \in Request
<1>1. <<>> \in Seq(ObjectKey)
  OBVIOUS
<1> QED
  BY <1>1 DEF NoRequest, Request, RequestPc

LEMMA ContinueIsTyped ==
  ASSUME request \in [Handlers -> Request], NEW h \in Handlers, NEW j,
         NEW loop \in RequestPc, NEW after \in RequestPc,
         Continue(h, j, loop, after)
  PROVE  request' \in [Handlers -> Request]
<1>1. request[h] \in Request /\ <<>> \in Seq(ObjectKey)
  OBVIOUS
<1>2. \A pc \in RequestPc :
        [request[h] EXCEPT !.pc = pc, !.todo = request[h].todo \ {j},
                           !.video = None, !.keys = <<>>] \in Request
  BY <1>1 DEF Request
<1> QED
  BY <1>2, NoRequestIsRequest DEF Continue, Ended

LEMMA LinksAreKeys ==
  ASSUME NEW v \in Video, NEW j \in Jobs
  PROVE  Links(v, j) \in Seq(ObjectKey)
<1>1. ThumbnailKey(j) \in ObjectKey /\ ClipsKey(j) \in ObjectKey
  BY DEF ThumbnailKey, ClipsKey, ObjectKey
<1>2. v.result_key # None => v.result_key \in ObjectKey
  BY DEF Video, ObjectKey
<1>3. CASE v.result_key = None
  BY <1>3 DEF Links
<1>4. CASE v.result_key # None /\ v.previews
  BY <1>1, <1>2, <1>4 DEF Links
<1>5. CASE v.result_key # None /\ ~v.previews
  BY <1>2, <1>5 DEF Links
<1> QED
  BY <1>3, <1>4, <1>5

LEMMA GradedIsVideo ==
  ASSUME NEW j \in Jobs, NEW v \in Video, NEW profile \in Implemented
  PROVE  /\ Graded(v, j, profile) \in Video
         /\ IsListed(Graded(v, j, profile))
         /\ Graded(v, j, profile).folder_id = v.folder_id
<1>1. MakeDisplayName(j, v.fingerprint, profile, 0) \in DisplayName
  BY DEF MakeDisplayName, DisplayName, Video
<1>2. <<j, "result", 1>> \in ResultKey
  BY DEF ResultKey
<1>3. (j \in Previewed) \in BOOLEAN
  OBVIOUS
<1>4. Graded(v, j, profile) \in Video
  BY <1>1, <1>2, <1>3 DEF Graded, Video, VideoStatus
<1>5. Graded(v, j, profile).status = "done" /\ Graded(v, j, profile).folder_id = v.folder_id
  BY DEF Graded, Video
<1> QED
  BY <1>4, <1>5, LibraryAssumption DEF IsListed

\* A library to begin with: what is not listed is in progress, and unsorted.
LEMMA LibraryOfVideos ==
  ASSUME NEW done \in SUBSET Jobs, LibraryOf(done)
  PROVE  /\ videos \in [Jobs -> Video]
         /\ \A j \in Jobs : videos[j].folder_id = None
<1>1. PICK file \in [Jobs -> Files], profile \in Implemented :
        videos = [j \in Jobs |->
          LET v == NewVideo(file[j], profile, FALSE) IN
          IF j \in done THEN Graded(v, j, profile) ELSE v]
  BY DEF LibraryOf
<1> DEFINE new(j) == NewVideo(file[j], profile, FALSE)
<1>2. \A j \in Jobs : new(j) \in Video /\ new(j).folder_id = None
  BY DEF NewVideo, Video, VideoStatus
<1> HIDE DEF new
<1>3. videos = [j \in Jobs |-> IF j \in done THEN Graded(new(j), j, profile) ELSE new(j)]
  BY <1>1 DEF new
<1> QED
  BY <1>2, <1>3, GradedIsVideo

LEMMA LibraryOfTypeOK ==
  ASSUME NEW done \in SUBSET Jobs, LibraryOf(done)
  PROVE  TypeOK
<1>2. videos \in [Jobs -> Video]
  BY LibraryOfVideos
<1>3. objects \subseteq ObjectKey
  <2> SUFFICES ASSUME NEW j \in Jobs PROVE LinkSet(videos[j], j) \subseteq ObjectKey
    BY DEF LibraryOf
  <2>1. Links(videos[j], j) \in Seq(ObjectKey)
    BY <1>2, LinksAreKeys
  <2> QED
    BY <2>1 DEF LinkSet
<1>4. /\ folders \in [Folders -> FolderState]
      /\ request \in [Handlers -> Request]
      /\ deaths \in Nat
  BY NoRequestIsRequest, LibraryAssumption DEF LibraryOf, NoRequests, FolderState
<1> QED
  BY <1>2, <1>3, <1>4 DEF TypeOK

LEMMA InitTypeOK == Init => TypeOK
BY LibraryOfTypeOK DEF Init

\* A video's folder is rewritten: by a move, or to unsorted.
LEMMA RefoldedIsTyped ==
  ASSUME videos \in [Jobs -> Video \cup {None}], NEW j, videos[j] # None,
         NEW f \in Folders \cup {None}
  PROVE  [videos EXCEPT ![j].folder_id = f] \in [Jobs -> Video \cup {None}]
<1>1. j \in Jobs => [videos[j] EXCEPT !.folder_id = f] \in Video
  BY DEF Video
<1> QED
  BY <1>1

\* One step per action; the request is what most of them disturb.
LEMMA LibraryTypeStep ==
  ASSUME TypeOK, LibraryMove
  PROVE  TypeOK'
<1> USE DEF TypeOK
<1>1. ASSUME NEW f \in Folders, CreateFolder(f) PROVE TypeOK'
  BY <1>1 DEF CreateFolder, FolderState
<1>2. ASSUME NEW h \in Handlers, NEW target \in Folders \cup {None},
             NEW ids \in SUBSET Jobs, BeginMove(h, target, ids)
      PROVE  TypeOK'
  <2>1. [NoRequest EXCEPT !.pc = "move", !.folder = target, !.todo = ids] \in Request
    BY NoRequestIsRequest DEF Request, RequestPc
  <2> QED
    BY <1>2, <2>1 DEF BeginMove
<1>3. ASSUME NEW h \in Handlers, NEW ids \in SUBSET Jobs, BeginDelete(h, ids)
      PROVE  TypeOK'
  <2>1. [NoRequest EXCEPT !.pc = "delete", !.todo = ids] \in Request
    BY NoRequestIsRequest DEF Request, RequestPc
  <2> QED
    BY <1>3, <2>1 DEF BeginDelete
<1>4. ASSUME NEW h \in Handlers, NEW f \in Folders, StartDeleteFolder(h, f)
      PROVE  TypeOK'
  <2>1. [NoRequest EXCEPT !.pc = "list", !.folder = f] \in Request
    BY NoRequestIsRequest DEF Request, RequestPc
  <2> QED
    BY <1>4, <2>1 DEF StartDeleteFolder
<1>5. ASSUME NEW h \in Handlers, Relocate(h) PROVE TypeOK'
  <2>1. request[h].folder \in Folders \cup {None}
    BY DEF Request
  <2>2. videos' \in [Jobs -> Video \cup {None}]
    BY <1>5, <2>1, RefoldedIsTyped DEF Relocate
  <2>3. request' \in [Handlers -> Request]
    BY <1>5, ContinueIsTyped DEF Relocate, RequestPc
  <2> QED
    BY <1>5, <2>2, <2>3 DEF Relocate
<1>6. ASSUME NEW h \in Handlers, ListFolder(h) PROVE TypeOK'
  <2> DEFINE inside == {j \in Jobs : IsListed(videos[j])
                                     /\ videos[j].folder_id = request[h].folder}
  <2>1. [request[h] EXCEPT !.todo = inside,
           !.pc = IF inside = {} THEN "drop" ELSE "unsort"] \in Request
    BY DEF Request, RequestPc
  <2> QED
    BY <1>6, <2>1 DEF ListFolder
<1>7. ASSUME NEW h \in Handlers, DropFolder(h) PROVE TypeOK'
  BY <1>7, NoRequestIsRequest DEF DropFolder, Ended, FolderState
<1>8. ASSUME NEW h \in Handlers, EraseObject(h) PROVE TypeOK'
  <2>1. request[h] \in Request /\ request[h].keys \in Seq(ObjectKey)
    BY DEF Request
  <2>2. Tail(request[h].keys) \in Seq(ObjectKey)
    BY <1>8, <2>1 DEF EraseObject
  <2>3. [request[h] EXCEPT !.keys = Tail(request[h].keys)] \in Request
    BY <2>1, <2>2 DEF Request
  <2> QED
    BY <1>8, <2>3 DEF EraseObject
<1>9. ASSUME NEW h \in Handlers, EraseVideo(h) PROVE TypeOK'
  <2>1. request' \in [Handlers -> Request]
    BY <1>9, ContinueIsTyped DEF EraseVideo, RequestPc
  <2> QED
    BY <1>9, <2>1 DEF EraseVideo
<1>10. ASSUME NEW h \in Handlers, NEW j \in Jobs, ReadMoved(h, j) PROVE TypeOK'
  <2>1. [request[h] EXCEPT !.pc = "relocate", !.video = j] \in Request
    BY DEF Request, RequestPc
  <2>2. CASE Continue(h, j, "move", "idle")
    BY <1>10, <2>2, ContinueIsTyped DEF ReadMoved, RequestPc
  <2> QED
    BY <1>10, <2>1, <2>2 DEF ReadMoved
<1>11. ASSUME NEW h \in Handlers, NEW j \in Jobs, Unsort(h, j) PROVE TypeOK'
  <2>1. videos' \in [Jobs -> Video \cup {None}]
    BY <1>11, RefoldedIsTyped DEF Unsort
  <2>2. request' \in [Handlers -> Request]
    BY <1>11, ContinueIsTyped DEF Unsort, RequestPc
  <2> QED
    BY <1>11, <2>1, <2>2 DEF Unsort
<1>12. ASSUME NEW h \in Handlers, NEW j \in Jobs, ReadDeleted(h, j) PROVE TypeOK'
  <2>1. CASE Continue(h, j, "delete", "idle")
    BY <1>12, <2>1, ContinueIsTyped DEF ReadDeleted, RequestPc
  <2>2. CASE videos[j] # None
    <3>1. Links(videos[j], j) \in Seq(ObjectKey)
      BY <2>2, LinksAreKeys
    <3>2. [request[h] EXCEPT !.pc = "erase", !.video = j,
             !.keys = Links(videos[j], j)] \in Request
      BY <3>1 DEF Request, RequestPc
    <3> QED
      BY <1>12, <2>2, <3>2 DEF ReadDeleted
  <2> QED
    BY <1>12, <2>1, <2>2 DEF ReadDeleted
<1>13. ASSUME NEW h \in Handlers, VideoNotFound(h) PROVE TypeOK'
  BY <1>13, NoRequestIsRequest DEF VideoNotFound, Ended
<1>14. ASSUME NEW h \in Handlers, HandlerDies(h) PROVE TypeOK'
  BY <1>14, NoRequestIsRequest DEF HandlerDies, Ended
<1>15. CASE UNCHANGED libraryVars
  BY <1>15 DEF libraryVars
<1> QED
  BY <1>1, <1>2, <1>3, <1>4, <1>5, <1>6, <1>7, <1>8, <1>9, <1>10, <1>11, <1>12,
     <1>13, <1>14, <1>15 DEF LibraryMove, MoveOf, HandlerStep

\* Every step of VideoLibrary is a library move ...
LEMMA NextIsLibraryMove == [Next]_libraryVars => LibraryMove
<1>1. ASSUME NEW h \in Handlers, StartMove(h) \/ StartDelete(h) PROVE LibraryMove
  <2>1. Named \subseteq Jobs
    BY DEF Named
  <2> QED
    BY <1>1, <2>1 DEF StartMove, StartDelete, LibraryMove, MoveOf
<1> QED
  BY <1>1 DEF Next, LibraryMove, MoveOf

\* ... and so is what any step beside the page does to the library, but for a
\* publication; the videos named are selected, shown, or another client's.
LEMMA PageMoves ==
  ASSUME PageTypeOK, [PageNext]_allVars, NEW B \in SUBSET Jobs,
         selected \subseteq B, Named \subseteq B,
         \A j \in Jobs : shown[j] # Absent => j \in B
  PROVE  MoveOf(B) \/ \E j \in Jobs : Publish(j)
<1> USE PageAssumption DEF PageTypeOK
<1>1. CASE UserStep
  <2>1. ASSUME NEW h \in Mine, NEW j \in Jobs, NEW target \in Folders \cup {None},
               Drag(h, j, target)
        PROVE  MoveOf(B)
    <3>1. Dragged(j) \in SUBSET B
      BY <2>1 DEF Dragged, Drag, Visible
    <3> QED
      BY <2>1, <3>1 DEF Drag, MoveOf
  <2>2. ASSUME NEW h \in Mine, DeleteSelected(h) PROVE MoveOf(B)
    BY <2>2 DEF DeleteSelected, MoveOf
  <2>3. ASSUME NEW h \in Mine, NEW f \in Folders, DeleteFolder(h, f) PROVE MoveOf(B)
    BY <2>3 DEF DeleteFolder, MoveOf
  <2>4. ASSUME NEW h \in Mine, NEW f \in Folders, NewFolder(h, f) PROVE MoveOf(B)
    BY <2>4 DEF NewFolder, MoveOf
  <2> QED
    BY <1>1, <2>1, <2>2, <2>3, <2>4
       DEF UserStep, Open, ClearSelection, Toggle, DragToGone, DeleteGoneFolder,
           MoveOf
<1>2. CASE AnswerStep
  BY <1>2 DEF AnswerStep, ReadVideos, ReadFolders, Loaded, LoadFails, ServeMine,
     MineFails, Moved, Deleted, FolderDeleted, FolderCreated, Answered, Rejected,
     MoveOf
<1>3. CASE OthersStep
  <2>1. \A j \in Named : {j} \in SUBSET B
    OBVIOUS
  <2> QED
    BY <1>3, <2>1 DEF OthersStep, MoveOf
<1>4. CASE UNCHANGED allVars
  BY <1>4 DEF allVars, MoveOf
<1> QED
  BY <1>1, <1>2, <1>3, <1>4 DEF PageNext

LEMMA PageIsLibraryMove ==
  ASSUME PageTypeOK, [PageNext]_allVars
  PROVE  LibraryMove \/ \E j \in Jobs : Publish(j)
<1>1. selected \subseteq Jobs /\ Named \subseteq Jobs
  BY DEF PageTypeOK, Named
<1> QED
  BY <1>1, PageMoves DEF LibraryMove

LEMMA PublishTypeStep ==
  ASSUME TypeOK, NEW j \in Jobs, Publish(j)
  PROVE  TypeOK' /\ videos'[j] \in Video
<1>1. PICK profile \in Implemented :
        videos' = [videos EXCEPT ![j] = Graded(videos[j], j, profile)]
  BY DEF Publish
<1>2. Graded(videos[j], j, profile) \in Video
  BY GradedIsVideo DEF Publish, TypeOK
<1>3. videos' \in [Jobs -> Video \cup {None}] /\ videos'[j] \in Video
  BY <1>1, <1>2 DEF TypeOK
<1>4. Links(videos'[j], j) \in Seq(ObjectKey)
  BY <1>3, LinksAreKeys
<1> QED
  BY <1>3, <1>4 DEF Publish, TypeOK, LinkSet

\* The library's documents, folders and requests keep their types.
THEOREM LibraryTypeOK == Spec => []TypeOK
<1>1. TypeOK /\ [Next]_libraryVars => TypeOK'
  BY NextIsLibraryMove, LibraryTypeStep
<1> QED
  BY InitTypeOK, <1>1, PTL DEF Spec

LEMMA PageTypeInit == PageInit => PageTypeOK
<1>1. PageInit => TypeOK
  BY LibraryOfTypeOK DEF PageInit
<1>2. NoCall \in Call /\ NoLoad \in Load
  BY DEF NoCall, Call, NoLoad, Load
<1>3. PageInit => /\ shown \in Copy /\ sections \in Sections
                  /\ call \in [Mine -> Call] /\ load \in [Visits -> Load]
  BY <1>2 DEF PageInit, Copy, Sections
<1>4. PageInit => selected \subseteq Jobs /\ stale \in BOOLEAN /\ unseen \subseteq Jobs
                  /\ overtaken \in BOOLEAN
  BY DEF PageInit
<1> QED
  BY <1>1, <1>3, <1>4 DEF PageTypeOK

LEMMA SendIsTyped ==
  ASSUME PageTypeOK, NEW h \in Mine, NEW kind \in CallKind,
         NEW ids \in SUBSET Jobs, NEW folder \in Folders \cup {None},
         NEW answer \in {"awaited", "ok", "error"},
         Send(h, kind, ids, folder, answer), TypeOK'
  PROVE  PageTypeOK'
<1>1. [answer |-> answer, kind |-> kind, ids |-> ids, folder |-> folder] \in Call
  BY DEF Call
<1>2. \A v \in Visits : [load[v] EXCEPT !.clean = FALSE] \in Load
  BY DEF PageTypeOK, Load
<1> QED
  BY <1>1, <1>2 DEF PageTypeOK, Send

\* An answer reaches the call it is the answer of.
LEMMA AnswerIsTyped ==
  ASSUME PageTypeOK, NEW h \in Mine, NEW answer \in {"ok", "error"},
         call' = [call EXCEPT ![h].answer = answer]
  PROVE  call' \in [Mine -> Call]
<1>1. call[h] \in Call
  BY DEF PageTypeOK
<1>2. [call[h] EXCEPT !.answer = answer] \in Call
  BY <1>1 DEF Call
<1> QED
  BY <1>2 DEF PageTypeOK

LEMMA NoCallIsCall == NoCall \in Call
BY DEF NoCall, Call

LEMMA PageTypeStep ==
  ASSUME PageTypeOK, [PageNext]_allVars
  PROVE  PageTypeOK'
<1>0. TypeOK'
  BY PageIsLibraryMove, LibraryTypeStep, PublishTypeStep DEF PageTypeOK
<1>1. CASE UserStep
  <2>1. ASSUME NEW v \in Visits, Open(v) PROVE PageTypeOK'
    <3>1. NoCalls \in BOOLEAN
      BY DEF NoCalls
    <3>2. [NoLoad EXCEPT !.pc = "reading", !.clean = NoCalls] \in Load
      BY <3>1 DEF NoLoad, Load
    <3> QED
      BY <1>0, <2>1, <3>2 DEF Open, PageTypeOK
  <2>2. CASE ClearSelection
    BY <1>0, <2>2 DEF ClearSelection, PageTypeOK
  <2>3. ASSUME NEW j \in Jobs, Toggle(j) PROVE PageTypeOK'
    BY <1>0, <2>3 DEF Toggle, PageTypeOK
  <2>4. \A j \in Jobs : Dragged(j) \in SUBSET Jobs
    BY DEF Dragged, PageTypeOK
  <2>5. ASSUME NEW h \in Mine, NEW j \in Jobs, NEW target \in Folders \cup {None},
               Drag(h, j, target)
        PROVE  PageTypeOK'
    BY <1>0, <2>4, <2>5, SendIsTyped DEF Drag, CallKind
  <2>6. ASSUME NEW h \in Mine, NEW j \in Jobs, NEW target \in Folders,
               DragToGone(h, j, target)
        PROVE  PageTypeOK'
    BY <1>0, <2>4, <2>6, SendIsTyped DEF DragToGone, CallKind
  <2>7. ASSUME NEW h \in Mine, DeleteSelected(h) PROVE PageTypeOK'
    <3>1. selected \in SUBSET Jobs
      BY DEF PageTypeOK
    <3> QED
      BY <1>0, <2>7, <3>1, SendIsTyped DEF DeleteSelected, CallKind
  <2>8. ASSUME NEW h \in Mine, NEW f \in Folders,
               DeleteFolder(h, f) \/ DeleteGoneFolder(h, f) \/ NewFolder(h, f)
        PROVE  PageTypeOK'
    BY <1>0, <2>8, SendIsTyped DEF DeleteFolder, DeleteGoneFolder, NewFolder, CallKind
  <2> QED
    BY <1>1, <2>1, <2>2, <2>3, <2>5, <2>6, <2>7, <2>8 DEF UserStep
<1>2. CASE AnswerStep
  <2>1. ASSUME NEW v \in Visits, ReadVideos(v) PROVE PageTypeOK'
    <3> DEFINE copy == [j \in Jobs |-> IF IsListed(videos[j])
                                       THEN videos[j].folder_id ELSE Absent]
    <3>1. copy \in Copy
      BY DEF Copy, IsListed, PageTypeOK, TypeOK, Video
    <3>2. [load[v] EXCEPT !.videos = copy] \in Load
      BY <3>1 DEF PageTypeOK, Load
    <3> QED
      BY <1>0, <2>1, <3>2 DEF ReadVideos, PageTypeOK
  <2>2. ASSUME NEW v \in Visits, ReadFolders(v) PROVE PageTypeOK'
    <3> DEFINE copy == [f \in Folders |-> IF folders[f] = "exists" THEN 1 ELSE 0]
    <3>1. copy \in Sections
      BY DEF Sections
    <3>2. [load[v] EXCEPT !.sections = copy] \in Load
      BY <3>1 DEF PageTypeOK, Load
    <3> QED
      BY <1>0, <2>2, <3>2 DEF ReadFolders, PageTypeOK
  <2>3. [NoLoad EXCEPT !.pc = "over"] \in Load
    BY DEF NoLoad, Load
  <2>4. ASSUME NEW v \in Visits, Loaded(v) PROVE PageTypeOK'
    <3>1. load[v] \in Load
      BY DEF PageTypeOK
    <3>2. \A w \in Visits :
            [load[w] EXCEPT !.overtaken = load[w].videos # Unread] \in Load
      BY DEF PageTypeOK, Load
    <3>3. load' \in [Visits -> Load]
      BY <2>3, <2>4, <3>2 DEF Loaded
    <3> QED
      BY <1>0, <2>4, <3>1, <3>3 DEF Loaded, PageTypeOK, Load
  <2>5. ASSUME NEW v \in Visits, LoadFails(v) PROVE PageTypeOK'
    BY <1>0, <2>3, <2>5 DEF LoadFails, PageTypeOK
  <2>6. ASSUME NEW h \in Mine, ServeMine(h) \/ MineFails(h) PROVE PageTypeOK'
    <3>1. Outcome(h) \in {"ok", "error"}
      BY DEF Outcome
    <3>2. call' \in [Mine -> Call]
      BY <2>6, <3>1, AnswerIsTyped DEF ServeMine, MineFails, PageTypeOK
    <3> QED
      BY <1>0, <2>6, <3>2 DEF ServeMine, MineFails, PageTypeOK
  <2>7. ASSUME NEW h \in Mine, NEW kind, Answered(h, kind)
        PROVE  /\ call' \in [Mine -> Call]
               /\ call[h].ids \subseteq Jobs
               /\ call[h].folder \in Folders \cup {None}
    BY <2>7, NoCallIsCall DEF Answered, PageTypeOK, Call
  <2>8. ASSUME NEW h \in Mine, Moved(h) PROVE PageTypeOK'
    BY <1>0, <2>7, <2>8 DEF Moved, Answered, PageTypeOK, Copy
  <2>9. ASSUME NEW h \in Mine, Deleted(h) PROVE PageTypeOK'
    BY <1>0, <2>7, <2>9 DEF Deleted, Answered, PageTypeOK, Copy
  <2>10. ASSUME NEW h \in Mine, FolderDeleted(h) PROVE PageTypeOK'
    BY <1>0, <2>7, <2>10 DEF FolderDeleted, Answered, PageTypeOK, Copy, Sections
  <2>11. ASSUME NEW h \in Mine, FolderCreated(h) PROVE PageTypeOK'
    <3>1. Answered(h, "create_folder")
      BY <2>11 DEF FolderCreated
    <3>2. sections' = [f \in Folders |->
                        IF f = call[h].folder THEN sections[f] + 1 ELSE sections[f]]
      BY <2>11 DEF FolderCreated, PageTypeOK, Sections
    <3>3. \A f \in Folders : sections[f] \in Nat /\ sections[f] + 1 \in Nat
      BY DEF PageTypeOK, Sections
    <3>4. sections' \in Sections
      BY <3>2, <3>3 DEF Sections
    <3> QED
      BY <1>0, <2>7, <2>11, <3>1, <3>4 DEF FolderCreated, Answered, PageTypeOK
  <2>12. ASSUME NEW h \in Mine, Rejected(h) PROVE PageTypeOK'
    BY <1>0, <2>12, NoCallIsCall DEF Rejected, PageTypeOK
  <2> QED
    BY <1>2, <2>1, <2>2, <2>4, <2>5, <2>6, <2>8, <2>9, <2>10, <2>11, <2>12
       DEF AnswerStep
<1>3. CASE OthersStep
  BY <1>0, <1>3 DEF OthersStep, pageVars, PageTypeOK
<1>4. CASE UNCHANGED allVars
  BY <1>0, <1>4 DEF allVars, pageVars, PageTypeOK
<1>5. ASSUME NEW j \in Jobs, Publish(j) PROVE PageTypeOK'
  <2>1. \A v \in Visits : [load[v] EXCEPT !.unseen = load[v].unseen \cup {j}] \in Load
    BY DEF PageTypeOK, Load
  <2>2. load' \in [Visits -> Load]
    BY <1>5, <2>1 DEF Publish, PageTypeOK
  <2> QED
    BY <1>0, <1>5, <2>2 DEF Publish, PageTypeOK
<1> QED
  BY <1>1, <1>2, <1>3, <1>4, <1>5 DEF PageNext

\* The copy, the selection and the calls keep their types, for any number of
\* calls at a time and of other clients.
THEOREM PageTypeCorrect == PageSpec => []PageTypeOK
BY PageTypeInit, PageTypeStep, PTL DEF PageSpec

-----------------------------------------------------------------------------
(* The document goes last.                                                 *)

KeySet(keys) == {keys[i] : i \in DOMAIN keys}

\* What is left in the store of a video being erased is still to be erased.
ErasingOK ==
  \A h \in Handlers : LET j == request[h].video IN
    request[h].pc = "erase" =>
      /\ j \in Jobs
      /\ IsListed(videos[j]) =>
           LinkSet(videos[j], j) \cap objects \subseteq KeySet(request[h].keys)

LEMMA TailKeepsTheRest ==
  ASSUME NEW S, NEW s \in Seq(S), s # <<>>
  PROVE  KeySet(s) \subseteq KeySet(Tail(s)) \cup {Head(s)}
<1> SUFFICES ASSUME NEW i \in DOMAIN s, i # 1 PROVE s[i] \in KeySet(Tail(s))
  BY DEF KeySet
<1>1. i - 1 \in DOMAIN Tail(s) /\ Tail(s)[i - 1] = s[i]
  OBVIOUS
<1> QED
  BY <1>1 DEF KeySet

\* No step makes a listed document, or changes what one links to.
LEMMA ListedStaysLinked ==
  ASSUME TypeOK, LibraryMove, NEW j \in Jobs, IsListed(videos'[j])
  PROVE  IsListed(videos[j]) /\ LinkSet(videos'[j], j) = LinkSet(videos[j], j)
<1> USE DEF TypeOK
<1>1. ASSUME NEW k, NEW f, videos[k] # None,
             videos' = [videos EXCEPT ![k].folder_id = f]
      PROVE  IsListed(videos[j]) /\ LinkSet(videos'[j], j) = LinkSet(videos[j], j)
  <2>1. CASE j # k
    BY <1>1, <2>1
  <2>2. CASE j = k
    <3>1. videos[j] \in Video /\ videos'[j] = [videos[j] EXCEPT !.folder_id = f]
      BY <1>1, <2>2
    <3>2. /\ videos'[j].status = videos[j].status
          /\ videos'[j].result_key = videos[j].result_key
          /\ videos'[j].previews = videos[j].previews
      BY <3>1 DEF Video
    <3> QED
      BY <1>1, <2>2, <3>2 DEF IsListed, LinkSet, Links
  <2> QED
    BY <2>1, <2>2
<1>2. ASSUME NEW h \in Handlers, EraseVideo(h)
      PROVE  IsListed(videos[j]) /\ LinkSet(videos'[j], j) = LinkSet(videos[j], j)
  <2>1. videos'[j] = videos[j]
    BY <1>2 DEF EraseVideo, IsListed
  <2> QED
    BY <2>1
<1>3. CASE videos' = videos
  BY <1>3
<1>4. ASSUME NEW h \in Handlers, HandlerStep(h)
      PROVE  IsListed(videos[j]) /\ LinkSet(videos'[j], j) = LinkSet(videos[j], j)
  BY <1>1, <1>2, <1>3, <1>4
     DEF HandlerStep, Relocate, ListFolder, DropFolder, EraseObject, ReadMoved,
         Unsort, ReadDeleted
<1> QED
  BY <1>3, <1>4
     DEF LibraryMove, MoveOf, CreateFolder, BeginMove, BeginDelete, StartDeleteFolder,
         VideoNotFound, HandlerDies, libraryVars

\* A request that erases was doing so, erased an object, or has just begun.
LEMMA WhoErases ==
  ASSUME TypeOK, LibraryMove, NEW h \in Handlers, request'[h].pc = "erase"
  PROVE  \/ request'[h] = request[h]
         \/ EraseObject(h)
         \/ \E j \in Jobs : ReadDeleted(h, j) /\ videos[j] # None
<1> USE DEF TypeOK
<1>0. \A x \in Handlers : request[x] \in Request
  OBVIOUS
<1>1. ASSUME NEW x \in Handlers, NEW r, request' = [request EXCEPT ![x] = r],
             r.pc # "erase"
      PROVE  request'[h] = request[h]
  BY <1>1
<1>2. ASSUME NEW x \in Handlers, Ended(x) PROVE request'[h] = request[h]
  BY <1>1, <1>2 DEF Ended, NoRequest
<1>3. ASSUME NEW x \in Handlers, NEW j, NEW loop, NEW after,
             loop # "erase", after # "erase", Continue(x, j, loop, after)
      PROVE  request'[h] = request[h]
  <2>1. \A pc : [request[x] EXCEPT !.pc = pc, !.todo = request[x].todo \ {j},
                                    !.video = None, !.keys = <<>>].pc = pc
    BY <1>0 DEF Request
  <2> QED
    BY <1>1, <1>2, <1>3, <2>1 DEF Continue
<1>4. ASSUME NEW x \in Handlers, NEW target, NEW ids, BeginMove(x, target, ids)
      PROVE  request'[h] = request[h]
  <2>1. [NoRequest EXCEPT !.pc = "move", !.folder = target, !.todo = ids].pc = "move"
    BY DEF NoRequest
  <2> QED
    BY <1>1, <1>4, <2>1 DEF BeginMove
<1>5. ASSUME NEW x \in Handlers, NEW ids, BeginDelete(x, ids)
      PROVE  request'[h] = request[h]
  <2>1. [NoRequest EXCEPT !.pc = "delete", !.todo = ids].pc = "delete"
    BY DEF NoRequest
  <2> QED
    BY <1>1, <1>5, <2>1 DEF BeginDelete
<1>6. ASSUME NEW x \in Handlers, NEW f, StartDeleteFolder(x, f)
      PROVE  request'[h] = request[h]
  <2>1. [NoRequest EXCEPT !.pc = "list", !.folder = f].pc = "list"
    BY DEF NoRequest
  <2> QED
    BY <1>1, <1>6, <2>1 DEF StartDeleteFolder
<1>7. ASSUME NEW x \in Handlers, ListFolder(x) PROVE request'[h] = request[h]
  <2> DEFINE inside == {j \in Jobs : IsListed(videos[j])
                                     /\ videos[j].folder_id = request[x].folder}
  <2> DEFINE next == IF inside = {} THEN "drop" ELSE "unsort"
  <2>1. [request[x] EXCEPT !.todo = inside, !.pc = next].pc = next
    BY <1>0 DEF Request
  <2>2. next # "erase"
    OBVIOUS
  <2>3. request' = [request EXCEPT ![x] = [request[x] EXCEPT !.todo = inside, !.pc = next]]
    BY <1>7 DEF ListFolder
  <2> QED
    BY <1>1, <2>1, <2>2, <2>3
<1>8. ASSUME NEW x \in Handlers, NEW j \in Jobs, ReadMoved(x, j)
      PROVE  request'[h] = request[h]
  <2>1. [request[x] EXCEPT !.pc = "relocate", !.video = j].pc = "relocate"
    BY <1>0 DEF Request
  <2> QED
    BY <1>1, <1>3, <1>8, <2>1 DEF ReadMoved
<1>9. ASSUME NEW x \in Handlers, NEW j \in Jobs, ReadDeleted(x, j)
      PROVE  request'[h] = request[h] \/ (x = h /\ videos[j] # None)
  <2>1. CASE videos[j] = None
    BY <1>3, <1>9, <2>1 DEF ReadDeleted
  <2>2. CASE x # h /\ videos[j] # None
    BY <1>9, <2>2 DEF ReadDeleted
  <2> QED
    BY <2>1, <2>2
<1>10. ASSUME NEW x \in Handlers, EraseObject(x)
       PROVE  request'[h] = request[h] \/ x = h
  BY <1>10 DEF EraseObject
<1>11. ASSUME NEW x \in Handlers, Relocate(x) \/ DropFolder(x) \/ EraseVideo(x)
                                  \/ VideoNotFound(x) \/ HandlerDies(x)
       PROVE  request'[h] = request[h]
  BY <1>2, <1>3, <1>11 DEF Relocate, DropFolder, EraseVideo, VideoNotFound, HandlerDies
<1>12. ASSUME NEW x \in Handlers, NEW j \in Jobs, Unsort(x, j)
       PROVE  request'[h] = request[h]
  BY <1>3, <1>12 DEF Unsort
<1>13. CASE request' = request
  BY <1>13
<1> QED
  BY <1>4, <1>5, <1>6, <1>7, <1>8, <1>9, <1>10, <1>11, <1>12, <1>13
     DEF LibraryMove, MoveOf, HandlerStep, CreateFolder, libraryVars

LEMMA ErasingStep ==
  ASSUME TypeOK, LibraryMove, ErasingOK
  PROVE  ErasingOK'
<1> USE DEF TypeOK
<1> SUFFICES ASSUME NEW h \in Handlers, request'[h].pc = "erase"
             PROVE  /\ request'[h].video \in Jobs
                    /\ IsListed(videos'[request'[h].video]) =>
                         LinkSet(videos'[request'[h].video], request'[h].video)
                           \cap objects' \subseteq KeySet(request'[h].keys)
  BY DEF ErasingOK
<1>1. objects' \subseteq objects
  BY DEF LibraryMove, MoveOf, CreateFolder, BeginMove, BeginDelete, StartDeleteFolder,
     HandlerStep, Relocate, ListFolder, DropFolder, EraseObject, EraseVideo,
     ReadMoved, Unsort, ReadDeleted, VideoNotFound, HandlerDies, libraryVars
<1>2. request[h] \in Request
  OBVIOUS
<1>3. CASE request'[h] = request[h]
  BY <1>1, <1>3, ListedStaysLinked DEF ErasingOK
<1>4. CASE EraseObject(h)
  <2> DEFINE j == request[h].video
             keys == request[h].keys
  <2>1. request'[h] = [request[h] EXCEPT !.keys = Tail(keys)]
    BY <1>4 DEF EraseObject
  <2>2. request'[h].video = j /\ request'[h].keys = Tail(keys)
    BY <1>2, <2>1 DEF Request
  <2>3. /\ keys \in Seq(ObjectKey) /\ keys # <<>>
        /\ objects' = objects \ {Head(keys)}
        /\ request[h].pc = "erase"
    BY <1>2, <1>4 DEF EraseObject, Request
  <2>4. KeySet(keys) \subseteq KeySet(Tail(keys)) \cup {Head(keys)}
    BY <2>3, TailKeepsTheRest
  <2>5. j \in Jobs
    BY <2>3 DEF ErasingOK
  <2>6. IsListed(videos'[j]) =>
          LinkSet(videos'[j], j) \cap objects \subseteq KeySet(keys)
    BY <2>3, <2>5, ListedStaysLinked DEF ErasingOK
  <2> QED
    BY <2>2, <2>3, <2>4, <2>5, <2>6
<1>5. ASSUME NEW j \in Jobs, ReadDeleted(h, j), videos[j] # None
      PROVE  /\ request'[h].video = j /\ videos' = videos
             /\ KeySet(request'[h].keys) = LinkSet(videos[j], j)
  <2>1. request'[h] = [request[h] EXCEPT !.pc = "erase", !.video = j,
                                         !.keys = Links(videos[j], j)]
    BY <1>5 DEF ReadDeleted
  <2>2. request'[h].video = j /\ request'[h].keys = Links(videos[j], j)
    BY <1>2, <2>1 DEF Request
  <2> QED
    BY <1>5, <2>2 DEF ReadDeleted, KeySet, LinkSet
<1> QED
  BY <1>3, <1>4, <1>5, WhoErases

\* The step that removes a listed document finds its objects gone.
LEMMA LastToGo ==
  ASSUME TypeOK, LibraryMove, ErasingOK,
         NEW j \in Jobs, IsListed(videos[j]), videos'[j] = None
  PROVE  LinkSet(videos[j], j) \cap objects = {}
<1> USE DEF TypeOK
<1>1. ASSUME NEW k, NEW f \in Folders \cup {None}, videos[k] # None,
             videos' = [videos EXCEPT ![k].folder_id = f]
      PROVE  FALSE
  <2>1. CASE j # k
    BY <1>1, <2>1 DEF IsListed
  <2>2. CASE j = k
    <3>1. videos[j] \in Video /\ videos'[j] = [videos[j] EXCEPT !.folder_id = f]
      BY <1>1, <2>2
    <3>2. videos'[j] \in Video
      BY <3>1 DEF Video
    <3> QED
      BY <3>2, LibraryAssumption
  <2> QED
    BY <2>1, <2>2
<1>2. videos' # videos
  BY DEF IsListed
<1>3. ASSUME NEW h \in Handlers, EraseVideo(h)
      PROVE  LinkSet(videos[j], j) \cap objects = {}
  <2>1. request[h].video = j
    BY <1>3 DEF EraseVideo, IsListed
  <2>2. KeySet(request[h].keys) = {}
    BY <1>3 DEF EraseVideo, KeySet
  <2> QED
    BY <1>3, <2>1, <2>2 DEF EraseVideo, ErasingOK
<1>4. ASSUME NEW h \in Handlers, HandlerStep(h)
      PROVE  LinkSet(videos[j], j) \cap objects = {}
  <2>1. request[h].folder \in Folders \cup {None}
    BY DEF Request
  <2>2. ~Relocate(h)
    BY <1>1, <2>1 DEF Relocate
  <2> QED
    BY <1>1, <1>2, <1>3, <1>4, <2>2
       DEF HandlerStep, ListFolder, DropFolder, EraseObject, ReadMoved, Unsort,
           ReadDeleted
<1>5. \E h \in Handlers : HandlerStep(h)
  BY <1>2
     DEF LibraryMove, MoveOf, CreateFolder, BeginMove, BeginDelete, StartDeleteFolder,
         VideoNotFound, HandlerDies, libraryVars
<1> QED
  BY <1>4, <1>5

LEMMA ErasingInit ==
  ASSUME NEW done, LibraryOf(done)
  PROVE  ErasingOK
<1>1. \A h \in Handlers : request[h].pc = "idle"
  BY DEF LibraryOf, NoRequests, NoRequest
<1> QED
  BY <1>1 DEF ErasingOK

\* When the document of a listed video goes, nothing it links to is left, for
\* any number of requests that move and delete it at once, or break off.
THEOREM DocumentIsLast == Spec => DocumentGoesLast
<1>0. Init => ErasingOK
  BY ErasingInit DEF Init
<1>1. TypeOK /\ ErasingOK /\ [Next]_libraryVars => ErasingOK'
  BY NextIsLibraryMove, ErasingStep
<1>2. TypeOK /\ ErasingOK /\ [Next]_libraryVars =>
        [\A j \in Jobs : IsListed(videos[j]) /\ videos'[j] = None =>
           LinkSet(videos[j], j) \cap objects = {}]_libraryVars
  BY NextIsLibraryMove, LastToGo
<1> QED
  BY LibraryTypeOK, <1>0, <1>1, <1>2, PTL DEF Spec, DocumentGoesLast

-----------------------------------------------------------------------------
(* What nobody knows of yet.                                               *)

\* A video still at work: it has a document, which no list shows.
Unlisted(j) == videos[j] # None /\ ~IsListed(videos[j])

Touches(h) == request[h].todo \cup {request[h].video}

\* Nobody names, shows, or goes through a video that is still at work, and it is
\* in no folder.
Unknown(j) ==
  /\ videos[j].folder_id = None
  /\ \A h \in Handlers : j \notin Touches(h)
  /\ \A h \in Mine : j \notin call[h].ids
  /\ shown[j] = Absent /\ j \notin selected
  /\ \A v \in Visits : load[v].videos # Unread => load[v].videos[j] = Absent

UnknownOK == \A j \in Jobs : Unlisted(j) => Unknown(j)

LEMMA UnknownInit == PageInit => UnknownOK
<1> SUFFICES ASSUME PageInit, NEW j \in Jobs PROVE Unknown(j)
  BY DEF UnknownOK
<1>1. PICK done \in SUBSET Jobs : LibraryOf(done)
  BY DEF PageInit
<1>2. videos[j].folder_id = None
  BY <1>1, LibraryOfVideos
<1>3. \A h \in Handlers : request[h].todo = {} /\ request[h].video = None
  BY <1>1 DEF LibraryOf, NoRequests, NoRequest
<1> QED
  BY <1>2, <1>3, StoresAssumption
     DEF PageInit, Unknown, Touches, NoCall, NoLoad

\* What a request's step changes of a document is one the request touches.
LEMMA UntouchedStays ==
  ASSUME TypeOK, LibraryMove, NEW j \in Jobs, \A h \in Handlers : j \notin Touches(h)
  PROVE  videos'[j] = videos[j]
<1>1. ASSUME NEW k, k # j, NEW d, videos' = [videos EXCEPT ![k] = d]
      PROVE  videos'[j] = videos[j]
  BY <1>1 DEF TypeOK
<1>2. ASSUME NEW h \in Handlers, HandlerStep(h) PROVE videos'[j] = videos[j]
  <2>1. j # request[h].video /\ j \notin request[h].todo
    BY DEF Touches
  <2> QED
    BY <1>1, <1>2, <2>1
       DEF HandlerStep, Relocate, ListFolder, DropFolder, EraseObject, EraseVideo,
           ReadMoved, Unsort, ReadDeleted
<1> QED
  BY <1>2 DEF LibraryMove, MoveOf, CreateFolder, BeginMove, BeginDelete, StartDeleteFolder,
     VideoNotFound, HandlerDies, libraryVars

\* No step but publication lists a video.
LEMMA ListedWasListed ==
  ASSUME TypeOK, LibraryMove, NEW j \in Jobs, Unlisted(j)'
  PROVE  Unlisted(j)
<1>1. ASSUME NEW k, NEW f, videos[k] # None,
             videos' = [videos EXCEPT ![k].folder_id = f]
      PROVE  Unlisted(j)
  <2>1. CASE j # k
    BY <1>1, <2>1 DEF Unlisted, TypeOK
  <2>2. CASE j = k
    <3>1. videos[j] \in Video /\ videos'[j] = [videos[j] EXCEPT !.folder_id = f]
      BY <1>1, <2>2 DEF TypeOK
    <3>2. videos'[j].status = videos[j].status
      BY <3>1 DEF Video
    <3> QED
      BY <1>1, <2>2, <3>2 DEF Unlisted, IsListed
  <2> QED
    BY <2>1, <2>2
<1>2. ASSUME NEW h \in Handlers, EraseVideo(h) PROVE Unlisted(j)
  BY <1>2 DEF EraseVideo, Unlisted, TypeOK
<1>3. CASE videos' = videos
  BY <1>3 DEF Unlisted
<1>4. ASSUME NEW h \in Handlers, HandlerStep(h) PROVE Unlisted(j)
  BY <1>1, <1>2, <1>3, <1>4
     DEF HandlerStep, Relocate, ListFolder, DropFolder, EraseObject, ReadMoved,
         Unsort, ReadDeleted
<1> QED
  BY <1>3, <1>4
     DEF LibraryMove, MoveOf, CreateFolder, BeginMove, BeginDelete, StartDeleteFolder,
         VideoNotFound, HandlerDies, libraryVars

\* A request touches what it was given, or lists.
LEMMA TouchesStay ==
  ASSUME TypeOK, NEW B \in SUBSET Jobs, MoveOf(B),
         NEW j \in Jobs \ B, ~IsListed(videos[j]),
         \A h \in Handlers : j \notin Touches(h),
         NEW h \in Handlers
  PROVE  j \notin Touches(h)'
<1> USE DEF Touches
<1>0. /\ \A x \in Handlers : request[x] \in Request
      /\ j # None
  BY StoresAssumption DEF TypeOK
<1>1. ASSUME NEW x \in Handlers, NEW r, request' = [request EXCEPT ![x] = r],
             j \notin r.todo, j # r.video
      PROVE  j \notin Touches(h)'
  BY <1>1 DEF TypeOK
<1>2. ASSUME NEW x \in Handlers, Ended(x) PROVE j \notin Touches(h)'
  BY <1>0, <1>1, <1>2 DEF Ended, NoRequest
<1>3. ASSUME NEW x \in Handlers, NEW k, NEW loop, NEW after, Continue(x, k, loop, after)
      PROVE  j \notin Touches(h)'
  <2> DEFINE r(pc) == [request[x] EXCEPT !.pc = pc, !.todo = request[x].todo \ {k},
                                         !.video = None, !.keys = <<>>]
  <2>1. \A pc : r(pc).todo = request[x].todo \ {k} /\ r(pc).video = None
    BY <1>0 DEF Request
  <2>2. Ended(x) \/ \E pc : request' = [request EXCEPT ![x] = r(pc)]
    BY <1>3 DEF Continue
  <2> HIDE DEF r
  <2> QED
    BY <1>0, <1>1, <1>2, <2>1, <2>2
<1>4. ASSUME NEW x \in Handlers, NEW f \in Folders \cup {None}, NEW ids \in SUBSET B,
             BeginMove(x, f, ids)
      PROVE  j \notin Touches(h)'
  <2>1. /\ [NoRequest EXCEPT !.pc = "move", !.folder = f, !.todo = ids].todo = ids
        /\ [NoRequest EXCEPT !.pc = "move", !.folder = f, !.todo = ids].video = None
    BY DEF NoRequest
  <2> QED
    BY <1>0, <1>1, <1>4, <2>1 DEF BeginMove
<1>5. ASSUME NEW x \in Handlers, NEW ids \in SUBSET B, BeginDelete(x, ids)
      PROVE  j \notin Touches(h)'
  <2>1. /\ [NoRequest EXCEPT !.pc = "delete", !.todo = ids].todo = ids
        /\ [NoRequest EXCEPT !.pc = "delete", !.todo = ids].video = None
    BY DEF NoRequest
  <2> QED
    BY <1>0, <1>1, <1>5, <2>1 DEF BeginDelete
<1>6. ASSUME NEW x \in Handlers, NEW f, StartDeleteFolder(x, f) PROVE j \notin Touches(h)'
  <2>1. /\ [NoRequest EXCEPT !.pc = "list", !.folder = f].todo = {}
        /\ [NoRequest EXCEPT !.pc = "list", !.folder = f].video = None
    BY DEF NoRequest
  <2> QED
    BY <1>0, <1>1, <1>6, <2>1 DEF StartDeleteFolder
<1>7. ASSUME NEW x \in Handlers, ListFolder(x) PROVE j \notin Touches(h)'
  <2> DEFINE inside == {k \in Jobs : IsListed(videos[k])
                                     /\ videos[k].folder_id = request[x].folder}
             next == IF inside = {} THEN "drop" ELSE "unsort"
             r == [request[x] EXCEPT !.todo = inside, !.pc = next]
  <2>1. r.todo = inside /\ r.video = request[x].video /\ j \notin inside
    BY <1>0 DEF Request
  <2>2. request' = [request EXCEPT ![x] = r]
    BY <1>7 DEF ListFolder
  <2> HIDE DEF r
  <2> QED
    BY <1>1, <2>1, <2>2
<1>8. ASSUME NEW x \in Handlers, NEW k \in Jobs, ReadMoved(x, k) PROVE j \notin Touches(h)'
  <2>1. LET r == [request[x] EXCEPT !.pc = "relocate", !.video = k]
        IN  r.todo = request[x].todo /\ r.video = k
    BY <1>0 DEF Request
  <2>2. k # j
    BY <1>8 DEF ReadMoved
  <2> QED
    BY <1>1, <1>3, <1>8, <2>1, <2>2 DEF ReadMoved
<1>9. ASSUME NEW x \in Handlers, NEW k \in Jobs, ReadDeleted(x, k) PROVE j \notin Touches(h)'
  <2>1. LET r == [request[x] EXCEPT !.pc = "erase", !.video = k,
                                    !.keys = Links(videos[k], k)]
        IN  r.todo = request[x].todo /\ r.video = k
    BY <1>0 DEF Request
  <2>2. k # j
    BY <1>9 DEF ReadDeleted
  <2> QED
    BY <1>1, <1>3, <1>9, <2>1, <2>2 DEF ReadDeleted
<1>10. ASSUME NEW x \in Handlers, EraseObject(x) PROVE j \notin Touches(h)'
  <2>1. LET r == [request[x] EXCEPT !.keys = Tail(request[x].keys)]
        IN  r.todo = request[x].todo /\ r.video = request[x].video
    BY <1>0 DEF Request
  <2> QED
    BY <1>1, <1>10, <2>1 DEF EraseObject
<1>11. ASSUME NEW x \in Handlers, Relocate(x) \/ DropFolder(x) \/ EraseVideo(x)
                                  \/ VideoNotFound(x) \/ HandlerDies(x)
       PROVE  j \notin Touches(h)'
  BY <1>2, <1>3, <1>11 DEF Relocate, DropFolder, EraseVideo, VideoNotFound, HandlerDies
<1>12. ASSUME NEW x \in Handlers, NEW k \in Jobs, Unsort(x, k) PROVE j \notin Touches(h)'
  BY <1>3, <1>12 DEF Unsort
<1>13. CASE request' = request
  BY <1>13
<1> QED
  BY <1>4, <1>5, <1>6, <1>7, <1>8, <1>9, <1>10, <1>11, <1>12, <1>13
     DEF MoveOf, HandlerStep, CreateFolder, libraryVars

LEMMA NamedIsListed == Named \subseteq {j \in Jobs : IsListed(videos[j])}
BY PageAssumption DEF Named, IsListed

\* What the page, its calls and its loads know of is listed, or was.
LEMMA UnknownStep ==
  ASSUME PageTypeOK, UnknownOK, [PageNext]_allVars
  PROVE  UnknownOK'
<1> DEFINE B == {j \in Jobs : ~Unlisted(j)}
<1>0. /\ TypeOK /\ Mine \subseteq Handlers /\ Absent \notin Folders \cup {None}
      /\ \A v \in Visits : load[v] \in Load
      /\ \A h \in Mine : call[h] \in Call
  BY PageAssumption DEF PageTypeOK
<1>1. CASE \E k \in Jobs : Publish(k)
  <2>1. PICK k \in Jobs : Publish(k)
    BY <1>1
  <2>2. SUFFICES ASSUME NEW j \in Jobs, Unlisted(j)' PROVE Unknown(j)'
    BY DEF UnknownOK
  <2>3. PICK profile \in Implemented :
          videos' = [videos EXCEPT ![k] = Graded(videos[k], k, profile)]
    BY <2>1 DEF Publish
  <2>4. videos[k] \in Video /\ IsListed(Graded(videos[k], k, profile))
    BY <1>0, <2>1, GradedIsVideo DEF Publish, TypeOK
  <2>5. j # k /\ videos'[j] = videos[j]
    BY <1>0, <2>2, <2>3, <2>4 DEF Unlisted, TypeOK
  <2>6. Unknown(j)
    BY <2>2, <2>5 DEF UnknownOK, Unlisted
  <2>7. \A v \in Visits : load'[v].videos = load[v].videos
    BY <1>0, <2>1 DEF Publish, Load
  <2>8. UNCHANGED <<request, call, shown, selected>>
    BY <2>1 DEF Publish
  <2> QED
    BY <2>5, <2>6, <2>7, <2>8 DEF Unknown, Touches
<1>2. CASE MoveOf(B) /\ ~\E k \in Jobs : Publish(k)
  <2>0. LibraryMove /\ B \in SUBSET Jobs
    BY <1>2 DEF LibraryMove, MoveOf
  <2>1. SUFFICES ASSUME NEW j \in Jobs, Unlisted(j)' PROVE Unknown(j)'
    BY DEF UnknownOK
  <2>2. Unlisted(j) /\ Unknown(j) /\ j \notin B
    BY <1>0, <2>0, <2>1, ListedWasListed DEF UnknownOK
  <2>3. videos'[j] = videos[j]
    BY <1>0, <2>0, <2>2, UntouchedStays DEF Unknown
  <2>4. \A h \in Handlers : j \notin Touches(h)'
    BY <1>0, <1>2, <2>0, <2>2, TouchesStay DEF Unknown, Unlisted
  <2>5. /\ \A h \in Mine : j \notin call'[h].ids
        /\ shown'[j] = Absent /\ j \notin selected'
        /\ \A v \in Visits : load'[v].videos # Unread => load'[v].videos[j] = Absent
    <3>1. /\ \A h \in Mine : j \notin call[h].ids
          /\ shown[j] = Absent /\ j \notin selected /\ ~IsListed(videos[j])
          /\ \A v \in Visits : load[v].videos # Unread => load[v].videos[j] = Absent
      BY <2>2 DEF Unknown, Unlisted
    <3> HIDE DEF B
    <3>2. ASSUME NEW h \in Mine, NEW kind, NEW ids, NEW folder, NEW answer,
                 Send(h, kind, ids, folder, answer), j \notin ids
          PROVE  /\ \A g \in Mine : j \notin call'[g].ids
                 /\ \A v \in Visits : load'[v].videos = load[v].videos
                 /\ shown' = shown /\ selected' = selected
      BY <1>0, <3>1, <3>2 DEF Send, PageTypeOK, Load
    <3>3. \A k \in Jobs : Visible(k) => j \notin Dragged(k)
      BY <3>1 DEF Visible, Dragged
    <3>4. ASSUME NEW h \in Mine, NEW kind, Answered(h, kind) \/ Rejected(h)
          PROVE  \A g \in Mine : j \notin call'[g].ids
      BY <3>1, <3>4 DEF Answered, Rejected, NoCall, PageTypeOK
    <3>5. CASE UserStep
      <4>1. ASSUME NEW v \in Visits, Open(v)
            PROVE  \A w \in Visits : load'[w] = load[w] \/ load'[w].videos = Unread
        BY <1>0, <4>1 DEF Open, PageTypeOK, NoLoad
      <4>2. ASSUME NEW k \in Jobs, Toggle(k) PROVE j \notin selected'
        BY <3>1, <4>2 DEF Toggle, Visible
      <4> QED
        BY <3>1, <3>2, <3>3, <3>5, <4>1, <4>2
           DEF UserStep, Open, ClearSelection, Toggle, DeleteSelected, Drag, DragToGone,
               DeleteFolder, DeleteGoneFolder, NewFolder
    <3>6. ASSUME NEW h \in Mine, ServeMine(h) \/ MineFails(h)
          PROVE  \A g \in Mine : j \notin call'[g].ids
      <4>1. ASSUME NEW answer, call' = [call EXCEPT ![h].answer = answer]
            PROVE  \A g \in Mine : call'[g].ids = call[g].ids
        BY <1>0, <4>1 DEF PageTypeOK, Call
      <4> QED
        BY <3>1, <3>6, <4>1 DEF ServeMine, MineFails
    <3>7. ASSUME NEW v \in Visits, ReadVideos(v) \/ ReadFolders(v) \/ Loaded(v) \/ LoadFails(v)
          PROVE  /\ \A w \in Visits : load'[w].videos # Unread => load'[w].videos[j] = Absent
                 /\ shown'[j] = Absent
      <4>1. CASE ReadVideos(v)
        <5> DEFINE copy == [k \in Jobs |-> IF IsListed(videos[k])
                                           THEN videos[k].folder_id ELSE Absent]
        <5>1. /\ load'[v].videos = copy /\ shown' = shown
              /\ \A w \in Visits : w # v => load'[w] = load[w]
          BY <1>0, <4>1 DEF ReadVideos, PageTypeOK, Load
        <5>2. copy[j] = Absent
          BY <3>1
        <5> HIDE DEF copy
        <5> QED
          BY <3>1, <5>1, <5>2
      <4>2. CASE ReadFolders(v)
        BY <1>0, <3>1, <4>2 DEF ReadFolders, PageTypeOK, Load
      <4>3. [NoLoad EXCEPT !.pc = "over"].videos = Unread
        BY DEF NoLoad
      <4>4. CASE Loaded(v)
        <5>1. \A w \in Visits : [load[w] EXCEPT !.overtaken = load[w].videos # Unread].videos
                                  = load[w].videos
          BY <1>0 DEF Load
        <5> QED
          BY <3>1, <4>3, <4>4, <5>1 DEF Loaded
      <4>5. CASE LoadFails(v)
        BY <3>1, <4>3, <4>5 DEF LoadFails, PageTypeOK
      <4> QED
        BY <3>7, <4>1, <4>2, <4>4, <4>5
    <3>8. CASE AnswerStep
      <4>1. ASSUME NEW h \in Mine,
                   \/ Moved(h) \/ Deleted(h) \/ FolderDeleted(h) \/ FolderCreated(h)
                   \/ Rejected(h)
            PROVE  shown'[j] = Absent /\ j \notin selected' /\ load' = load
        <5>1. Absent # call[h].folder
          BY <1>0 DEF Call
        <5> QED
          BY <3>1, <4>1, <5>1
             DEF Moved, Deleted, FolderDeleted, FolderCreated, Rejected, Answered
      <4>2. ASSUME NEW h \in Mine,
                   \/ Moved(h) \/ Deleted(h) \/ FolderDeleted(h) \/ FolderCreated(h)
                   \/ Rejected(h)
            PROVE  \A g \in Mine : j \notin call'[g].ids
        BY <3>4, <4>2 DEF Moved, Deleted, FolderDeleted, FolderCreated
      <4>3. ASSUME NEW v \in Visits, ReadVideos(v) \/ ReadFolders(v) \/ Loaded(v) \/ LoadFails(v)
            PROVE  call' = call /\ selected' = selected
        BY <4>3 DEF ReadVideos, ReadFolders, Loaded, LoadFails
      <4>4. ASSUME NEW h \in Mine, ServeMine(h) \/ MineFails(h)
            PROVE  shown' = shown /\ selected' = selected /\ load' = load
        BY <4>4 DEF ServeMine, MineFails
      <4> QED
        BY <3>1, <3>6, <3>7, <3>8, <4>1, <4>2, <4>3, <4>4 DEF AnswerStep
    <3>9. CASE OthersStep \/ UNCHANGED allVars
      BY <3>1, <3>9 DEF OthersStep, allVars, pageVars
    <3> QED
      BY <1>2, <3>5, <3>8, <3>9 DEF PageNext
  <2> QED
    BY <2>2, <2>3, <2>4, <2>5 DEF Unknown
<1> QED
  <2>1. selected \subseteq B /\ Named \subseteq B
    BY NamedIsListed DEF UnknownOK, Unknown, Unlisted, PageTypeOK
  <2>2. \A j \in Jobs : shown[j] # Absent => j \in B
    BY DEF UnknownOK, Unknown
  <2> QED
    BY <1>1, <1>2, <2>1, <2>2, PageMoves

\* A listed video links to objects of its own.
OwnLinks == \A j \in Jobs : IsListed(videos[j]) => \A x \in LinkSet(videos[j], j) : x[1] = j

LEMMA GradedLinks ==
  ASSUME NEW j \in Jobs, NEW v \in Video, NEW profile \in Implemented,
         NEW x \in LinkSet(Graded(v, j, profile), j)
  PROVE  x[1] = j
<1>1. Graded(v, j, profile).result_key = <<j, "result", 1>>
  BY DEF Graded, Video
<1>2. \/ Links(Graded(v, j, profile), j) = <<>>
      \/ Links(Graded(v, j, profile), j) = << <<j, "result", 1>> >>
      \/ Links(Graded(v, j, profile), j)
           = << <<j, "result", 1>>, ThumbnailKey(j), ClipsKey(j) >>
  BY <1>1 DEF Links
<1>3. x \in {<<j, "result", 1>>, ThumbnailKey(j), ClipsKey(j)}
  BY <1>2 DEF LinkSet
<1> QED
  BY <1>3 DEF ThumbnailKey, ClipsKey

LEMMA OwnLinksInit == PageInit => OwnLinks
<1> SUFFICES ASSUME PageInit, NEW j \in Jobs, IsListed(videos[j]),
                    NEW x \in LinkSet(videos[j], j)
             PROVE  x[1] = j
  BY DEF OwnLinks
<1>1. PICK done \in SUBSET Jobs : LibraryOf(done)
  BY DEF PageInit
<1>2. PICK file \in [Jobs -> Files], profile \in Implemented :
        videos = [k \in Jobs |->
          LET v == NewVideo(file[k], profile, FALSE) IN
          IF k \in done THEN Graded(v, k, profile) ELSE v]
  BY <1>1 DEF LibraryOf
<1>3. NewVideo(file[j], profile, FALSE) \in Video
  BY DEF NewVideo, Video, VideoStatus
<1>4. ~IsListed(NewVideo(file[j], profile, FALSE))
  BY DEF NewVideo, IsListed
<1>5. videos[j] = Graded(NewVideo(file[j], profile, FALSE), j, profile)
  BY <1>2, <1>4
<1> QED
  BY <1>3, <1>5, GradedLinks

LEMMA OwnLinksStep ==
  ASSUME TypeOK, OwnLinks, LibraryMove \/ \E k \in Jobs : Publish(k)
  PROVE  OwnLinks'
<1>1. CASE LibraryMove
  BY <1>1, ListedStaysLinked DEF OwnLinks
<1>2. ASSUME NEW k \in Jobs, Publish(k) PROVE OwnLinks'
  <2>1. PICK profile \in Implemented :
          videos' = [videos EXCEPT ![k] = Graded(videos[k], k, profile)]
    BY <1>2 DEF Publish
  <2>2. videos[k] \in Video /\ videos'[k] = Graded(videos[k], k, profile)
    BY <1>2, <2>1 DEF Publish, TypeOK
  <2>3. \A j \in Jobs : j # k => videos'[j] = videos[j]
    BY <2>1 DEF TypeOK
  <2> QED
    BY <2>2, <2>3, GradedLinks DEF OwnLinks
<1> QED
  BY <1>1, <1>2

\* Publication makes a document of a video that no request is erasing.
LEMMA PublishErasing ==
  ASSUME TypeOK, UnknownOK, OwnLinks, OwnLinks', ErasingOK, NEW k \in Jobs, Publish(k)
  PROVE  ErasingOK'
<1>1. PICK profile \in Implemented :
        videos' = [videos EXCEPT ![k] = Graded(videos[k], k, profile)]
  BY DEF Publish
<1>2. \A h \in Handlers : request[h].video # k
  BY DEF Publish, UnknownOK, Unlisted, IsListed, Unknown, Touches
<1>3. videos[k] \in Video /\ videos'[k] = Graded(videos[k], k, profile)
  BY <1>1 DEF Publish, TypeOK
<1>4. ASSUME NEW j \in Jobs, j # k, IsListed(videos'[j])
      PROVE  /\ videos'[j] = videos[j]
             /\ LinkSet(videos[j], j) \cap objects' \subseteq objects
  <2>1. videos'[j] = videos[j]
    BY <1>1, <1>4 DEF TypeOK
  <2>2. LinkSet(videos'[k], k) \cap LinkSet(videos[j], j) = {}
    BY <1>3, <1>4, <2>1, GradedLinks DEF OwnLinks
  <2> QED
    BY <2>1, <2>2 DEF Publish
<1> QED
  BY <1>2, <1>4 DEF ErasingOK, Publish

\* The same when the requests are those of pages, whatever their copies say, and
\* videos are published meanwhile: no page names a video before that.
THEOREM PagesEraseDocumentsLast == PageSpec => DocumentGoesLast
<1> DEFINE I == UnknownOK /\ OwnLinks /\ ErasingOK
<1>1. PageInit => I
  BY UnknownInit, OwnLinksInit, ErasingInit DEF PageInit
<1>2. PageTypeOK /\ I /\ [PageNext]_allVars => I'
  <2> SUFFICES ASSUME PageTypeOK, I, [PageNext]_allVars PROVE I'
    OBVIOUS
  <2>1. UnknownOK' /\ OwnLinks'
    BY PageIsLibraryMove, UnknownStep, OwnLinksStep DEF PageTypeOK
  <2> QED
    BY <2>1, PageIsLibraryMove, ErasingStep, PublishErasing DEF PageTypeOK
<1>3. PageTypeOK /\ I /\ [PageNext]_allVars =>
        [\A j \in Jobs : IsListed(videos[j]) /\ videos'[j] = None =>
           LinkSet(videos[j], j) \cap objects = {}]_libraryVars
  <2> SUFFICES ASSUME PageTypeOK, I, [PageNext]_allVars,
                      NEW j \in Jobs, IsListed(videos[j]), videos'[j] = None
               PROVE  LinkSet(videos[j], j) \cap objects = {}
    OBVIOUS
  <2>1. CASE LibraryMove
    BY <2>1, LastToGo DEF PageTypeOK
  <2>2. ~\E k \in Jobs : Publish(k)
    <3> SUFFICES ASSUME NEW k \in Jobs, Publish(k) PROVE FALSE
      OBVIOUS
    <3>1. videos'[k] \in Video
      BY PublishTypeStep DEF PageTypeOK
    <3>2. j # k
      BY <3>1, LibraryAssumption
    <3> QED
      BY <3>2 DEF Publish, PageTypeOK, TypeOK, IsListed
  <2> QED
    BY <2>1, <2>2, PageIsLibraryMove
<1> QED
  BY PageTypeCorrect, <1>1, <1>2, <1>3, PTL DEF PageSpec, DocumentGoesLast

-----------------------------------------------------------------------------
(* The selection stays within the copy.                                    *)

\* A list that was read lacks only videos published since; and one of those is
\* shown or selected only if another load was answered since.
Lacks(v, j) == load[v].videos # Unread /\ load[v].videos[j] = Absent

ReadOK ==
  \A v \in Visits, j \in Jobs :
    IsListed(videos[j]) /\ Lacks(v, j) =>
      /\ j \in load[v].unseen
      /\ shown[j] # Absent \/ j \in selected => load[v].overtaken

\* Once read, a list and its histories change only as another load is answered
\* or a video is published.
LEMMA ListsStay ==
  ASSUME PageTypeOK, PageNext, ~\E j \in Jobs : Publish(j), NEW v \in Visits
  PROVE  \/ load'[v].videos = Unread
         \/ ReadVideos(v)
         \/ /\ load'[v].videos = load[v].videos /\ load'[v].unseen = load[v].unseen
            /\ IF \E w \in Visits : Loaded(w)
               THEN load[v].videos # Unread => load'[v].overtaken
               ELSE load'[v].overtaken = load[v].overtaken
<1> DEFINE Same == /\ load'[v].videos = load[v].videos /\ load'[v].unseen = load[v].unseen
                   /\ load'[v].overtaken = load[v].overtaken
           Goal == \/ load'[v].videos = Unread
                   \/ ReadVideos(v)
                   \/ Same /\ ~\E w \in Visits : Loaded(w)
                   \/ /\ load'[v].videos = load[v].videos /\ load'[v].unseen = load[v].unseen
                      /\ load[v].videos # Unread => load'[v].overtaken
                      /\ \E w \in Visits : Loaded(w)
<1>0. load[v] \in Load /\ load \in [Visits -> Load]
  BY DEF PageTypeOK
<1>1. ASSUME NEW w \in Visits, Loaded(w) PROVE Goal
  <2>1. [NoLoad EXCEPT !.pc = "over"].videos = Unread
    BY DEF NoLoad
  <2> DEFINE l == [load[v] EXCEPT !.overtaken = load[v].videos # Unread]
  <2>2. l.videos = load[v].videos /\ l.unseen = load[v].unseen
        /\ l.overtaken = (load[v].videos # Unread)
    BY <1>0 DEF Load
  <2>3. load'[v] = IF v = w THEN [NoLoad EXCEPT !.pc = "over"] ELSE l
    BY <1>1 DEF Loaded
  <2> HIDE DEF l
  <2> QED
    BY <1>1, <2>1, <2>2, <2>3
<1>2. CASE ~\E w \in Visits : Loaded(w)
  <2>1. CASE UserStep
    <3>1. ASSUME NEW w \in Visits, Open(w) PROVE Same \/ load'[v].videos = Unread
      BY <1>0, <3>1 DEF Open, NoLoad
    <3>2. ASSUME NEW h \in Mine, NEW kind, NEW ids, NEW folder, NEW answer,
                 Send(h, kind, ids, folder, answer)
          PROVE  Same
      BY <1>0, <3>2 DEF Send, Load
    <3> QED
      BY <1>2, <2>1, <3>1, <3>2
         DEF UserStep, ClearSelection, Toggle, DeleteSelected, Drag, DragToGone,
             DeleteFolder, DeleteGoneFolder, NewFolder
  <2>2. ASSUME NEW w \in Visits, ReadVideos(w) PROVE Goal
    <3>1. CASE w = v
      BY <2>2, <3>1
    <3>2. CASE w # v
      <4>1. load'[v] = load[v]
        BY <1>0, <2>2, <3>2 DEF ReadVideos
      <4> QED
        BY <1>2, <4>1
    <3> QED
      BY <3>1, <3>2
  <2>3. ASSUME NEW w \in Visits, ReadFolders(w) PROVE Same
    BY <1>0, <2>3 DEF ReadFolders, Load
  <2>4. ASSUME NEW w \in Visits, LoadFails(w) PROVE Goal
    <3>1. [NoLoad EXCEPT !.pc = "over"].videos = Unread
      BY DEF NoLoad
    <3>2. load'[v] = load[v] \/ load'[v] = [NoLoad EXCEPT !.pc = "over"]
      BY <1>0, <2>4 DEF LoadFails
    <3> QED
      BY <1>2, <3>1, <3>2
  <2>5. CASE AnswerStep
    <3>1. ASSUME NEW h \in Mine,
                 \/ ServeMine(h) \/ MineFails(h) \/ Moved(h) \/ Deleted(h)
                 \/ FolderDeleted(h) \/ FolderCreated(h) \/ Rejected(h)
          PROVE  Same
      BY <3>1 DEF ServeMine, MineFails, Moved, Deleted, FolderDeleted, FolderCreated,
         Answered, Rejected
    <3> QED
      BY <1>2, <2>2, <2>3, <2>4, <2>5, <3>1 DEF AnswerStep
  <2>6. CASE OthersStep
    BY <1>2, <2>6 DEF OthersStep, pageVars
  <2> QED
    BY <2>1, <2>5, <2>6 DEF PageNext
<1> QED
  BY <1>1, <1>2

\* Between two answered loads a video only leaves the copy, and is only selected
\* while the copy shows it.
LEMMA ShownStays ==
  ASSUME PageTypeOK, PageNext, ~\E w \in Visits : Loaded(w),
         ~\E k \in Jobs : Publish(k), NEW j \in Jobs
  PROVE  /\ unseen' = unseen /\ overtaken' = overtaken
         /\ shown'[j] # Absent => shown[j] # Absent
         /\ j \in selected' => j \in selected \/ shown[j] # Absent
         /\ j \in selected' /\ shown'[j] = Absent => j \in selected /\ shown[j] = Absent
<1>0. Absent \notin Folders \cup {None} /\ shown \in Copy
  BY PageAssumption DEF PageTypeOK
<1>1. CASE UserStep
  <2>1. ASSUME NEW k \in Jobs, Toggle(k)
        PROVE  shown' = shown /\ (j \in selected' => j \in selected \/ shown[j] # Absent)
    BY <2>1 DEF Toggle, Visible
  <2>2. \/ \E k \in Jobs : Toggle(k)
        \/ shown' = shown /\ selected' \subseteq selected
    BY <1>1
       DEF UserStep, Open, ClearSelection, DeleteSelected, Drag, DragToGone,
           DeleteFolder, DeleteGoneFolder, NewFolder, Send
  <2>3. unseen' = unseen /\ overtaken' = overtaken
    BY <1>1
       DEF UserStep, Open, Toggle, ClearSelection, DeleteSelected, Drag, DragToGone,
           DeleteFolder, DeleteGoneFolder, NewFolder, Send
  <2> QED
    BY <2>1, <2>2, <2>3
<1>2. CASE AnswerStep
  <2>1. \/ shown' = shown /\ selected' = selected
        \/ \E h \in Mine : Moved(h) \/ Deleted(h) \/ FolderDeleted(h)
    BY <1>2
       DEF AnswerStep, ReadVideos, ReadFolders, LoadFails, ServeMine, MineFails,
           FolderCreated, Rejected, Answered
  <2>2. ASSUME NEW h \in Mine, Moved(h) \/ Deleted(h)
        PROVE  selected' = {} /\ (shown'[j] # Absent => shown[j] # Absent)
    BY <1>0, <2>2 DEF Moved, Deleted, Copy
  <2>3. ASSUME NEW h \in Mine, FolderDeleted(h)
        PROVE  selected' = selected /\ (shown'[j] # Absent <=> shown[j] # Absent)
    <3>1. call[h].folder # Absent
      BY <1>0 DEF PageTypeOK, Call
    <3> QED
      BY <1>0, <2>3, <3>1 DEF FolderDeleted, Copy
  <2>4. unseen' = unseen /\ overtaken' = overtaken
    BY <1>2
       DEF AnswerStep, ReadVideos, ReadFolders, LoadFails, ServeMine, MineFails,
           Moved, Deleted, FolderDeleted, FolderCreated, Rejected, Answered
  <2> QED
    BY <2>1, <2>2, <2>3, <2>4
<1>3. CASE OthersStep
  BY <1>3 DEF OthersStep, pageVars
<1> QED
  BY <1>1, <1>2, <1>3 DEF PageNext

LEMMA ReadStep ==
  ASSUME PageTypeOK, UnknownOK, ReadOK, [PageNext]_allVars
  PROVE  ReadOK'
<1> SUFFICES ASSUME NEW v \in Visits, NEW j \in Jobs, IsListed(videos'[j]), Lacks(v, j)'
             PROVE  /\ j \in load'[v].unseen
                    /\ shown'[j] # Absent \/ j \in selected' => load'[v].overtaken
  BY DEF ReadOK
<1>0. load[v] \in Load /\ TypeOK /\ Absent \notin Folders \cup {None}
  BY PageAssumption DEF PageTypeOK
<1>1. ASSUME NEW k \in Jobs, Publish(k)
      PROVE  /\ j \in load'[v].unseen
             /\ shown'[j] # Absent \/ j \in selected' => load'[v].overtaken
  <2> DEFINE l == [load[v] EXCEPT !.unseen = load[v].unseen \cup {k}]
  <2>1. /\ l.videos = load[v].videos /\ l.unseen = load[v].unseen \cup {k}
        /\ l.overtaken = load[v].overtaken
    BY <1>0 DEF Load
  <2>2. load'[v] = IF load[v].videos = Unread THEN load[v] ELSE l
    BY <1>1 DEF Publish
  <2> HIDE DEF l
  <2>3. /\ load[v].videos # Unread /\ load'[v].videos = load[v].videos
        /\ load'[v].unseen = load[v].unseen \cup {k}
        /\ load'[v].overtaken = load[v].overtaken
    BY <2>1, <2>2 DEF Lacks
  <2>4. shown' = shown /\ selected' = selected
    BY <1>1 DEF Publish
  <2>5. CASE j = k
    <3>1. Unknown(k)
      BY <1>1 DEF Publish, UnknownOK, Unlisted, IsListed
    <3> QED
      BY <2>3, <2>4, <2>5, <3>1 DEF Unknown
  <2>6. CASE j # k
    <3>1. videos'[j] = videos[j]
      BY <1>0, <1>1, <2>6 DEF Publish, TypeOK
    <3> QED
      BY <2>3, <2>4, <3>1 DEF ReadOK, Lacks
  <2> QED
    BY <2>5, <2>6
<1>2. CASE ~\E k \in Jobs : Publish(k)
  <2>1. IsListed(videos[j])
    BY <1>0, <1>2, PageIsLibraryMove, ListedStaysLinked
  <2>2. CASE UNCHANGED allVars
    BY <2>1, <2>2 DEF allVars, pageVars, ReadOK, Lacks
  <2>3. CASE PageNext
    <3>1. ~ReadVideos(v)
      <4> SUFFICES ASSUME ReadVideos(v) PROVE FALSE
        OBVIOUS
      <4> DEFINE copy == [k \in Jobs |-> IF IsListed(videos[k])
                                         THEN videos[k].folder_id ELSE Absent]
      <4>1. load'[v].videos = copy
        BY <1>0 DEF ReadVideos, PageTypeOK, Load
      <4>2. copy[j] # Absent
        BY <1>0, <2>1 DEF TypeOK, Video, IsListed
      <4> HIDE DEF copy
      <4> QED
        BY <4>1, <4>2 DEF Lacks
    <3>2. /\ load[v].videos # Unread /\ load'[v].videos = load[v].videos
          /\ load'[v].unseen = load[v].unseen
          /\ IF \E w \in Visits : Loaded(w) THEN load'[v].overtaken
             ELSE load'[v].overtaken = load[v].overtaken
      BY <1>2, <2>3, <3>1, ListsStay DEF Lacks
    <3>3. Lacks(v, j)
      BY <3>2 DEF Lacks
    <3>4. CASE \E w \in Visits : Loaded(w)
      BY <2>1, <3>2, <3>3, <3>4 DEF ReadOK
    <3>5. CASE ~\E w \in Visits : Loaded(w)
      BY <1>2, <2>1, <2>3, <3>2, <3>3, <3>5, ShownStays DEF ReadOK
    <3> QED
      BY <3>4, <3>5
  <2> QED
    BY <2>2, <2>3
<1> QED
  BY <1>1, <1>2

\* A selected video leaves the copy only as the answer of a load that lacks it.
LEMMA SelectionStep ==
  ASSUME PageTypeOK, UnknownOK, ReadOK, SelectionIsListed, [PageNext]_allVars
  PROVE  SelectionIsListed'
<1>0. selected \subseteq Jobs /\ TypeOK
  BY DEF PageTypeOK
<1>1. ASSUME NEW k \in Jobs, Publish(k) PROVE SelectionIsListed'
  <2>1. /\ selected' = selected /\ shown' = shown /\ overtaken' = overtaken
        /\ unseen \subseteq unseen'
    BY <1>1 DEF Publish
  <2>2. k \notin selected
    BY <1>1 DEF Publish, UnknownOK, Unlisted, IsListed, Unknown
  <2>3. \A j \in Jobs : j # k => videos'[j] = videos[j]
    BY <1>0, <1>1 DEF Publish, TypeOK
  <2> QED
    BY <1>0, <2>1, <2>2, <2>3 DEF SelectionIsListed
<1>2. CASE ~\E k \in Jobs : Publish(k)
  <2>1. \A j \in Jobs : IsListed(videos'[j]) => IsListed(videos[j])
    BY <1>0, <1>2, PageIsLibraryMove, ListedStaysLinked
  <2>2. ASSUME NEW v \in Visits, Loaded(v) PROVE SelectionIsListed'
    BY <1>0, <2>1, <2>2 DEF Loaded, ReadOK, Lacks, SelectionIsListed
  <2>3. CASE PageNext /\ ~\E v \in Visits : Loaded(v)
    <3>1. selected' \subseteq Jobs
      BY PageTypeStep DEF PageTypeOK
    <3> QED
      BY <1>2, <2>1, <2>3, <3>1, ShownStays DEF SelectionIsListed
  <2>4. CASE UNCHANGED allVars
    BY <1>0, <2>1, <2>4 DEF allVars, pageVars, SelectionIsListed
  <2> QED
    BY <2>2, <2>3, <2>4
<1> QED
  BY <1>1, <1>2

\* A selected video that is still in the library is in the page's copy, unless
\* the copy's list was read before the video was published and answered after
\* a later visit's, for any number of visits whose loads overlap, calls at a
\* time, failures and other clients (library.svelte.ts:15-20, +page.svelte:20).
THEOREM SelectionStaysListed == PageSpec => []SelectionIsListed
<1>1. PageInit => ReadOK /\ SelectionIsListed
  BY DEF PageInit, NoLoad, ReadOK, Lacks, SelectionIsListed
<1>2. PageTypeOK /\ UnknownOK /\ [PageNext]_allVars => UnknownOK'
  BY UnknownStep
<1>3. PageTypeOK /\ UnknownOK /\ ReadOK /\ SelectionIsListed /\ [PageNext]_allVars =>
        ReadOK' /\ SelectionIsListed'
  BY ReadStep, SelectionStep
<1> QED
  BY PageTypeCorrect, UnknownInit, <1>1, <1>2, <1>3, PTL DEF PageSpec

-----------------------------------------------------------------------------
(* What one step of the page's request does.                                *)

\* A loop has gone on with the videos left, or the request is over.
LEMMA ContinueGives ==
  ASSUME TypeOK, NEW h \in Handlers, NEW j,
         NEW loop \in RequestPc \ {"idle"}, NEW after \in RequestPc,
         Continue(h, j, loop, after)
  PROVE  /\ request'[h].todo = request[h].todo \ {j}
         /\ \/ /\ request'[h].pc = loop /\ request'[h].folder = request[h].folder
            \/ /\ request'[h].pc = after /\ request[h].todo \ {j} = {}
               /\ IF after = "idle" THEN request'[h] = NoRequest
                  ELSE request'[h].folder = request[h].folder
<1> DEFINE left == request[h].todo \ {j}
           pc == IF left = {} THEN after ELSE loop
           r == [request[h] EXCEPT !.pc = pc, !.todo = left,
                                   !.video = None, !.keys = <<>>]
<1>1. request[h] \in Request /\ h \in DOMAIN request
  BY DEF TypeOK
<1>2. r.pc = pc /\ r.todo = left /\ r.folder = request[h].folder
  BY <1>1 DEF Request
<1>3. NoRequest.todo = {} /\ NoRequest.pc = "idle"
  BY DEF NoRequest
<1>4. IF left = {} /\ after = "idle" THEN request'[h] = NoRequest ELSE request'[h] = r
  BY <1>1 DEF Continue, Ended
<1> HIDE DEF r
<1> QED
  BY <1>2, <1>3, <1>4

\* A video that is still listed after a step was listed before, in the folder
\* it is in unless the step has moved it there.
Moves(S, f) ==
  \A k \in Jobs : IsListed(videos'[k]) =>
    /\ IsListed(videos[k])
    /\ videos'[k].folder_id = IF k \in S THEN f ELSE videos[k].folder_id

LEMMA RefolderMoves ==
  ASSUME TypeOK, NEW j, NEW f, videos[j] # None,
         videos' = [videos EXCEPT ![j].folder_id = f]
  PROVE  Moves({j}, f)
<1> SUFFICES ASSUME NEW k \in Jobs, IsListed(videos'[k])
             PROVE  /\ IsListed(videos[k])
                    /\ videos'[k].folder_id = IF k \in {j} THEN f ELSE videos[k].folder_id
  BY DEF Moves
<1>1. CASE k # j
  BY <1>1 DEF TypeOK
<1>2. CASE k = j
  <2>1. videos[j] \in Video /\ videos'[k] = [videos[j] EXCEPT !.folder_id = f]
    BY <1>2 DEF TypeOK
  <2>2. videos'[k].status = videos[j].status /\ videos'[k].folder_id = f
    BY <2>1 DEF Video
  <2> QED
    BY <1>2, <2>2 DEF IsListed
<1> QED
  BY <1>1, <1>2

\* A move: the videos done by this step are in the target.
MoveEffect(h) ==
  /\ folders' = folders
  /\ request'[h].todo \subseteq request[h].todo
  /\ Moves(request[h].todo \ request'[h].todo, request[h].folder)
  /\ \/ /\ request'[h].pc \in {"move", "relocate"}
        /\ request'[h].folder = request[h].folder
        /\ request'[h].pc = "relocate" => request'[h].video \in request'[h].todo
     \/ request'[h] = NoRequest

LEMMA MoveStep ==
  ASSUME TypeOK, NEW h \in Handlers, HandlerStep(h),
         request[h].pc \in {"move", "relocate"},
         request[h].pc = "relocate" => request[h].video \in request[h].todo
  PROVE  MoveEffect(h)
<1>1. request[h] \in Request /\ h \in DOMAIN request
  BY DEF TypeOK
<1>2. CASE Relocate(h)
  <2> DEFINE j == request[h].video
  <2>1. /\ videos[j] # None /\ j \in request[h].todo /\ folders' = folders
        /\ videos' = [videos EXCEPT ![j].folder_id = request[h].folder]
        /\ Continue(h, j, "move", "idle")
    BY <1>2 DEF Relocate
  <2>2. /\ request'[h].todo = request[h].todo \ {j}
        /\ \/ request'[h].pc = "move" /\ request'[h].folder = request[h].folder
           \/ request'[h] = NoRequest
    BY <2>1, ContinueGives DEF RequestPc
  <2>3. request[h].todo \ request'[h].todo = {j}
    BY <2>1, <2>2
  <2> QED
    BY <2>1, <2>2, <2>3, RefolderMoves DEF MoveEffect
<1>3. ASSUME NEW j \in Jobs, ReadMoved(h, j) PROVE MoveEffect(h)
  <2>1. j \in request[h].todo /\ videos' = videos /\ folders' = folders
    BY <1>3 DEF ReadMoved
  <2>2. CASE videos[j] = None \/ videos[j].folder_id = request[h].folder
    <3>1. /\ request'[h].todo = request[h].todo \ {j}
          /\ \/ request'[h].pc = "move" /\ request'[h].folder = request[h].folder
             \/ request'[h] = NoRequest
      BY <1>3, <2>2, ContinueGives DEF ReadMoved, RequestPc
    <3>2. request[h].todo \ request'[h].todo = {j}
      BY <2>1, <3>1
    <3>3. Moves({j}, request[h].folder)
      BY <2>1, <2>2 DEF Moves, IsListed
    <3> QED
      BY <2>1, <3>1, <3>2, <3>3 DEF MoveEffect
  <2>3. CASE ~(videos[j] = None \/ videos[j].folder_id = request[h].folder)
    <3> DEFINE r == [request[h] EXCEPT !.pc = "relocate", !.video = j]
    <3>1. /\ r.pc = "relocate" /\ r.video = j /\ r.folder = request[h].folder
          /\ r.todo = request[h].todo
      BY <1>1 DEF Request
    <3>2. request'[h] = r
      BY <1>1, <1>3, <2>3 DEF ReadMoved
    <3> HIDE DEF r
    <3>3. Moves({}, request[h].folder)
      BY <2>1 DEF Moves
    <3>4. request[h].todo \ request'[h].todo = {}
      BY <3>1, <3>2
    <3> QED
      BY <2>1, <3>1, <3>2, <3>3, <3>4 DEF MoveEffect
  <2> QED
    BY <2>2, <2>3
<1> QED
  BY <1>2, <1>3 DEF HandlerStep, ListFolder, DropFolder, EraseObject, EraseVideo,
     Unsort, ReadDeleted

\* A deletion: the videos done by this step are no longer there.
DeleteEffect(h) ==
  /\ folders' = folders
  /\ request'[h].todo \subseteq request[h].todo
  /\ Moves({}, None)
  /\ \A k \in request[h].todo \ request'[h].todo : k \in Jobs => ~IsListed(videos'[k])
  /\ \/ /\ request'[h].pc \in {"delete", "erase"}
        /\ request'[h].folder = request[h].folder
        /\ request'[h].pc = "erase" => request'[h].video \in request'[h].todo
     \/ request'[h] = NoRequest

LEMMA DeleteStep ==
  ASSUME TypeOK, NEW h \in Handlers, HandlerStep(h),
         request[h].pc \in {"delete", "erase"},
         request[h].pc = "erase" => request[h].video \in request[h].todo
  PROVE  DeleteEffect(h)
<1>1. request[h] \in Request /\ h \in DOMAIN request
  BY DEF TypeOK
<1>2. CASE EraseVideo(h)
  <2> DEFINE j == request[h].video
  <2>1. /\ j \in request[h].todo /\ folders' = folders
        /\ videos' = [videos EXCEPT ![j] = None]
        /\ Continue(h, j, "delete", "idle")
    BY <1>2 DEF EraseVideo
  <2>2. /\ request'[h].todo = request[h].todo \ {j}
        /\ \/ request'[h].pc = "delete" /\ request'[h].folder = request[h].folder
           \/ request'[h] = NoRequest
    BY <2>1, ContinueGives DEF RequestPc
  <2>3. Moves({}, None) /\ (j \in Jobs => ~IsListed(videos'[j]))
    BY <2>1 DEF Moves, IsListed, TypeOK
  <2> QED
    BY <2>1, <2>2, <2>3 DEF DeleteEffect
<1>3. CASE EraseObject(h)
  <2> DEFINE r == [request[h] EXCEPT !.keys = Tail(request[h].keys)]
  <2>1. /\ r.pc = "erase" /\ r.video = request[h].video /\ r.todo = request[h].todo
        /\ r.folder = request[h].folder
    BY <1>1, <1>3 DEF Request, EraseObject
  <2>2. request'[h] = r /\ videos' = videos /\ folders' = folders
        /\ request[h].video \in request[h].todo
    BY <1>1, <1>3 DEF EraseObject
  <2> HIDE DEF r
  <2>3. Moves({}, None)
    BY <2>2 DEF Moves
  <2> QED
    BY <2>1, <2>2, <2>3 DEF DeleteEffect
<1>4. ASSUME NEW j \in Jobs, ReadDeleted(h, j) PROVE DeleteEffect(h)
  <2>1. j \in request[h].todo /\ videos' = videos /\ folders' = folders
    BY <1>4 DEF ReadDeleted
  <2>2. Moves({}, None)
    BY <2>1 DEF Moves
  <2>3. CASE videos[j] = None
    <3>1. /\ request'[h].todo = request[h].todo \ {j}
          /\ \/ request'[h].pc = "delete" /\ request'[h].folder = request[h].folder
             \/ request'[h] = NoRequest
      BY <1>4, <2>3, ContinueGives DEF ReadDeleted, RequestPc
    <3> QED
      BY <2>1, <2>2, <2>3, <3>1 DEF DeleteEffect, IsListed
  <2>4. CASE videos[j] # None
    <3> DEFINE r == [request[h] EXCEPT !.pc = "erase", !.video = j,
                                       !.keys = Links(videos[j], j)]
    <3>1. /\ r.pc = "erase" /\ r.video = j /\ r.folder = request[h].folder
          /\ r.todo = request[h].todo
      BY <1>1 DEF Request
    <3>2. request'[h] = r
      BY <1>1, <1>4, <2>4 DEF ReadDeleted
    <3> HIDE DEF r
    <3> QED
      BY <2>1, <2>2, <3>1, <3>2 DEF DeleteEffect
  <2> QED
    BY <2>3, <2>4
<1> QED
  BY <1>2, <1>3, <1>4 DEF HandlerStep, ListFolder, DropFolder, Relocate,
     Unsort, ReadMoved

\* Deleting a folder: listed, emptied one by one, then dropped.
EmptyEffect(h) ==
  LET f == request[h].folder IN
  \/ /\ request[h].pc = "list" /\ videos' = videos /\ folders' = folders
     /\ request'[h].pc \in {"unsort", "drop"} /\ request'[h].folder = f
     /\ request'[h].todo = {j \in Jobs : IsListed(videos[j]) /\ videos[j].folder_id = f}
     /\ request'[h].pc = "drop" => request'[h].todo = {}
  \/ /\ request[h].pc = "unsort" /\ folders' = folders
     /\ request'[h].pc \in {"unsort", "drop"} /\ request'[h].folder = f
     /\ \E j \in request[h].todo :
          request'[h].todo = request[h].todo \ {j} /\ Moves({j}, None)
     /\ request'[h].pc = "drop" => request'[h].todo = {}
  \/ /\ request[h].pc = "drop" /\ videos' = videos
     /\ folders' = [folders EXCEPT ![f] = "gone"]
     /\ request'[h] = NoRequest

LEMMA EmptyStep ==
  ASSUME TypeOK, NEW h \in Handlers, HandlerStep(h),
         request[h].pc \in {"list", "unsort", "drop"}
  PROVE  EmptyEffect(h)
<1>1. request[h] \in Request /\ h \in DOMAIN request
  BY DEF TypeOK
<1>2. CASE ListFolder(h)
  <2> DEFINE inside == {j \in Jobs : IsListed(videos[j])
                                     /\ videos[j].folder_id = request[h].folder}
             pc == IF inside = {} THEN "drop" ELSE "unsort"
             r == [request[h] EXCEPT !.todo = inside, !.pc = pc]
  <2>1. r.pc = pc /\ r.todo = inside /\ r.folder = request[h].folder
    BY <1>1 DEF Request
  <2>2. /\ request'[h] = r /\ request[h].pc = "list"
        /\ videos' = videos /\ folders' = folders
    BY <1>1, <1>2 DEF ListFolder
  <2> HIDE DEF r
  <2> QED
    BY <2>1, <2>2 DEF EmptyEffect
<1>3. ASSUME NEW j \in Jobs, Unsort(h, j) PROVE EmptyEffect(h)
  <2>1. /\ request[h].pc = "unsort" /\ j \in request[h].todo /\ videos[j] # None
        /\ videos' = [videos EXCEPT ![j].folder_id = None]
        /\ Continue(h, j, "unsort", "drop") /\ folders' = folders
    BY <1>3 DEF Unsort
  <2>2. /\ request'[h].todo = request[h].todo \ {j}
        /\ request'[h].folder = request[h].folder
        /\ \/ request'[h].pc = "unsort"
           \/ request'[h].pc = "drop" /\ request[h].todo \ {j} = {}
    BY <2>1, ContinueGives DEF RequestPc
  <2>3. Moves({j}, None)
    BY <2>1, RefolderMoves
  <2> QED
    BY <2>1, <2>2, <2>3 DEF EmptyEffect
<1>4. CASE DropFolder(h)
  BY <1>1, <1>4 DEF DropFolder, Ended, EmptyEffect
<1> QED
  BY <1>2, <1>3, <1>4 DEF HandlerStep, Relocate, EraseObject, EraseVideo, ReadMoved,
     ReadDeleted

-----------------------------------------------------------------------------
(* One call at a time: the copy is true.                                    *)

\* A call that is awaited is a request under way, with as much of its videos
\* left; any other call has none.
CallFits(h) ==
  /\ call[h].answer = "none" => call[h] = NoCall
  /\ call[h].kind \in {"create_folder", "delete_folder"} => call[h].folder \in Folders
  /\ call[h].answer # "awaited" => request[h] = NoRequest
  /\ call[h].answer = "awaited" =>
       /\ request[h].folder = call[h].folder
       /\ \/ /\ call[h].kind = "move" /\ request[h].pc \in {"move", "relocate"}
             /\ request[h].todo \subseteq call[h].ids
          \/ /\ call[h].kind = "delete" /\ request[h].pc \in {"delete", "erase"}
             /\ request[h].todo \subseteq call[h].ids
          \/ call[h].kind = "delete_folder" /\ request[h].pc \in {"list", "unsort", "drop"}
       /\ request[h].pc \in {"relocate", "erase"} => request[h].video \in request[h].todo

\* The folder a request is about is there as long as the request is, and what is
\* left in a folder that is being deleted is still to be taken out.
FolderFits(h) ==
  /\ request[h].pc \in {"move", "relocate"} /\ request[h].folder # None =>
       folders[request[h].folder] = "exists"
  /\ request[h].pc \in {"list", "unsort", "drop"} =>
       request[h].folder \in Folders /\ folders[request[h].folder] = "exists"
  /\ request[h].pc \in {"unsort", "drop"} =>
       \A j \in Jobs : IsListed(videos[j]) =>
         (videos[j].folder_id = request[h].folder <=> j \in request[h].todo)
  /\ request[h].pc = "drop" => request[h].todo = {}

\* The other clients delete.
OthersDelete ==
  \A g \in Handlers \ Mine : request[g].pc \in {"idle", "delete", "erase"}

\* What a load that met no call has read is still so.
Fits(h, l) ==
  l.clean =>
    /\ call[h] = NoCall
    /\ l.videos # Unread =>
         \A j \in Jobs : IsListed(videos[j]) /\ j \notin l.unseen =>
           l.videos[j] = videos[j].folder_id
    /\ l.sections # Unread =>
         /\ \A f \in Folders : l.sections[f] > 0 =>
              l.sections[f] = 1 /\ folders[f] = "exists"
         /\ \A j \in Jobs : IsListed(videos[j]) /\ videos[j].folder_id # None =>
              l.sections[videos[j].folder_id] > 0

LoadFits(h) == \A v \in Visits : Fits(h, load[v])

\* The page's call has done its deed to video j, which the copy does not show yet.
Done(h, j) ==
  /\ j \notin request[h].todo
  /\ \/ call[h].kind \in {"move", "delete"} /\ j \in call[h].ids
     \/ /\ call[h].kind = "delete_folder" /\ request[h].pc # "list"
        /\ shown[j] = call[h].folder

\* Where the copy will show the video when the answer is in.
Lands(h, j) ==
  IF ~Done(h, j) THEN shown[j]
  ELSE IF call[h].kind = "move" THEN call[h].folder ELSE None

CopyFits(h) ==
  ~stale /\ call[h].answer # "error" =>
    /\ \A j \in Jobs : IsListed(videos[j]) /\ j \notin unseen =>
         /\ Visible(j) /\ videos[j].folder_id = Lands(h, j)
         /\ call[h].kind = "delete" => ~Done(h, j)
    /\ \A f \in Folders : sections[f] > 0 =>
         /\ sections[f] = 1
         /\ \/ folders[f] = "exists"
            \/ call[h].kind = "delete_folder" /\ call[h].answer = "ok" /\ call[h].folder = f
    /\ call[h].kind = "move" /\ call[h].folder # None => sections[call[h].folder] > 0
    /\ call[h].kind = "create_folder" =>
         sections[call[h].folder] = 0 /\ folders[call[h].folder] = "exists"

\* The inductive invariant.
TruthOK(h) ==
  CallFits(h) /\ FolderFits(h) /\ NoDanglingFolder /\ OthersDelete /\ LoadFits(h) /\ CopyFits(h)

LEMMA TruthInit ==
  ASSUME NEW h \in Mine, PageInit
  PROVE  TruthOK(h)
<1>1. /\ \A g \in Handlers : request[g] = NoRequest
      /\ call[h] = NoCall /\ stale /\ \A v \in Visits : load[v] = NoLoad
  BY PageAssumption DEF PageInit, LibraryOf, NoRequests
<1>2. \A j \in Jobs : videos[j].folder_id = None
  BY LibraryOfVideos DEF PageInit
<1>3. NoDanglingFolder
  BY <1>2 DEF NoDanglingFolder
<1>4. CallFits(h)
  <2>1. NoCall.answer = "none" /\ NoCall.kind = None
    BY DEF NoCall
  <2> QED
    BY <1>1, <2>1, PageAssumption DEF CallFits, CallKind
<1>5. FolderFits(h) /\ OthersDelete
  BY <1>1, PageAssumption DEF FolderFits, OthersDelete, NoRequest
<1>6. LoadFits(h) /\ CopyFits(h)
  BY <1>1 DEF LoadFits, Fits, CopyFits, NoLoad
<1> QED
  BY <1>3, <1>4, <1>5, <1>6 DEF TruthOK

\* The library is as it was, or has lost videos, or has new folders, and the
\* page's request and its call and copy are untouched.
LEMMA ShrinkKeepsTruth ==
  ASSUME NEW h \in Mine, TruthOK(h), UNCHANGED pageVars,
         request'[h] = request[h], OthersDelete', Moves({}, None),
         \A f \in Folders : folders[f] = "exists" => folders'[f] = "exists",
         PageTypeOK
  PROVE  TruthOK(h)'
<1>1. /\ UNCHANGED <<shown, sections, call, load, stale, unseen>>
      /\ \A j \in Jobs : IsListed(videos'[j]) =>
           IsListed(videos[j]) /\ videos'[j].folder_id = videos[j].folder_id
  BY DEF pageVars, Moves
<1>2. \A j \in Jobs : IsListed(videos[j]) => videos[j].folder_id \in Folders \cup {None}
  BY DEF PageTypeOK, TypeOK, Video, IsListed
<1>3. request[h].folder \in Folders \cup {None} /\ call[h].folder \in Folders \cup {None}
  BY PageAssumption DEF PageTypeOK, TypeOK, Request, Call
<1>4. CallFits(h)'
  BY <1>1 DEF TruthOK, CallFits
<1>5. FolderFits(h)'
  BY <1>1, <1>3 DEF TruthOK, FolderFits
<1>6. NoDanglingFolder'
  BY <1>1, <1>2 DEF TruthOK, NoDanglingFolder
<1>7. LoadFits(h)'
  BY <1>1 DEF TruthOK, LoadFits, Fits
<1>8. CopyFits(h)'
  <2> SUFFICES ASSUME ~stale, call[h].answer # "error" PROVE CopyFits(h)'
    BY <1>1 DEF CopyFits
  <2>1. ASSUME NEW j \in Jobs, IsListed(videos'[j]), j \notin unseen
        PROVE  /\ Visible(j)' /\ videos'[j].folder_id = Lands(h, j)'
               /\ call'[h].kind = "delete" => ~Done(h, j)'
    BY <1>1, <2>1 DEF TruthOK, CopyFits, Visible, Lands, Done
  <2>2. /\ \A f \in Folders : sections[f] > 0 =>
             /\ sections[f] = 1
             /\ \/ folders'[f] = "exists"
                \/ call[h].kind = "delete_folder" /\ call[h].answer = "ok" /\ call[h].folder = f
        /\ call[h].kind = "move" /\ call[h].folder # None => sections[call[h].folder] > 0
    BY DEF TruthOK, CopyFits
  <2>3. call[h].kind = "create_folder" =>
          sections[call[h].folder] = 0 /\ folders'[call[h].folder] = "exists"
    BY <1>3 DEF TruthOK, CopyFits, CallFits
  <2> QED
    BY <1>1, <2>1, <2>2, <2>3 DEF CopyFits
<1> QED
  BY <1>4, <1>5, <1>6, <1>7, <1>8 DEF TruthOK

\* A step of another handler's leaves the page's request alone.
LEMMA OtherRequestsStay ==
  ASSUME TypeOK, NEW h \in Handlers, NEW g \in Handlers \ {h},
         HandlerStep(g) \/ VideoNotFound(g) \/ HandlerDies(g)
           \/ \E ids : BeginDelete(g, ids)
  PROVE  request'[h] = request[h]
<1>1. ASSUME NEW r, request' = [request EXCEPT ![g] = r] PROVE request'[h] = request[h]
  BY <1>1 DEF TypeOK
<1>2. ASSUME Ended(g) PROVE request'[h] = request[h]
  BY <1>1, <1>2 DEF Ended
<1>3. ASSUME NEW j, NEW loop, NEW after, Continue(g, j, loop, after)
      PROVE  request'[h] = request[h]
  BY <1>1, <1>2, <1>3 DEF Continue
<1>4. CASE HandlerStep(g)
  BY <1>1, <1>2, <1>3, <1>4
     DEF HandlerStep, Relocate, ListFolder, DropFolder, EraseObject, EraseVideo,
         ReadMoved, Unsort, ReadDeleted
<1> QED
  BY <1>1, <1>2, <1>4 DEF VideoNotFound, HandlerDies, BeginDelete

\* What the other clients do takes videos away and adds folders.
LEMMA OthersKeepTruth ==
  ASSUME NEW h \in Mine, PageTypeOK, TruthOK(h), OthersStep
  PROVE  TruthOK(h)'
<1>0. h \in Mine /\ h \in Handlers /\ TypeOK
  BY PageAssumption DEF PageTypeOK
<1>1. UNCHANGED pageVars
  BY DEF OthersStep
<1>2. ASSUME NEW f \in Folders, CreateFolder(f) PROVE TruthOK(h)'
  <2>1. /\ videos' = videos /\ request' = request
        /\ \A e \in Folders : folders[e] = "exists" => folders'[e] = "exists"
    BY <1>0, <1>2 DEF CreateFolder, TypeOK
  <2>2. Moves({}, None)
    BY <2>1 DEF Moves
  <2>3. OthersDelete'
    BY <2>1 DEF TruthOK, OthersDelete
  <2> QED
    BY <1>0, <1>1, <2>1, <2>2, <2>3, ShrinkKeepsTruth
<1>3. ASSUME NEW g \in Handlers \ Mine,
             \/ HandlerStep(g) \/ VideoNotFound(g) \/ HandlerDies(g)
             \/ \E j \in Named : BeginDelete(g, {j})
      PROVE  TruthOK(h)'
  <2>1. request[g] \in Request /\ request[g].pc \in {"idle", "delete", "erase"}
    BY <1>0 DEF TypeOK, TruthOK, OthersDelete
  <2>2. request'[h] = request[h]
    BY <1>0, <1>3, OtherRequestsStay
  <2>3. ASSUME NEW x \in Handlers \ Mine, x # g PROVE request'[x] = request[x]
    BY <1>0, <1>3, <2>3, OtherRequestsStay
  <2>4. request'[g].pc \in {"idle", "delete", "erase"}
    <3>1. ASSUME Ended(g) PROVE request'[g].pc = "idle"
      BY <1>0, <3>1 DEF Ended, NoRequest, TypeOK
    <3>2. ASSUME NEW ids, BeginDelete(g, ids) PROVE request'[g].pc = "delete"
      BY <1>0, <3>2 DEF BeginDelete, NoRequest, TypeOK
    <3>3. ASSUME NEW j, Continue(g, j, "delete", "idle")
          PROVE  request'[g].pc \in {"idle", "delete"}
      BY <1>0, <3>3, ContinueGives DEF RequestPc, NoRequest
    <3>4. ASSUME EraseObject(g) PROVE request'[g].pc = "erase"
      BY <1>0, <2>1, <3>4 DEF EraseObject, TypeOK, Request
    <3>5. ASSUME NEW j \in Jobs, ReadDeleted(g, j)
          PROVE  request'[g].pc \in {"idle", "delete", "erase"}
      <4> DEFINE r == [request[g] EXCEPT !.pc = "erase", !.video = j,
                                         !.keys = Links(videos[j], j)]
      <4>1. r.pc = "erase"
        BY <2>1 DEF Request
      <4>2. request'[g] = r \/ Continue(g, j, "delete", "idle")
        BY <1>0, <3>5 DEF ReadDeleted, TypeOK
      <4> HIDE DEF r
      <4> QED
        BY <3>3, <4>1, <4>2
    <3> QED
      BY <1>3, <2>1, <3>1, <3>2, <3>3, <3>4, <3>5
         DEF HandlerStep, Relocate, ListFolder, DropFolder, EraseVideo, ReadMoved,
             Unsort, VideoNotFound, HandlerDies
  <2>5. OthersDelete'
    BY <2>3, <2>4 DEF TruthOK, OthersDelete
  <2>6. Moves({}, None) /\ folders' = folders
    <3>1. CASE EraseVideo(g)
      BY <1>0, <3>1 DEF EraseVideo, Moves, IsListed, TypeOK
    <3>2. CASE videos' = videos /\ folders' = folders
      BY <3>2 DEF Moves
    <3> QED
      BY <1>3, <2>1, <3>1, <3>2
         DEF HandlerStep, Relocate, ListFolder, DropFolder, EraseObject, ReadMoved,
             Unsort, ReadDeleted, VideoNotFound, HandlerDies, BeginDelete
  <2> QED
    BY <1>0, <1>1, <2>2, <2>5, <2>6, ShrinkKeepsTruth
<1> QED
  BY <1>2, <1>3 DEF OthersStep

\* A step that leaves the library, the copy and the call is about a load at most.
LEMMA QuietKeepsTruth ==
  ASSUME NEW h, TruthOK(h), LoadFits(h)',
         UNCHANGED <<libraryVars, shown, sections, call, stale, unseen>>
  PROVE  TruthOK(h)'
<1>1. /\ videos' = videos /\ folders' = folders /\ request' = request
      /\ shown' = shown /\ sections' = sections /\ call' = call /\ stale' = stale
  BY DEF libraryVars
<1>2. CallFits(h)' /\ FolderFits(h)' /\ OthersDelete'
  BY <1>1 DEF TruthOK, CallFits, FolderFits, OthersDelete
<1>3. NoDanglingFolder'
  BY <1>1 DEF TruthOK, NoDanglingFolder
<1>4. CopyFits(h)'
  BY <1>1 DEF TruthOK, CopyFits, Visible, Lands, Done
<1> QED
  BY <1>2, <1>3, <1>4 DEF TruthOK

\* Opening the page, the two reads and the copy they fill.
LEMMA LoadKeepsTruth ==
  ASSUME NEW h \in Mine, PageTypeOK, TruthOK(h), NEW v \in Visits,
         Open(v) \/ ReadVideos(v) \/ ReadFolders(v) \/ Loaded(v) \/ LoadFails(v)
  PROVE  TruthOK(h)'
<1>1. load \in [Visits -> Load] /\ load[v] \in Load /\ Absent \notin Folders \cup {None}
  BY PageAssumption DEF PageTypeOK
<1>2. ASSUME UNCHANGED <<libraryVars, call>>, \A w \in Visits : w # v => load'[w] = load[w],
             Fits(h, load'[v])
      PROVE  LoadFits(h)'
  <2>1. \A w \in Visits : Fits(h, load'[w])
    BY <1>2 DEF TruthOK, LoadFits
  <2> QED
    BY <1>2, <2>1 DEF LoadFits, Fits, libraryVars
<1>3. CASE Open(v)
  <2>1. /\ load'[v].clean = NoCalls /\ load'[v].videos = Unread /\ load'[v].sections = Unread
        /\ \A w \in Visits : w # v => load'[w] = load[w]
        /\ UNCHANGED <<libraryVars, shown, sections, call, stale, unseen>>
    BY <1>1, <1>3 DEF Open, NoLoad
  <2>2. Fits(h, load'[v])
    BY <2>1 DEF Fits, NoCalls
  <2> QED
    BY <1>2, <2>1, <2>2, QuietKeepsTruth
<1>4. CASE LoadFails(v)
  <2>1. /\ load'[v].clean = FALSE /\ \A w \in Visits : w # v => load'[w] = load[w]
        /\ UNCHANGED <<libraryVars, shown, sections, call, stale, unseen>>
    BY <1>1, <1>4 DEF LoadFails, NoLoad
  <2>2. Fits(h, load'[v])
    BY <2>1 DEF Fits
  <2> QED
    BY <1>2, <2>1, <2>2, QuietKeepsTruth
<1>5. CASE ReadVideos(v)
  <2> DEFINE list == [j \in Jobs |-> IF IsListed(videos[j]) THEN videos[j].folder_id
                                     ELSE Absent]
  <2>1. /\ load'[v].clean = load[v].clean /\ load'[v].videos = list
        /\ load'[v].sections = load[v].sections
        /\ \A w \in Visits : w # v => load'[w] = load[w]
        /\ UNCHANGED <<libraryVars, shown, sections, call, stale, unseen>>
    BY <1>1, <1>5 DEF ReadVideos, Load
  <2>2. \A j \in Jobs : IsListed(videos[j]) => list[j] = videos[j].folder_id
    OBVIOUS
  <2> HIDE DEF list
  <2>3. Fits(h, load[v])
    BY DEF TruthOK, LoadFits
  <2>4. Fits(h, load'[v])
    BY <2>1, <2>2, <2>3 DEF Fits
  <2> QED
    BY <1>2, <2>1, <2>4, QuietKeepsTruth
<1>6. CASE ReadFolders(v)
  <2> DEFINE list == [f \in Folders |-> IF folders[f] = "exists" THEN 1 ELSE 0]
  <2>1. /\ load'[v].clean = load[v].clean /\ load'[v].sections = list
        /\ load'[v].videos = load[v].videos /\ load'[v].unseen = load[v].unseen
        /\ \A w \in Visits : w # v => load'[w] = load[w]
        /\ UNCHANGED <<libraryVars, shown, sections, call, stale, unseen>>
    BY <1>1, <1>6 DEF ReadFolders, Load
  <2>2. \A f \in Folders : list[f] > 0 => list[f] = 1 /\ folders[f] = "exists"
    OBVIOUS
  <2>3. ASSUME NEW j \in Jobs, IsListed(videos[j]), videos[j].folder_id # None
        PROVE  list[videos[j].folder_id] > 0
    <3>1. videos[j].folder_id \in Folders
      BY <2>3 DEF PageTypeOK, TypeOK, Video, IsListed
    <3> QED
      BY <2>3, <3>1 DEF TruthOK, NoDanglingFolder
  <2> HIDE DEF list
  <2>4. Fits(h, load[v])
    BY DEF TruthOK, LoadFits
  <2>5. Fits(h, load'[v])
    BY <2>1, <2>2, <2>3, <2>4 DEF Fits
  <2> QED
    BY <1>2, <2>1, <2>5, QuietKeepsTruth
<1>7. CASE Loaded(v)
  <2> DEFINE l == load[v]
             other(w) == [load[w] EXCEPT !.overtaken = load[w].videos # Unread]
  <2>1. /\ l.videos # Unread /\ l.sections # Unread
        /\ shown' = l.videos /\ sections' = l.sections /\ stale' = ~l.clean
        /\ unseen' = l.unseen
        /\ videos' = videos /\ folders' = folders /\ request' = request /\ call' = call
    BY <1>7 DEF Loaded, libraryVars
  <2>2. Fits(h, l)
    BY DEF TruthOK, LoadFits
  <2>3. LoadFits(h)'
    <3>1. ASSUME NEW w \in Visits
          PROVE  \/ ~load'[w].clean
                 \/ /\ load'[w].clean = load[w].clean /\ load'[w].videos = load[w].videos
                    /\ load'[w].sections = load[w].sections
                    /\ load'[w].unseen = load[w].unseen
      <4>1. /\ other(w).clean = load[w].clean /\ other(w).videos = load[w].videos
            /\ other(w).sections = load[w].sections /\ other(w).unseen = load[w].unseen
        BY <1>1 DEF Load
      <4>2. [NoLoad EXCEPT !.pc = "over"].clean = FALSE
        BY DEF NoLoad
      <4>3. load'[w] = other(w) \/ load'[w] = [NoLoad EXCEPT !.pc = "over"]
        BY <1>7 DEF Loaded
      <4> HIDE DEF other
      <4> QED
        BY <4>1, <4>2, <4>3
    <3>2. \A w \in Visits : Fits(h, load[w])
      BY DEF TruthOK, LoadFits
    <3> QED
      BY <2>1, <3>1, <3>2 DEF LoadFits, Fits
  <2>4. CallFits(h)' /\ FolderFits(h)' /\ OthersDelete'
    BY <2>1 DEF TruthOK, CallFits, FolderFits, OthersDelete
  <2>5. NoDanglingFolder'
    BY <2>1 DEF TruthOK, NoDanglingFolder
  <2>6. CopyFits(h)'
    <3> HIDE DEF l
    <3> SUFFICES ASSUME l.clean PROVE CopyFits(h)'
      BY <2>1 DEF CopyFits
    <3>1. call[h] = NoCall /\ call[h].kind = None
      BY <2>2 DEF Fits, NoCall
    <3>2. ASSUME NEW j \in Jobs, IsListed(videos[j]), j \notin l.unseen
          PROVE  Visible(j)' /\ videos[j].folder_id = Lands(h, j)'
      <4>1. shown'[j] = videos[j].folder_id
        BY <2>1, <2>2, <3>2 DEF Fits
      <4>2. videos[j].folder_id \in Folders \cup {None}
        BY <3>2 DEF PageTypeOK, TypeOK, Video, IsListed
      <4>3. videos[j].folder_id # None => sections'[videos[j].folder_id] > 0
        BY <2>1, <2>2, <3>2 DEF Fits
      <4>4. ~Done(h, j)'
        BY <2>1, <3>1, PageAssumption DEF Done, CallKind
      <4> QED
        BY <1>1, <4>1, <4>2, <4>3, <4>4 DEF Visible, Lands
    <3>3. \A f \in Folders : sections'[f] > 0 => sections'[f] = 1 /\ folders[f] = "exists"
      BY <2>1, <2>2 DEF Fits
    <3>4. None \notin {"move", "delete", "create_folder"}
      BY PageAssumption DEF CallKind
    <3> QED
      BY <2>1, <3>1, <3>2, <3>3, <3>4 DEF CopyFits
  <2> QED
    BY <2>3, <2>4, <2>5, <2>6 DEF TruthOK
<1> QED
  BY <1>3, <1>4, <1>5, <1>6, <1>7

\* A publication concerns neither the page's request nor what its lists show.
LEMMA PublishKeepsTruth ==
  ASSUME NEW h \in Mine, PageTypeOK, UnknownOK, TruthOK(h), NEW k \in Jobs, Publish(k)
  PROVE  TruthOK(h)'
<1>0. h \in Handlers /\ TypeOK /\ \A v \in Visits : load[v] \in Load
  BY PageAssumption DEF PageTypeOK
<1>1. PICK profile \in Implemented :
        videos' = [videos EXCEPT ![k] = Graded(videos[k], k, profile)]
  BY DEF Publish
<1>2. Unknown(k) /\ Unlisted(k)
  BY DEF Publish, UnknownOK, Unlisted, IsListed
<1>3. videos'[k].folder_id = None /\ k \notin request[h].todo
  <2>1. videos[k] \in Video /\ videos'[k] = Graded(videos[k], k, profile)
    BY <1>0, <1>1 DEF Publish, TypeOK
  <2> QED
    BY <1>0, <1>2, <2>1, GradedIsVideo DEF Unknown, Touches
<1>4. \A j \in Jobs : j # k => videos'[j] = videos[j]
  BY <1>0, <1>1 DEF TypeOK
<1>5. /\ UNCHANGED <<folders, request, shown, sections, call, stale>>
      /\ unseen' = unseen \cup {k}
  BY DEF Publish
<1>6. CallFits(h)' /\ OthersDelete'
  BY <1>5 DEF TruthOK, CallFits, OthersDelete
<1>7. FolderFits(h)'
  <2>1. request[h].pc \in {"list", "unsort", "drop"} => request[h].folder # None
    BY StoresAssumption DEF TruthOK, FolderFits
  <2> QED
    BY <1>3, <1>4, <1>5, <2>1 DEF TruthOK, FolderFits
<1>8. NoDanglingFolder'
  BY <1>3, <1>4, <1>5 DEF TruthOK, NoDanglingFolder
<1>9. LoadFits(h)'
  <2> SUFFICES ASSUME NEW v \in Visits PROVE Fits(h, load[v])'
    BY DEF LoadFits
  <2>1. Fits(h, load[v])
    BY DEF TruthOK, LoadFits
  <2> DEFINE l == [load[v] EXCEPT !.unseen = load[v].unseen \cup {k}]
  <2>2. /\ l.clean = load[v].clean /\ l.videos = load[v].videos
        /\ l.sections = load[v].sections /\ l.unseen = load[v].unseen \cup {k}
    BY <1>0 DEF Load
  <2>3. load'[v] = IF load[v].videos = Unread THEN load[v] ELSE l
    BY DEF Publish
  <2> HIDE DEF l
  <2>4. /\ load'[v].clean = load[v].clean /\ load'[v].videos = load[v].videos
        /\ load'[v].sections = load[v].sections
        /\ load[v].videos # Unread => load'[v].unseen = load[v].unseen \cup {k}
    BY <2>2, <2>3
  <2> QED
    BY <1>3, <1>4, <1>5, <2>1, <2>4 DEF Fits
<1>10. CopyFits(h)'
  BY <1>4, <1>5 DEF TruthOK, CopyFits, Visible, Lands, Done
<1> QED
  BY <1>6, <1>7, <1>8, <1>9, <1>10 DEF TruthOK

\* What a call that leaves the page asks for; before it there was none.
LEMMA SendGives ==
  ASSUME NEW h \in Mine, PageTypeOK, TruthOK(h),
         NEW kind \in CallKind, NEW ids \in SUBSET Jobs, NEW folder \in Folders \cup {None},
         NEW answer \in {"awaited", "ok", "error"}, Send(h, kind, ids, folder, answer)
  PROVE  /\ call[h] = NoCall /\ request[h] = NoRequest
         /\ call'[h].kind = kind /\ call'[h].ids = ids /\ call'[h].folder = folder
         /\ call'[h].answer = answer
         /\ \A v \in Visits : ~load'[v].clean
         /\ UNCHANGED <<shown, sections, stale, unseen>>
<1>1. call[h] = NoCall /\ call[h].answer # "awaited"
  BY DEF Send, NoCall
<1>2. request[h] = NoRequest
  BY <1>1 DEF TruthOK, CallFits
<1>3. call'[h] = [answer |-> answer, kind |-> kind, ids |-> ids, folder |-> folder]
  BY DEF Send, PageTypeOK
<1>4. \A v \in Visits : load'[v].clean = FALSE
  BY DEF Send, PageTypeOK, Load
<1> QED
  BY <1>1, <1>2, <1>3, <1>4 DEF Send

\* With no call pending the copy is what the library is.
LEMMA CopyWithoutCall ==
  ASSUME NEW h, TruthOK(h), call[h] = NoCall, ~stale
  PROVE  /\ \A j \in Jobs : IsListed(videos[j]) /\ j \notin unseen =>
              Visible(j) /\ videos[j].folder_id = shown[j]
         /\ \A f \in Folders : sections[f] > 0 => sections[f] = 1 /\ folders[f] = "exists"
<1>1. call[h].kind = None /\ call[h].answer = "none"
  BY DEF NoCall
<1>2. None \notin {"move", "delete", "delete_folder", "create_folder"}
  BY PageAssumption DEF CallKind
<1> QED
  BY <1>1, <1>2 DEF TruthOK, CopyFits, Done, Lands

\* A call that has done nothing yet, or is refused, leaves the invariant to what
\* it says of the request.
LEMMA SendKeepsTruth ==
  ASSUME NEW h \in Mine, PageTypeOK, TruthOK(h),
         NEW kind \in CallKind, NEW ids \in SUBSET Jobs, NEW folder \in Folders \cup {None},
         NEW answer \in {"awaited", "ok", "error"},
         Send(h, kind, ids, folder, answer),
         videos' = videos,
         \A f \in Folders : folders[f] = "exists" => folders'[f] = "exists",
         \A g \in Handlers \ Mine : request'[g] = request[g],
         CallFits(h)', FolderFits(h)',
         answer # "error" =>
           /\ kind \in {"move", "delete"} => request'[h].todo = ids
           /\ kind = "delete_folder" => request'[h].pc = "list"
           /\ kind = "move" /\ folder # None => sections[folder] > 0
           /\ kind = "create_folder" =>
                folder \in Folders /\ folders[folder] # "exists" /\ folders'[folder] = "exists"
  PROVE  TruthOK(h)'
<1>0. /\ call[h] = NoCall /\ request[h] = NoRequest
      /\ call'[h].kind = kind /\ call'[h].ids = ids /\ call'[h].folder = folder
      /\ call'[h].answer = answer
      /\ \A v \in Visits : ~load'[v].clean
      /\ UNCHANGED <<shown, sections, stale, unseen>>
  BY SendGives
<1>1. /\ call[h] = NoCall
      /\ call'[h].kind = kind /\ call'[h].ids = ids /\ call'[h].folder = folder
      /\ call'[h].answer = answer
      /\ UNCHANGED <<shown, sections, stale, unseen>>
  BY <1>0
<1>2. OthersDelete'
  BY DEF TruthOK, OthersDelete
<1>3. NoDanglingFolder'
  <2>1. \A j \in Jobs : IsListed(videos[j]) => videos[j].folder_id \in Folders \cup {None}
    BY DEF PageTypeOK, TypeOK, Video, IsListed
  <2> QED
    BY <2>1 DEF TruthOK, NoDanglingFolder
<1>4. LoadFits(h)'
  BY <1>0 DEF LoadFits, Fits
<1>5. CopyFits(h)'
  <2> SUFFICES ASSUME ~stale, answer # "error" PROVE CopyFits(h)'
    BY <1>1 DEF CopyFits
  <2>1. /\ \A j \in Jobs : IsListed(videos[j]) /\ j \notin unseen =>
             Visible(j) /\ videos[j].folder_id = shown[j]
        /\ \A f \in Folders : sections[f] > 0 => sections[f] = 1 /\ folders[f] = "exists"
    BY <1>1, CopyWithoutCall
  <2>2. \A j \in Jobs : ~Done(h, j)'
    BY <1>1 DEF Done
  <2>3. \A j \in Jobs : IsListed(videos[j]) /\ j \notin unseen =>
          Visible(j)' /\ videos[j].folder_id = Lands(h, j)'
    BY <1>1, <2>1, <2>2 DEF Visible, Lands
  <2>4. kind = "create_folder" => sections[folder] = 0
    BY <2>1 DEF PageTypeOK, Sections
  <2> QED
    BY <1>1, <2>1, <2>2, <2>3, <2>4 DEF CopyFits
<1> QED
  BY <1>2, <1>3, <1>4, <1>5 DEF TruthOK

\* A request that has just begun is the one the call asks for.
LEMMA UserKeepsTruth ==
  ASSUME NEW h \in Mine, PageTypeOK, TruthOK(h), \A g \in Mine : g = h, UserStep
  PROVE  TruthOK(h)'
<1>1. /\ TypeOK /\ h \in Handlers /\ selected \subseteq Jobs /\ h \notin Handlers \ Mine
      /\ None \notin CallKind /\ h \in DOMAIN request
  BY PageAssumption DEF PageTypeOK, TypeOK
<1>2. CASE \E v \in Visits : Open(v)
  BY <1>2, LoadKeepsTruth
<1>3. CASE ClearSelection \/ \E j \in Jobs : Toggle(j)
  <2>1. UNCHANGED <<libraryVars, shown, sections, call, load, stale, unseen>>
    BY <1>3 DEF ClearSelection, Toggle
  <2>2. LoadFits(h)'
    BY <2>1 DEF TruthOK, LoadFits, Fits, libraryVars
  <2> QED
    BY <2>1, <2>2, QuietKeepsTruth
<1>4. ASSUME NEW r, request' = [request EXCEPT ![h] = r]
      PROVE  request'[h] = r /\ \A g \in Handlers \ Mine : request'[g] = request[g]
  BY <1>1, <1>4 DEF TypeOK
<1>5. CASE DeleteSelected(h)
  <2> DEFINE r == [NoRequest EXCEPT !.pc = "delete", !.todo = selected]
  <2>1. /\ r.pc = "delete" /\ r.todo = selected /\ r.folder = None
    BY DEF NoRequest
  <2>2. /\ request' = [request EXCEPT ![h] = r]
        /\ videos' = videos /\ folders' = folders
        /\ Send(h, "delete", selected, None, "awaited")
    BY <1>5 DEF DeleteSelected, BeginDelete
  <2> HIDE DEF r
  <2>3. request'[h] = r /\ \A g \in Handlers \ Mine : request'[g] = request[g]
    BY <1>4, <2>2
  <2>4. call'[h].kind = "delete" /\ call'[h].ids = selected /\ call'[h].folder = None
        /\ call'[h].answer = "awaited"
    BY <1>1, <2>2, SendGives DEF CallKind
  <2>5. CallFits(h)'
    BY <2>1, <2>3, <2>4 DEF CallFits
  <2>6. FolderFits(h)'
    BY <2>1, <2>3 DEF FolderFits
  <2> QED
    BY <1>1, <2>1, <2>2, <2>3, <2>5, <2>6, SendKeepsTruth DEF CallKind
<1>6. ASSUME NEW j \in Jobs, NEW target \in Folders \cup {None}, Drag(h, j, target)
      PROVE  TruthOK(h)'
  <2> DEFINE ids == Dragged(j)
             r == [NoRequest EXCEPT !.pc = "move", !.folder = target, !.todo = ids]
  <2>1. /\ r.pc = "move" /\ r.todo = ids /\ r.folder = target
    BY DEF NoRequest
  <2>2. /\ request' = [request EXCEPT ![h] = r]
        /\ videos' = videos /\ folders' = folders
        /\ target # None => folders[target] = "exists" /\ sections[target] > 0
        /\ Send(h, "move", ids, target, "awaited")
    BY <1>6 DEF Drag, BeginMove
  <2> HIDE DEF r
  <2>3. request'[h] = r /\ \A g \in Handlers \ Mine : request'[g] = request[g]
    BY <1>4, <2>2
  <2>4. ids \in SUBSET Jobs
    BY <1>1 DEF Dragged
  <2> HIDE DEF ids
  <2>5. call'[h].kind = "move" /\ call'[h].ids = ids /\ call'[h].folder = target
        /\ call'[h].answer = "awaited"
    BY <1>1, <2>2, <2>4, SendGives DEF CallKind
  <2>6. CallFits(h)'
    BY <2>1, <2>3, <2>5 DEF CallFits
  <2>7. FolderFits(h)'
    BY <2>1, <2>2, <2>3 DEF FolderFits
  <2> QED
    BY <1>1, <2>1, <2>2, <2>3, <2>4, <2>6, <2>7, SendKeepsTruth DEF CallKind
<1>7. ASSUME NEW f \in Folders, DeleteFolder(h, f) PROVE TruthOK(h)'
  <2> DEFINE r == [NoRequest EXCEPT !.pc = "list", !.folder = f]
  <2>1. /\ r.pc = "list" /\ r.folder = f
    BY DEF NoRequest
  <2>2. /\ request' = [request EXCEPT ![h] = r]
        /\ videos' = videos /\ folders' = folders /\ folders[f] = "exists"
        /\ Send(h, "delete_folder", {}, f, "awaited")
    BY <1>7 DEF DeleteFolder, StartDeleteFolder
  <2> HIDE DEF r
  <2>3. request'[h] = r /\ \A g \in Handlers \ Mine : request'[g] = request[g]
    BY <1>4, <2>2
  <2>4. call'[h].kind = "delete_folder" /\ call'[h].folder = f
        /\ call'[h].answer = "awaited"
    BY <1>1, <2>2, SendGives DEF CallKind
  <2>5. CallFits(h)'
    BY <2>1, <2>3, <2>4 DEF CallFits
  <2>6. FolderFits(h)'
    BY <2>1, <2>2, <2>3 DEF FolderFits
  <2> QED
    BY <1>1, <2>1, <2>2, <2>3, <2>5, <2>6, SendKeepsTruth DEF CallKind
<1>8. ASSUME NEW kind \in CallKind, NEW ids \in SUBSET Jobs,
             NEW f \in Folders, UNCHANGED libraryVars, Send(h, kind, ids, f, "error")
      PROVE  TruthOK(h)'
  <2>1. videos' = videos /\ folders' = folders /\ request' = request
    BY <1>8 DEF libraryVars
  <2>2. /\ request[h] = NoRequest /\ call'[h].folder = f /\ call'[h].answer = "error"
    BY <1>1, <1>8, SendGives
  <2>3. CallFits(h)'
    BY <2>1, <2>2 DEF CallFits
  <2>4. FolderFits(h)'
    BY <2>1, <2>2 DEF FolderFits, NoRequest
  <2> QED
    BY <1>1, <1>8, <2>1, <2>3, <2>4, SendKeepsTruth
<1>9. ASSUME NEW j \in Jobs, NEW target \in Folders, DragToGone(h, j, target)
      PROVE  TruthOK(h)'
  <2>1. Dragged(j) \in SUBSET Jobs
    BY <1>1 DEF Dragged
  <2> QED
    BY <1>8, <1>9, <2>1 DEF DragToGone, CallKind
<1>10. ASSUME NEW f \in Folders, DeleteGoneFolder(h, f) PROVE TruthOK(h)'
  BY <1>8, <1>10 DEF DeleteGoneFolder, CallKind
<1>11. ASSUME NEW f \in Folders, NewFolder(h, f) PROVE TruthOK(h)'
  <2>1. /\ videos' = videos /\ request' = request /\ folders[f] = "unused"
        /\ folders' = [folders EXCEPT ![f] = "exists"]
        /\ Send(h, "create_folder", {}, f, "ok")
    BY <1>11 DEF NewFolder, CreateFolder
  <2>2. /\ folders'[f] = "exists"
        /\ \A e \in Folders : folders[e] = "exists" => folders'[e] = "exists"
    BY <1>1, <2>1 DEF TypeOK
  <2>3. /\ request[h] = NoRequest /\ call'[h].folder = f /\ call'[h].answer = "ok"
    BY <1>1, <2>1, SendGives DEF CallKind
  <2>4. CallFits(h)'
    BY <2>1, <2>3 DEF CallFits
  <2>5. FolderFits(h)'
    BY <2>1, <2>3 DEF FolderFits, NoRequest
  <2> QED
    BY <1>1, <2>1, <2>2, <2>4, <2>5, SendKeepsTruth DEF CallKind
<1> QED
  BY <1>2, <1>3, <1>5, <1>6, <1>7, <1>9, <1>10, <1>11 DEF UserStep

\* A step of the page's request: its call is as it was, or is answered.
ServedAs(h) ==
  /\ call'[h].kind = call[h].kind /\ call'[h].ids = call[h].ids
  /\ call'[h].folder = call[h].folder
  /\ request'[h].pc # "idle" => call'[h].answer = "awaited"
  /\ request'[h].pc = "idle" => call'[h].answer = "ok"
  /\ UNCHANGED <<shown, sections, stale, unseen>>

LEMMA ServeGives ==
  ASSUME NEW h \in Mine, PageTypeOK, TruthOK(h), ServeMine(h)
  PROVE  ServedAs(h) /\ LoadFits(h)' /\ OthersDelete'
<1>1. call[h] \in Call /\ TypeOK /\ h \in Handlers /\ load' = load
      /\ call[h].answer = "awaited" /\ UNCHANGED <<shown, sections, stale, unseen>>
  BY PageAssumption DEF PageTypeOK, ServeMine
<1>2. Outcome(h) = "ok"
  <2>1. request[h].pc = "drop" =>
          request[h].folder \in Folders /\ folders[request[h].folder] = "exists"
    BY DEF TruthOK, FolderFits
  <2> QED
    BY <2>1 DEF Outcome
<1>3. /\ call'[h].kind = call[h].kind /\ call'[h].ids = call[h].ids
      /\ call'[h].folder = call[h].folder
      /\ request'[h].pc # "idle" => call'[h].answer = "awaited"
      /\ request'[h].pc = "idle" => call'[h].answer = "ok"
  <2>1. CASE request'[h].pc # "idle"
    BY <1>1, <2>1 DEF ServeMine
  <2>2. CASE request'[h].pc = "idle"
    <3> DEFINE c == [call[h] EXCEPT !.answer = "ok"]
    <3>1. /\ c.kind = call[h].kind /\ c.ids = call[h].ids /\ c.folder = call[h].folder
          /\ c.answer = "ok"
      BY <1>1 DEF Call
    <3>2. call'[h] = c
      BY <1>2, <2>2 DEF ServeMine, PageTypeOK
    <3> HIDE DEF c
    <3> QED
      BY <2>2, <3>1, <3>2
  <2> QED
    BY <2>1, <2>2
<1>4. \A v \in Visits : ~load'[v].clean
  <2>1. call[h] # NoCall
    BY <1>1 DEF NoCall
  <2> QED
    BY <1>1, <2>1 DEF TruthOK, LoadFits, Fits
<1>5. ASSUME NEW g \in Handlers \ Mine PROVE request'[g] = request[g]
  <2>1. g \in Handlers /\ h \in Handlers \ {g} /\ HandlerStep(h)
    BY <1>1 DEF ServeMine
  <2> QED
    BY <1>1, <2>1, OtherRequestsStay
<1> QED
  BY <1>1, <1>3, <1>4, <1>5 DEF ServedAs, LoadFits, Fits, TruthOK, OthersDelete

LEMMA MoveKeepsTruth ==
  ASSUME NEW h \in Mine, PageTypeOK, TruthOK(h), ServeMine(h),
         call[h].kind = "move", request[h].pc \in {"move", "relocate"}
  PROVE  TruthOK(h)'
<1>1. /\ ServedAs(h) /\ LoadFits(h)' /\ OthersDelete'
      /\ call[h].answer = "awaited" /\ TypeOK /\ h \in Handlers /\ HandlerStep(h)
  BY ServeGives, PageAssumption DEF PageTypeOK, ServeMine
<1>2. /\ request[h].folder = call[h].folder /\ request[h].todo \subseteq call[h].ids
      /\ request[h].pc = "relocate" => request[h].video \in request[h].todo
      /\ request[h].folder # None => folders[request[h].folder] = "exists"
  BY <1>1 DEF TruthOK, CallFits, FolderFits
<1>3. MoveEffect(h)
  BY <1>1, <1>2, MoveStep
<1>4. NoRequest.pc = "idle" /\ NoRequest.todo = {}
  BY DEF NoRequest
<1>5. CallFits(h)'
  BY <1>1, <1>2, <1>3, <1>4 DEF MoveEffect, ServedAs, CallFits
<1>6. FolderFits(h)'
  BY <1>2, <1>3, <1>4 DEF MoveEffect, FolderFits
<1>7. NoDanglingFolder'
  BY <1>2, <1>3 DEF MoveEffect, Moves, TruthOK, NoDanglingFolder
<1>8. CopyFits(h)'
  <2> SUFFICES ASSUME ~stale PROVE CopyFits(h)'
    BY <1>1 DEF CopyFits, ServedAs
  <2>1. ASSUME NEW j \in Jobs, IsListed(videos'[j]), j \notin unseen
        PROVE  Visible(j)' /\ videos'[j].folder_id = Lands(h, j)'
    <3>1. /\ IsListed(videos[j])
          /\ videos'[j].folder_id =
               IF j \in request[h].todo \ request'[h].todo THEN request[h].folder
               ELSE videos[j].folder_id
      BY <1>3, <2>1 DEF MoveEffect, Moves
    <3>2. Visible(j) /\ videos[j].folder_id = Lands(h, j)
      BY <1>1, <2>1, <3>1 DEF TruthOK, CopyFits
    <3>3. Done(h, j) <=> j \notin request[h].todo /\ j \in call[h].ids
      BY DEF Done
    <3>4. Done(h, j)' <=> j \notin request'[h].todo /\ j \in call[h].ids
      BY <1>1 DEF Done, ServedAs
    <3>5. Visible(j)'
      BY <1>1, <3>2 DEF Visible, ServedAs
    <3>6. Lands(h, j)' = IF Done(h, j)' THEN call[h].folder ELSE shown[j]
      BY <1>1 DEF Lands, ServedAs
    <3>7. Lands(h, j) = IF Done(h, j) THEN call[h].folder ELSE shown[j]
      BY DEF Lands
    <3> QED
      BY <1>2, <1>3, <3>1, <3>2, <3>3, <3>4, <3>5, <3>6, <3>7 DEF MoveEffect
  <2>2. /\ \A f \in Folders : sections'[f] > 0 => sections'[f] = 1 /\ folders'[f] = "exists"
        /\ call[h].folder # None => sections'[call[h].folder] > 0
    BY <1>1, <1>3 DEF TruthOK, CopyFits, ServedAs, MoveEffect
  <2> QED
    BY <1>1, <2>1, <2>2 DEF CopyFits, ServedAs
<1> QED
  BY <1>1, <1>5, <1>6, <1>7, <1>8 DEF TruthOK

LEMMA DeleteKeepsTruth ==
  ASSUME NEW h \in Mine, PageTypeOK, TruthOK(h), ServeMine(h),
         call[h].kind = "delete", request[h].pc \in {"delete", "erase"}
  PROVE  TruthOK(h)'
<1>1. /\ ServedAs(h) /\ LoadFits(h)' /\ OthersDelete'
      /\ call[h].answer = "awaited" /\ TypeOK /\ h \in Handlers /\ HandlerStep(h)
  BY ServeGives, PageAssumption DEF PageTypeOK, ServeMine
<1>2. /\ request[h].folder = call[h].folder /\ request[h].todo \subseteq call[h].ids
      /\ request[h].pc = "erase" => request[h].video \in request[h].todo
  BY <1>1 DEF TruthOK, CallFits
<1>3. DeleteEffect(h)
  BY <1>1, <1>2, DeleteStep
<1>4. NoRequest.pc = "idle" /\ NoRequest.todo = {}
  BY DEF NoRequest
<1>5. CallFits(h)'
  BY <1>1, <1>2, <1>3, <1>4 DEF DeleteEffect, ServedAs, CallFits
<1>6. FolderFits(h)'
  BY <1>3, <1>4 DEF DeleteEffect, FolderFits
<1>7. NoDanglingFolder'
  BY <1>3 DEF DeleteEffect, Moves, TruthOK, NoDanglingFolder
<1>8. CopyFits(h)'
  <2> SUFFICES ASSUME ~stale PROVE CopyFits(h)'
    BY <1>1 DEF CopyFits, ServedAs
  <2>1. ASSUME NEW j \in Jobs, IsListed(videos'[j]), j \notin unseen
        PROVE  Visible(j)' /\ videos'[j].folder_id = Lands(h, j)' /\ ~Done(h, j)'
    <3>1. IsListed(videos[j]) /\ videos'[j].folder_id = videos[j].folder_id
      BY <1>3, <2>1 DEF DeleteEffect, Moves
    <3>2. Visible(j) /\ videos[j].folder_id = Lands(h, j) /\ ~Done(h, j)
      BY <1>1, <2>1, <3>1 DEF TruthOK, CopyFits
    <3>3. j \in request[h].todo => j \in request'[h].todo
      BY <1>3, <2>1 DEF DeleteEffect
    <3>4. ~Done(h, j)'
      BY <1>1, <3>2, <3>3 DEF Done, ServedAs
    <3>5. Visible(j)'
      BY <1>1, <3>2 DEF Visible, ServedAs
    <3>6. Lands(h, j)' = shown[j] /\ Lands(h, j) = shown[j]
      BY <1>1, <3>2, <3>4 DEF Lands, ServedAs
    <3> QED
      BY <3>1, <3>2, <3>4, <3>5, <3>6
  <2>2. \A f \in Folders : sections'[f] > 0 => sections'[f] = 1 /\ folders'[f] = "exists"
    BY <1>1, <1>3 DEF TruthOK, CopyFits, ServedAs, DeleteEffect
  <2> QED
    BY <1>1, <2>1, <2>2 DEF CopyFits, ServedAs
<1> QED
  BY <1>1, <1>5, <1>6, <1>7, <1>8 DEF TruthOK

\* Deleting a folder: what is still in it is what is left to do, and the copy
\* will take out of it what it shows there.
LEMMA EmptyKeepsTruth ==
  ASSUME NEW h \in Mine, PageTypeOK, TruthOK(h), ServeMine(h),
         call[h].kind = "delete_folder", request[h].pc \in {"list", "unsort", "drop"}
  PROVE  TruthOK(h)'
<1> DEFINE f == call[h].folder
<1>1. /\ ServedAs(h) /\ LoadFits(h)' /\ OthersDelete'
      /\ call[h].answer = "awaited" /\ TypeOK /\ h \in Handlers /\ HandlerStep(h)
  BY ServeGives, PageAssumption DEF PageTypeOK, ServeMine
<1>2. /\ request[h].folder = f /\ f \in Folders /\ folders[f] = "exists" /\ f # None
  BY <1>1, StoresAssumption DEF TruthOK, CallFits, FolderFits
<1>3. EmptyEffect(h)
  BY <1>1, EmptyStep
<1>4. /\ NoRequest.pc = "idle" /\ NoRequest.todo = {}
      /\ \A x : x \in Folders => x # None
  BY StoresAssumption DEF NoRequest
<1>5. CallFits(h)'
  BY <1>1, <1>2, <1>3, <1>4 DEF EmptyEffect, ServedAs, CallFits
<1>6. /\ request[h].pc \in {"unsort", "drop"} =>
           \A j \in Jobs : IsListed(videos[j]) =>
             (videos[j].folder_id = f <=> j \in request[h].todo)
      /\ request[h].pc = "drop" => request[h].todo = {}
  BY <1>2 DEF TruthOK, FolderFits
<1>7. CASE request[h].pc = "list"
  <2>1. /\ videos' = videos /\ folders' = folders
        /\ request'[h].pc \in {"unsort", "drop"} /\ request'[h].folder = f
        /\ request'[h].todo = {j \in Jobs : IsListed(videos[j]) /\ videos[j].folder_id = f}
        /\ request'[h].pc = "drop" => request'[h].todo = {}
    BY <1>2, <1>3, <1>7 DEF EmptyEffect
  <2>2. FolderFits(h)'
    BY <1>2, <2>1 DEF FolderFits
  <2>3. NoDanglingFolder'
    BY <2>1 DEF TruthOK, NoDanglingFolder
  <2>4. CopyFits(h)'
    <3> SUFFICES ASSUME ~stale PROVE CopyFits(h)'
      BY <1>1 DEF CopyFits, ServedAs
    <3>1. ASSUME NEW j \in Jobs, IsListed(videos'[j]), j \notin unseen
          PROVE  Visible(j)' /\ videos'[j].folder_id = Lands(h, j)'
      <4>1. Visible(j) /\ videos[j].folder_id = shown[j]
        BY <1>1, <1>7, <2>1, <3>1 DEF TruthOK, CopyFits, Lands, Done
      <4>2. ~Done(h, j)'
        BY <1>1, <2>1, <3>1, <4>1 DEF Done, ServedAs
      <4> QED
        BY <1>1, <2>1, <4>1, <4>2 DEF Visible, Lands, ServedAs
    <3>2. \A e \in Folders : sections'[e] > 0 => sections'[e] = 1 /\ folders'[e] = "exists"
      BY <1>1, <2>1 DEF TruthOK, CopyFits, ServedAs
    <3> QED
      BY <1>1, <3>1, <3>2 DEF CopyFits, ServedAs
  <2> QED
    BY <1>1, <1>5, <2>2, <2>3, <2>4 DEF TruthOK
<1>8. CASE request[h].pc = "unsort"
  <2>1. PICK k \in request[h].todo :
          request'[h].todo = request[h].todo \ {k} /\ Moves({k}, None)
    BY <1>3, <1>8 DEF EmptyEffect
  <2>2. /\ folders' = folders /\ request'[h].pc \in {"unsort", "drop"}
        /\ request'[h].folder = f
        /\ request'[h].pc = "drop" => request'[h].todo = {}
    BY <1>2, <1>3, <1>8 DEF EmptyEffect
  <2>3. ASSUME NEW j \in Jobs, IsListed(videos'[j])
        PROVE  /\ IsListed(videos[j])
               /\ videos'[j].folder_id = IF j = k THEN None ELSE videos[j].folder_id
               /\ videos[j].folder_id = f <=> j \in request[h].todo
    BY <1>6, <1>8, <2>1, <2>3 DEF Moves
  <2>4. FolderFits(h)'
    BY <1>2, <2>1, <2>2, <2>3 DEF FolderFits
  <2>5. NoDanglingFolder'
    BY <2>2, <2>3 DEF TruthOK, NoDanglingFolder
  <2>6. CopyFits(h)'
    <3> SUFFICES ASSUME ~stale PROVE CopyFits(h)'
      BY <1>1 DEF CopyFits, ServedAs
    <3>1. ASSUME NEW j \in Jobs, IsListed(videos'[j]), j \notin unseen
          PROVE  Visible(j)' /\ videos'[j].folder_id = Lands(h, j)'
      <4>1. Visible(j) /\ videos[j].folder_id = Lands(h, j)
        BY <1>1, <2>3, <3>1 DEF TruthOK, CopyFits
      <4>2. Done(h, j) <=> j \notin request[h].todo /\ shown[j] = f
        BY <1>8 DEF Done
      <4>3. Done(h, j)' <=> j \notin request'[h].todo /\ shown[j] = f
        BY <1>1, <2>2 DEF Done, ServedAs
      <4>4. /\ Lands(h, j) = IF Done(h, j) THEN None ELSE shown[j]
            /\ Lands(h, j)' = IF Done(h, j)' THEN None ELSE shown[j]
        BY <1>1 DEF Lands, ServedAs
      <4>5. Visible(j)'
        BY <1>1, <4>1 DEF Visible, ServedAs
      <4>6. CASE j = k
        BY <2>1, <2>3, <3>1, <4>1, <4>2, <4>3, <4>4, <4>5, <4>6
      <4>7. CASE j # k
        BY <2>1, <2>3, <3>1, <4>1, <4>2, <4>3, <4>4, <4>5, <4>7
      <4> QED
        BY <4>6, <4>7
    <3>2. \A e \in Folders : sections'[e] > 0 => sections'[e] = 1 /\ folders'[e] = "exists"
      BY <1>1, <2>2 DEF TruthOK, CopyFits, ServedAs
    <3> QED
      BY <1>1, <3>1, <3>2 DEF CopyFits, ServedAs
  <2> QED
    BY <1>1, <1>5, <2>4, <2>5, <2>6 DEF TruthOK
<1>9. CASE request[h].pc = "drop"
  <2>1. /\ videos' = videos /\ folders' = [folders EXCEPT ![f] = "gone"]
        /\ request'[h] = NoRequest /\ request[h].todo = {}
    BY <1>2, <1>3, <1>6, <1>9 DEF EmptyEffect
  <2>2. FolderFits(h)'
    BY <1>4, <2>1 DEF FolderFits
  <2>3. \A e \in Folders : e # f => folders'[e] = folders[e]
    BY <1>1, <2>1 DEF TypeOK
  <2>4. NoDanglingFolder'
    <3>1. ASSUME NEW j \in Jobs, IsListed(videos[j]), videos[j].folder_id # None
          PROVE  folders'[videos[j].folder_id] = "exists"
      <4>1. videos[j].folder_id \in Folders
        BY <1>1, <3>1 DEF TypeOK, Video, IsListed
      <4>2. videos[j].folder_id # f
        BY <1>6, <1>9, <2>1, <3>1
      <4> QED
        BY <2>3, <3>1, <4>1, <4>2 DEF TruthOK, NoDanglingFolder
    <3> QED
      BY <2>1, <3>1 DEF NoDanglingFolder
  <2>5. CopyFits(h)'
    <3> SUFFICES ASSUME ~stale PROVE CopyFits(h)'
      BY <1>1 DEF CopyFits, ServedAs
    <3>1. ASSUME NEW j \in Jobs, IsListed(videos'[j]), j \notin unseen
          PROVE  Visible(j)' /\ videos'[j].folder_id = Lands(h, j)'
      <4>1. Visible(j) /\ videos[j].folder_id = Lands(h, j)
        BY <1>1, <2>1, <3>1 DEF TruthOK, CopyFits
      <4>2. Done(h, j)' <=> Done(h, j)
        BY <1>1, <1>4, <1>9, <2>1 DEF Done, ServedAs
      <4> QED
        BY <1>1, <2>1, <4>1, <4>2 DEF Visible, Lands, ServedAs
    <3>2. \A e \in Folders : sections'[e] > 0 => sections'[e] = 1
      BY <1>1, <2>1 DEF TruthOK, CopyFits, ServedAs
    <3>3. \A e \in Folders : sections'[e] > 0 => folders'[e] = "exists" \/ f = e
      BY <1>1, <2>3 DEF TruthOK, CopyFits, ServedAs
    <3>4. call'[h].answer = "ok" /\ call'[h].folder = f
      BY <1>1, <1>4, <2>1 DEF ServedAs
    <3> QED
      BY <1>1, <3>1, <3>2, <3>3, <3>4 DEF CopyFits, ServedAs
  <2> QED
    BY <1>1, <1>5, <2>2, <2>4, <2>5 DEF TruthOK
<1> QED
  BY <1>7, <1>8, <1>9

LEMMA ServeKeepsTruth ==
  ASSUME NEW h \in Mine, PageTypeOK, TruthOK(h), ServeMine(h)
  PROVE  TruthOK(h)'
<1>1. call[h].answer = "awaited"
  BY DEF ServeMine
<1>2. \/ call[h].kind = "move" /\ request[h].pc \in {"move", "relocate"}
      \/ call[h].kind = "delete" /\ request[h].pc \in {"delete", "erase"}
      \/ call[h].kind = "delete_folder" /\ request[h].pc \in {"list", "unsort", "drop"}
  BY <1>1 DEF TruthOK, CallFits
<1> QED
  BY <1>2, MoveKeepsTruth, DeleteKeepsTruth, EmptyKeepsTruth

\* A call that fails says nothing of the copy until its answer makes it stale.
LEMMA FailureKeepsTruth ==
  ASSUME NEW h \in Mine, PageTypeOK, TruthOK(h), MineFails(h)
  PROVE  TruthOK(h)'
<1>1. /\ call[h] \in Call /\ TypeOK /\ h \in Handlers /\ load' = load
      /\ call[h].answer = "awaited" /\ call' = [call EXCEPT ![h].answer = "error"]
      /\ videos' = videos /\ folders' = folders /\ Ended(h)
  BY PageAssumption DEF PageTypeOK, MineFails, VideoNotFound, HandlerDies
<1>2. request'[h] = NoRequest /\ \A g \in Handlers \ Mine : request'[g] = request[g]
  BY <1>1 DEF Ended, TypeOK
<1>3. call'[h].answer = "error" /\ call'[h].kind = call[h].kind
      /\ call'[h].folder = call[h].folder
  BY <1>1 DEF PageTypeOK, Call
<1>4. \A v \in Visits : ~load'[v].clean
  <2>1. call[h] # NoCall
    BY <1>1 DEF NoCall
  <2> QED
    BY <1>1, <2>1 DEF TruthOK, LoadFits, Fits
<1>5. CallFits(h)'
  BY <1>2, <1>3 DEF TruthOK, CallFits
<1>6. FolderFits(h)' /\ OthersDelete'
  BY <1>2 DEF TruthOK, FolderFits, OthersDelete, NoRequest
<1>7. NoDanglingFolder'
  BY <1>1 DEF TruthOK, NoDanglingFolder
<1> QED
  BY <1>3, <1>4, <1>5, <1>6, <1>7 DEF TruthOK, LoadFits, Fits, CopyFits

\* A call whose answer is in: the copy is then the library's, or stale.
LEMMA AnswerKeepsTruth ==
  ASSUME NEW h \in Mine, PageTypeOK, TruthOK(h),
         call[h].answer \in {"ok", "error"}, call' = [call EXCEPT ![h] = NoCall],
         UNCHANGED <<libraryVars, load, unseen>>,
         ~stale' =>
           /\ \A j \in Jobs : IsListed(videos[j]) /\ j \notin unseen =>
                Visible(j)' /\ videos[j].folder_id = shown'[j]
           /\ \A f \in Folders : sections'[f] > 0 =>
                sections'[f] = 1 /\ folders[f] = "exists"
  PROVE  TruthOK(h)'
<1>1. videos' = videos /\ folders' = folders /\ request' = request /\ load' = load
  BY DEF libraryVars
<1>2. call'[h] = NoCall /\ NoCall.kind = None /\ NoCall.answer = "none"
      /\ None \notin CallKind
  BY PageAssumption DEF PageTypeOK, NoCall
<1>3. request[h] = NoRequest /\ \A v \in Visits : ~load[v].clean
  <2>1. call[h] # NoCall
    BY <1>2
  <2> QED
    BY <2>1 DEF TruthOK, CallFits, LoadFits, Fits
<1>4. CallFits(h)'
  BY <1>1, <1>2, <1>3 DEF CallFits, CallKind
<1>5. FolderFits(h)' /\ OthersDelete' /\ LoadFits(h)'
  BY <1>1, <1>3 DEF TruthOK, FolderFits, OthersDelete, LoadFits, Fits
<1>6. NoDanglingFolder'
  BY <1>1 DEF TruthOK, NoDanglingFolder
<1>7. CopyFits(h)'
  <2>1. \A j \in Jobs : ~Done(h, j)'
    BY <1>2 DEF Done, CallKind
  <2>2. \A j \in Jobs : Lands(h, j)' = shown'[j]
    BY <2>1 DEF Lands
  <2> QED
    BY <1>1, <1>2, <2>1, <2>2 DEF CopyFits, CallKind
<1> QED
  BY <1>4, <1>5, <1>6, <1>7 DEF TruthOK

LEMMA AnswersKeepTruth ==
  ASSUME NEW h \in Mine, PageTypeOK, TruthOK(h),
         \/ Moved(h) \/ Deleted(h) \/ FolderDeleted(h) \/ FolderCreated(h)
         \/ Rejected(h)
  PROVE  TruthOK(h)'
<1>1. /\ call[h].answer \in {"ok", "error"} /\ call' = [call EXCEPT ![h] = NoCall]
      /\ UNCHANGED <<libraryVars, load, unseen>>
  BY DEF Moved, Deleted, FolderDeleted, FolderCreated, Rejected, Answered
<1>2. CASE Rejected(h)
  BY <1>1, <1>2, AnswerKeepsTruth DEF Rejected
<1>3. CASE ~Rejected(h)
  <2> SUFFICES ASSUME ~stale
               PROVE  /\ \A j \in Jobs : IsListed(videos[j]) /\ j \notin unseen =>
                           Visible(j)' /\ videos[j].folder_id = shown'[j]
                      /\ \A f \in Folders : sections'[f] > 0 =>
                           sections'[f] = 1 /\ folders[f] = "exists"
    <3>1. stale' = stale
      BY <1>3 DEF Moved, Deleted, FolderDeleted, FolderCreated, Answered
    <3> QED
      BY <1>1, <3>1, AnswerKeepsTruth
  <2> DEFINE f == call[h].folder
  <2>1. /\ call[h].answer = "ok" /\ request[h] = NoRequest
        /\ sections \in [Folders -> Nat] /\ Absent \notin Folders \cup {None}
        /\ f \in Folders \cup {None}
    BY <1>3, PageAssumption
       DEF Moved, Deleted, FolderDeleted, FolderCreated, Answered, TruthOK, CallFits,
           PageTypeOK, Sections, Call
  <2>2. ASSUME NEW j \in Jobs, IsListed(videos[j]), j \notin unseen
        PROVE  /\ Visible(j) /\ videos[j].folder_id = Lands(h, j)
               /\ call[h].kind = "delete" => ~Done(h, j)
    BY <2>1, <2>2 DEF TruthOK, CopyFits
  <2>3. ASSUME NEW e \in Folders, sections[e] > 0
        PROVE  /\ sections[e] = 1
               /\ folders[e] = "exists" \/ (call[h].kind = "delete_folder" /\ f = e)
    BY <2>1, <2>3 DEF TruthOK, CopyFits
  <2>4. \A j \in Jobs : Done(h, j) <=>
          \/ call[h].kind \in {"move", "delete"} /\ j \in call[h].ids
          \/ call[h].kind = "delete_folder" /\ shown[j] = f
    BY <2>1 DEF Done, NoRequest
  <2>5. CASE Moved(h)
    <3>1. /\ call[h].kind = "move" /\ sections' = sections
          /\ \A j \in Jobs : shown'[j] =
               IF j \in call[h].ids /\ shown[j] # Absent THEN f ELSE shown[j]
          /\ f # None => sections[f] > 0
      BY <2>1, <2>5 DEF Moved, Answered, TruthOK, CopyFits
    <3> QED
      BY <2>1, <2>2, <2>3, <2>4, <3>1 DEF Visible, Lands
  <2>6. CASE Deleted(h)
    <3>1. /\ call[h].kind = "delete" /\ sections' = sections
          /\ \A j \in Jobs : shown'[j] = IF j \in call[h].ids THEN Absent ELSE shown[j]
      BY <2>6 DEF Deleted, Answered
    <3> QED
      BY <2>2, <2>3, <2>4, <3>1 DEF Visible, Lands
  <2>7. CASE FolderDeleted(h)
    <3>1. /\ call[h].kind = "delete_folder" /\ sections' = [sections EXCEPT ![f] = 0]
          /\ \A j \in Jobs : shown'[j] = IF shown[j] = f THEN None ELSE shown[j]
      BY <2>7 DEF FolderDeleted, Answered
    <3>2. f \in Folders /\ f # None
      BY <3>1, StoresAssumption DEF TruthOK, CallFits
    <3>3. sections'[f] = 0 /\ \A e \in Folders : e # f => sections'[e] = sections[e]
      BY <2>1, <3>1, <3>2
    <3>4. ASSUME NEW j \in Jobs, IsListed(videos[j]), j \notin unseen
          PROVE  Visible(j)' /\ videos[j].folder_id = shown'[j]
      <4>1. Visible(j) /\ videos[j].folder_id = Lands(h, j)
        BY <2>2, <3>4
      <4>2. Done(h, j) <=> shown[j] = f
        BY <2>4, <3>1
      <4>3. shown[j] # None => shown[j] \in Folders
        BY <4>1 DEF PageTypeOK, Copy, Visible
      <4>4. videos[j].folder_id = shown'[j]
        BY <3>1, <4>1, <4>2 DEF Lands
      <4>5. Visible(j)'
        BY <2>1, <3>1, <3>2, <3>3, <4>1, <4>3 DEF Visible
      <4> QED
        BY <4>4, <4>5
    <3> QED
      BY <2>3, <3>2, <3>3, <3>4
  <2>8. CASE FolderCreated(h)
    <3>1. /\ call[h].kind = "create_folder"
          /\ sections' = [sections EXCEPT ![f] = sections[f] + 1]
          /\ shown' = shown /\ sections[f] = 0 /\ folders[f] = "exists" /\ f \in Folders
      BY <2>1, <2>8 DEF FolderCreated, Answered, TruthOK, CopyFits, CallFits
    <3>2. sections'[f] = 1 /\ \A e \in Folders : e # f => sections'[e] = sections[e]
      BY <2>1, <3>1
    <3>3. ASSUME NEW j \in Jobs, IsListed(videos[j]), j \notin unseen
          PROVE  Visible(j)' /\ videos[j].folder_id = shown'[j]
      <4>1. Visible(j) /\ videos[j].folder_id = shown[j]
        BY <2>2, <2>4, <3>1, <3>3 DEF Lands
      <4>2. shown[j] # None => shown[j] \in Folders
        BY <4>1 DEF PageTypeOK, Copy, Visible
      <4> QED
        BY <3>1, <3>2, <4>1, <4>2 DEF Visible
    <3> QED
      BY <2>3, <3>1, <3>2, <3>3
  <2> QED
    BY <1>3, <2>5, <2>6, <2>7, <2>8
<1> QED
  BY <1>2, <1>3

LEMMA TruthStep ==
  ASSUME NEW h \in Mine, \A g \in Mine : g = h,
         PageTypeOK, UnknownOK, TruthOK(h), [PageNext]_allVars
  PROVE  TruthOK(h)'
<1>1. CASE UserStep
  BY <1>1, UserKeepsTruth
<1>2. CASE AnswerStep
  BY <1>2, LoadKeepsTruth, ServeKeepsTruth, FailureKeepsTruth, AnswersKeepTruth
     DEF AnswerStep
<1>3. CASE OthersStep
  BY <1>3, OthersKeepTruth
<1>4. CASE UNCHANGED allVars
  <2>1. UNCHANGED <<libraryVars, shown, sections, call, load, stale, unseen>>
    BY <1>4 DEF allVars, pageVars
  <2>2. LoadFits(h)'
    BY <2>1 DEF TruthOK, LoadFits, Fits, libraryVars
  <2> QED
    BY <2>1, <2>2, QuietKeepsTruth
<1> QED
  BY <1>1, <1>2, <1>3, <1>4, PublishKeepsTruth DEF PageNext

\* With one call of the page's at a time (Mine = {h}), the copy puts every listed
\* video published before its list was read where its document is once the answer
\* is in, whatever the other clients delete, whatever is published, in whatever
\* order the visits' loads are answered, and however the page's calls end, until a
\* call fails or meets a load (library.svelte.ts reflects each answer and reads
\* nothing anew).
THEOREM CopyStaysTrue ==
  ASSUME NEW h, Mine = {h}
  PROVE  PageSpec => []CopyIsTrue
<1>0. h \in Mine /\ \A g \in Mine : g = h
  OBVIOUS
<1>1. PageInit => TruthOK(h)
  BY <1>0, TruthInit
<1>2. PageTypeOK /\ UnknownOK /\ TruthOK(h) /\ [PageNext]_allVars => TruthOK(h)'
  BY <1>0, TruthStep
<1>3. PageTypeOK /\ UnknownOK /\ [PageNext]_allVars => UnknownOK'
  BY UnknownStep
<1>4. TruthOK(h) => CopyIsTrue
  <2> SUFFICES ASSUME TruthOK(h), NoCalls, ~stale
               PROVE  /\ \A j \in Jobs : IsListed(videos[j]) /\ j \notin unseen =>
                           shown[j] = videos[j].folder_id /\ Visible(j)
                      /\ \A f \in Folders : sections[f] > 0 =>
                           sections[f] = 1 /\ folders[f] = "exists"
    BY DEF CopyIsTrue
  <2>1. call[h] = NoCall
    BY <1>0 DEF NoCalls
  <2> QED
    BY <2>1, CopyWithoutCall
<1> QED
  BY <1>1, <1>2, <1>3, <1>4, UnknownInit, PageTypeCorrect, PTL DEF PageSpec

=============================================================================
