--------------------------- MODULE Tonemill_proofs ---------------------------
(***************************************************************************)
(* What the workers and the library's requests keep together although      *)
(* neither side takes a lock.  A request that erases a video takes away    *)
(* what a worker may be publishing under the same keys, the thumbnail's    *)
(* and the clips': it can do so only while the document is there, and the  *)
(* document goes with it, for good.  The job hashes are the worker's and   *)
(* the API's alone: what is proved of them holds beside the library too.   *)
(***************************************************************************)
EXTENDS Tonemill, JobUpdates_proofs

\* The library's requests have the types of VideoLibrary.
RequestsOK ==
  /\ request \in [Handlers -> Library!Request]
  /\ deaths \in 0..MaxHandlerDeaths

VideosOK == videos \in [Jobs -> Video \cup {None}] /\ objects \subseteq ObjectKey

\* A step of the request that handler h serves.
HandlerActs(h) ==
  \/ Library!StartMove(h) \/ Library!StartDelete(h)
  \/ \E f \in Folders : Library!StartDeleteFolder(h, f)
  \/ Library!HandlerStep(h) \/ Library!VideoNotFound(h) \/ Library!HandlerDies(h)

\* How a request may come to erase a video: it has just read the document, or it
\* is at it and deletes the next of the objects.
Erases(h, r) ==
  \/ /\ Library!EraseObject(h)
     /\ r.video = request[h].video /\ r.keys = Tail(request[h].keys)
  \/ \E j \in Jobs :
       /\ Library!ReadDeleted(h, j) /\ videos[j] # None
       /\ r.video = j /\ r.keys = Library!Links(videos[j], j)

\* Handler h's request becomes r.
Serving(h, r) ==
  /\ r \in Library!Request
  /\ request' = [request EXCEPT ![h] = r]
  /\ r.pc = "erase" => Erases(h, r)

-----------------------------------------------------------------------------
(* One step of a request.                                                  *)

\* The object keys of the two sides are the same.
LEMMA SameKeys ==
  /\ Library!ObjectKey = ObjectKey
  /\ \A j : Library!ThumbnailKey(j) = ThumbnailKey(j) /\ Library!ClipsKey(j) = ClipsKey(j)
  BY DEF Library!ObjectKey, Library!ResultKey, ObjectKey, ResultKey,
     Library!ThumbnailKey, Library!ClipsKey, ThumbnailKey, ClipsKey

LEMMA NoRequestTyped == Library!NoRequest \in Library!Request
<1>1. <<>> \in Seq(ObjectKey)
  OBVIOUS
<1> QED
  BY <1>1 DEF Library!NoRequest, Library!Request, Library!RequestPc

LEMMA EndedServes ==
  ASSUME NEW h \in Handlers, Library!Ended(h)
  PROVE  Serving(h, Library!NoRequest)
<1>1. Library!NoRequest.pc # "erase"
  BY DEF Library!NoRequest
<1> QED
  BY <1>1, NoRequestTyped DEF Library!Ended, Serving

LEMMA ContinueServes ==
  ASSUME RequestsOK, NEW h \in Handlers, NEW j,
         NEW loop \in Library!RequestPc \ {"erase"},
         NEW after \in Library!RequestPc \ {"erase"},
         Library!Continue(h, j, loop, after)
  PROVE  \E r : Serving(h, r)
<1>1. request[h] \in Library!Request /\ <<>> \in Seq(ObjectKey)
  BY DEF RequestsOK
<1> DEFINE left == request[h].todo \ {j}
           pc == IF left = {} THEN after ELSE loop
           r == [request[h] EXCEPT !.pc = pc, !.todo = left,
                                   !.video = None, !.keys = <<>>]
<1>2. r \in Library!Request /\ r.pc # "erase"
  BY <1>1, SameKeys DEF Library!Request
<1>3. Library!Ended(h) \/ request' = [request EXCEPT ![h] = r]
  BY DEF Library!Continue
<1> HIDE DEF r
<1> QED
  BY <1>2, <1>3, EndedServes DEF Serving

LEMMA LinksTyped ==
  ASSUME NEW v \in Video, NEW j \in Jobs
  PROVE  Library!Links(v, j) \in Seq(ObjectKey)
<1>1. ThumbnailKey(j) \in ObjectKey /\ ClipsKey(j) \in ObjectKey
  BY DEF ThumbnailKey, ClipsKey, ObjectKey
<1>2. v.result_key # None => v.result_key \in ObjectKey
  BY DEF Video, ObjectKey
<1>3. CASE v.result_key = None
  BY <1>3 DEF Library!Links
<1>4. CASE v.result_key # None /\ v.previews
  BY <1>1, <1>2, <1>4, SameKeys DEF Library!Links
<1>5. CASE v.result_key # None /\ ~v.previews
  BY <1>2, <1>5 DEF Library!Links
<1> QED
  BY <1>3, <1>4, <1>5

LEMMA HandlerServes ==
  ASSUME RequestsOK, VideosOK, NEW h \in Handlers, HandlerActs(h)
  PROVE  \E r : Serving(h, r)
<1>0. request[h] \in Library!Request /\ request[h].keys \in Seq(ObjectKey)
  BY SameKeys DEF RequestsOK, Library!Request
<1>1. ASSUME NEW ids \in SUBSET Jobs, NEW target \in Folders \cup {None},
             NEW pc \in {"move", "delete", "list"},
             request' = [request EXCEPT ![h] =
               [Library!NoRequest EXCEPT !.pc = pc, !.folder = target, !.todo = ids]]
      PROVE  \E r : Serving(h, r)
  <2> DEFINE r == [Library!NoRequest EXCEPT !.pc = pc, !.folder = target, !.todo = ids]
  <2>1. r \in Library!Request /\ r.pc # "erase"
    BY NoRequestTyped DEF Library!Request, Library!RequestPc
  <2> HIDE DEF r
  <2> QED
    BY <1>1, <2>1 DEF Serving, r
<1>2. Library!Named \subseteq Jobs
  BY DEF Library!Named
<1>3. CASE Library!StartMove(h)
  BY <1>1, <1>2, <1>3 DEF Library!StartMove, Library!BeginMove
<1>4. CASE Library!StartDelete(h)
  <2> PICK ids \in SUBSET Jobs : Library!BeginDelete(h, ids)
    BY <1>2, <1>4 DEF Library!StartDelete
  <2> DEFINE r == [Library!NoRequest EXCEPT !.pc = "delete", !.todo = ids]
  <2>1. r \in Library!Request /\ r.pc # "erase"
    BY NoRequestTyped DEF Library!Request, Library!RequestPc
  <2> HIDE DEF r
  <2> QED
    BY <2>1 DEF Serving, Library!BeginDelete, r
<1>5. ASSUME NEW f \in Folders, Library!StartDeleteFolder(h, f)
      PROVE  \E r : Serving(h, r)
  <2> DEFINE r == [Library!NoRequest EXCEPT !.pc = "list", !.folder = f]
  <2>1. r \in Library!Request /\ r.pc # "erase"
    BY NoRequestTyped DEF Library!Request, Library!RequestPc
  <2> HIDE DEF r
  <2> QED
    BY <1>5, <2>1 DEF Serving, Library!StartDeleteFolder, r
<1>6. CASE Library!Relocate(h) \/ Library!EraseVideo(h)
           \/ \E j \in Jobs : Library!Unsort(h, j)
  BY <1>6, ContinueServes
     DEF Library!Relocate, Library!EraseVideo, Library!Unsort, Library!RequestPc
<1>7. CASE Library!DropFolder(h) \/ Library!VideoNotFound(h) \/ Library!HandlerDies(h)
  BY <1>7, EndedServes
     DEF Library!DropFolder, Library!VideoNotFound, Library!HandlerDies
<1>8. CASE Library!ListFolder(h)
  <2> DEFINE inside == {j \in Jobs : Library!IsListed(videos[j])
                                     /\ videos[j].folder_id = request[h].folder}
             pc == IF inside = {} THEN "drop" ELSE "unsort"
             r == [request[h] EXCEPT !.todo = inside, !.pc = pc]
  <2>1. r \in Library!Request /\ r.pc # "erase"
    BY <1>0 DEF Library!Request, Library!RequestPc
  <2>2. request' = [request EXCEPT ![h] = r]
    BY <1>8 DEF Library!ListFolder
  <2> HIDE DEF r
  <2> QED
    BY <2>1, <2>2 DEF Serving
<1>9. CASE Library!EraseObject(h)
  <2> DEFINE r == [request[h] EXCEPT !.keys = Tail(request[h].keys)]
  <2>1. Tail(request[h].keys) \in Seq(ObjectKey)
    BY <1>0, <1>9 DEF Library!EraseObject
  <2>2. /\ r \in Library!Request
        /\ r.video = request[h].video /\ r.keys = Tail(request[h].keys)
    BY <1>0, <2>1, SameKeys DEF Library!Request
  <2>3. request' = [request EXCEPT ![h] = r]
    BY <1>9 DEF Library!EraseObject
  <2> HIDE DEF r
  <2> QED
    BY <1>9, <2>2, <2>3 DEF Serving, Erases
<1>10. ASSUME NEW j \in Jobs, Library!ReadMoved(h, j) PROVE \E r : Serving(h, r)
  <2> DEFINE r == [request[h] EXCEPT !.pc = "relocate", !.video = j]
  <2>1. r \in Library!Request /\ r.pc # "erase"
    BY <1>0 DEF Library!Request, Library!RequestPc
  <2>2. Library!Continue(h, j, "move", "idle") \/ request' = [request EXCEPT ![h] = r]
    BY <1>10 DEF Library!ReadMoved
  <2> HIDE DEF r
  <2> QED
    BY <2>1, <2>2, ContinueServes DEF Serving, Library!RequestPc
<1>11. ASSUME NEW j \in Jobs, Library!ReadDeleted(h, j) PROVE \E r : Serving(h, r)
  <2>1. CASE videos[j] = None
    BY <1>11, <2>1, ContinueServes DEF Library!ReadDeleted, Library!RequestPc
  <2>2. CASE videos[j] # None
    <3> DEFINE keys == Library!Links(videos[j], j)
               r == [request[h] EXCEPT !.pc = "erase", !.video = j, !.keys = keys]
    <3>1. keys \in Seq(ObjectKey)
      BY <2>2, LinksTyped DEF VideosOK
    <3>2. r \in Library!Request /\ r.video = j /\ r.keys = keys
      BY <1>0, <3>1, SameKeys DEF Library!Request, Library!RequestPc
    <3>3. request' = [request EXCEPT ![h] = r]
      BY <1>11, <2>2 DEF Library!ReadDeleted
    <3> HIDE DEF r
    <3> QED
      BY <1>11, <2>2, <3>2, <3>3 DEF Serving, Erases
  <2> QED
    BY <2>1, <2>2
<1> QED
  BY <1>3, <1>4, <1>5, <1>6, <1>7, <1>8, <1>9, <1>10, <1>11
     DEF HandlerActs, Library!HandlerStep

-----------------------------------------------------------------------------
(* What a request does to the library.                                      *)

\* Handlers take turns; only folders come about without one.
LEMMA LibraryTurn ==
  ASSUME LibraryStep
  PROVE  \/ \E h \in Handlers : HandlerActs(h)
         \/ UNCHANGED <<videos, objects, request, deaths>>
  BY DEF LibraryStep, Library!Next, Library!CreateFolder, HandlerActs

\* The video u is v in another folder.
Refoldered(v, u) == \E f \in Folders \cup {None} : u = [v EXCEPT !.folder_id = f]

LEMMA RefolderedFields ==
  ASSUME NEW v \in Video, NEW u, Refoldered(v, u)
  PROVE  /\ u \in Video /\ u # None
         /\ u.status = v.status /\ u.result_key = v.result_key
         /\ u.fingerprint = v.fingerprint /\ u.profile = v.profile
         /\ u.max_quality = v.max_quality /\ u.display_name = v.display_name
         /\ u.previews = v.previews
<1>1. PICK f \in Folders \cup {None} : u = [v EXCEPT !.folder_id = f]
  BY DEF Refoldered
<1>2. u \in Video
  BY <1>1 DEF Video
<1> QED
  BY <1>1, <1>2, AbsenceAssumption DEF Video

\* A document is left alone, put into another folder, or deleted.
LEMMA LibraryVideos ==
  ASSUME RequestsOK, VideosOK, LibraryStep
  PROVE  /\ VideosOK'
         /\ \A j \in Jobs :
              \/ videos'[j] \in {videos[j], None}
              \/ videos[j] # None /\ Refoldered(videos[j], videos'[j])
<1> DEFINE Goal == /\ videos' \in [Jobs -> Video \cup {None}]
                   /\ \A j \in Jobs :
                        \/ videos'[j] \in {videos[j], None}
                        \/ videos[j] # None /\ Refoldered(videos[j], videos'[j])
<1>1. ASSUME UNCHANGED videos PROVE Goal
  BY <1>1 DEF VideosOK
<1>2. ASSUME NEW k, NEW f \in Folders \cup {None}, videos[k] # None,
             videos' = [videos EXCEPT ![k].folder_id = f]
      PROVE  Goal
  <2>1. ASSUME k \in Jobs PROVE Refoldered(videos[k], videos'[k]) /\ videos'[k] \in Video
    <3>1. Refoldered(videos[k], videos'[k])
      BY <1>2, <2>1 DEF VideosOK, Refoldered
    <3> QED
      BY <1>2, <2>1, <3>1, RefolderedFields DEF VideosOK
  <2>2. \A j \in Jobs \ {k} : videos'[j] = videos[j]
    BY <1>2 DEF VideosOK
  <2>3. videos' \in [Jobs -> Video \cup {None}]
    <3>1. CASE k \in Jobs
      <4>1. videos' = [videos EXCEPT ![k] = videos'[k]]
        BY <1>2, <3>1 DEF VideosOK
      <4> QED
        BY <2>1, <3>1, <4>1 DEF VideosOK
    <3>2. CASE k \notin Jobs
      <4>1. videos' = videos
        BY <1>2, <3>2 DEF VideosOK
      <4> QED
        BY <4>1 DEF VideosOK
    <3> QED
      BY <3>1, <3>2
  <2> QED
    BY <1>2, <2>1, <2>2, <2>3
<1>3. ASSUME NEW h \in Handlers, Library!Relocate(h) PROVE Goal
  <2>1. request[h].folder \in Folders \cup {None}
    BY DEF RequestsOK, Library!Request
  <2> QED
    BY <1>2, <1>3, <2>1 DEF Library!Relocate
<1>4. ASSUME NEW h \in Handlers, NEW j \in Jobs, Library!Unsort(h, j) PROVE Goal
  BY <1>2, <1>4 DEF Library!Unsort
<1>5. ASSUME NEW h \in Handlers, Library!EraseVideo(h) PROVE Goal
  BY <1>5 DEF VideosOK, Library!EraseVideo
<1>6. Goal
  <2>1. ASSUME NEW h \in Handlers, HandlerActs(h) PROVE Goal
    <3>1. CASE Library!HandlerStep(h)
      BY <1>1, <1>3, <1>4, <1>5, <3>1
         DEF Library!HandlerStep, Library!ListFolder, Library!DropFolder,
             Library!EraseObject, Library!ReadMoved, Library!ReadDeleted
    <3>2. CASE ~Library!HandlerStep(h)
      <4>1. UNCHANGED videos
        BY <2>1, <3>2 DEF HandlerActs, Library!StartMove, Library!BeginMove,
           Library!StartDelete, Library!BeginDelete, Library!StartDeleteFolder,
           Library!VideoNotFound, Library!HandlerDies
      <4> QED
        BY <1>1, <4>1
    <3> QED
      BY <3>1, <3>2
  <2> QED
    BY <1>1, <2>1, LibraryTurn
<1>7. objects' \subseteq objects
  BY LibraryTurn DEF HandlerActs, Library!StartMove,
     Library!BeginMove, Library!StartDelete, Library!BeginDelete,
     Library!StartDeleteFolder, Library!HandlerStep, Library!Relocate,
     Library!ListFolder, Library!DropFolder, Library!EraseObject,
     Library!EraseVideo, Library!ReadMoved, Library!Unsort, Library!ReadDeleted,
     Library!VideoNotFound, Library!HandlerDies
<1> QED
  BY <1>6, <1>7 DEF VideosOK

\* The requests keep their types, and their deaths their bound.
LEMMA LibraryRequests ==
  ASSUME RequestsOK, VideosOK, LibraryStep
  PROVE  RequestsOK' /\ deaths' <= deaths
<1>1. ASSUME NEW h \in Handlers, HandlerActs(h)
      PROVE  request' \in [Handlers -> Library!Request]
  <2>1. PICK r : Serving(h, r)
    BY <1>1, HandlerServes
  <2> QED
    BY <2>1 DEF Serving, RequestsOK
<1>2. request' \in [Handlers -> Library!Request]
  BY <1>1, LibraryTurn DEF RequestsOK
<1>3. deaths' = deaths \/ (deaths > 0 /\ deaths' = deaths - 1)
  BY DEF LibraryStep, Library!Next, Library!CreateFolder, Library!StartMove,
     Library!BeginMove, Library!StartDelete, Library!BeginDelete,
     Library!StartDeleteFolder, Library!HandlerStep, Library!Relocate,
     Library!ListFolder, Library!DropFolder, Library!EraseObject,
     Library!EraseVideo, Library!ReadMoved, Library!Unsort, Library!ReadDeleted,
     Library!VideoNotFound, Library!HandlerDies
<1> QED
  BY <1>2, <1>3, SystemAssumption DEF RequestsOK

-----------------------------------------------------------------------------
(* Whose objects a request deletes.                                         *)

Erasing(j) == \E h \in Handlers : request[h].pc = "erase" /\ request[h].video = j
Broken == deaths < MaxHandlerDeaths

\* The object keys of one job's video.
KeysOf(j) == {key \in ObjectKey : key[1] = j}

\* What a document, a run and a request name is their own video's.
KeysOwned ==
  /\ \A j \in Jobs : videos[j] # None => videos[j].result_key \in KeysOf(j) \cup {None}
  /\ \A w \in Workers :
       worker[w].result_key # None => worker[w].result_key \in KeysOf(worker[w].job)
  /\ \A h \in Handlers : request[h].pc = "erase" =>
       request[h].keys \in Seq(KeysOf(request[h].video))

LEMMA KeysApart ==
  ASSUME NEW j \in Jobs
  PROVE  /\ ThumbnailKey(j) \in KeysOf(j) /\ ClipsKey(j) \in KeysOf(j)
         /\ \A n \in Nat \ {0} : <<j, "result", n>> \in KeysOf(j)
         /\ \A k : k # j => KeysOf(k) \cap KeysOf(j) = {}
  BY DEF ThumbnailKey, ClipsKey, KeysOf, ObjectKey, ResultKey

LEMMA LinksOwned ==
  ASSUME NEW v \in Video, NEW j \in Jobs, v.result_key \in KeysOf(j) \cup {None}
  PROVE  /\ Library!Links(v, j) \in Seq(KeysOf(j))
         /\ Library!LinkSet(v, j) \subseteq {v.result_key, ThumbnailKey(j), ClipsKey(j)}
<1>1. ThumbnailKey(j) \in KeysOf(j) /\ ClipsKey(j) \in KeysOf(j)
  BY KeysApart
<1>2. CASE v.result_key = None
  <2>1. Library!Links(v, j) = <<>>
    BY <1>2 DEF Library!Links
  <2> QED
    BY <2>1 DEF Library!LinkSet
<1>3. CASE v.result_key # None /\ v.previews
  <2>1. Library!Links(v, j) = <<v.result_key, ThumbnailKey(j), ClipsKey(j)>>
    BY <1>3, SameKeys DEF Library!Links
  <2>2. DOMAIN Library!Links(v, j) = {1, 2, 3}
    BY <2>1
  <2> QED
    BY <1>1, <1>3, <2>1, <2>2 DEF Library!LinkSet
<1>4. CASE v.result_key # None /\ ~v.previews
  <2>1. Library!Links(v, j) = <<v.result_key>>
    BY <1>4, SameKeys DEF Library!Links
  <2>2. DOMAIN Library!Links(v, j) = {1}
    BY <2>1
  <2> QED
    BY <1>1, <1>4, <2>1, <2>2 DEF Library!LinkSet
<1> QED
  BY <1>2, <1>3, <1>4

\* A request that erases a video goes on, unless it has deleted the document,
\* found it deleted, or is broken off.
LEMMA ErasingGoesOn ==
  ASSUME RequestsOK, VideosOK, LibraryStep, NEW j \in Jobs, Erasing(j)
  PROVE  Erasing(j)' \/ videos'[j] = None \/ Broken'
<1>1. PICK h \in Handlers : request[h].pc = "erase" /\ request[h].video = j
  BY DEF Erasing
<1>2. CASE request'[h] = request[h]
  BY <1>1, <1>2 DEF Erasing
<1>3. ASSUME NEW x \in Handlers, HandlerActs(x), x # h PROVE request'[h] = request[h]
  <2>1. PICK r : Serving(x, r)
    BY <1>3, HandlerServes
  <2> QED
    BY <1>3, <2>1 DEF Serving, RequestsOK
<1>4. ASSUME HandlerActs(h) PROVE Erasing(j)' \/ videos'[j] = None \/ Broken'
  <2>1. CASE Library!EraseObject(h)
    <3>1. request[h] \in Library!Request
      BY DEF RequestsOK
    <3>2. request'[h] = [request[h] EXCEPT !.keys = Tail(request[h].keys)]
      BY <2>1 DEF Library!EraseObject, RequestsOK
    <3>3. request'[h].pc = "erase" /\ request'[h].video = j
      BY <1>1, <3>1, <3>2 DEF Library!Request
    <3> QED
      BY <3>3 DEF Erasing
  <2>2. CASE Library!EraseVideo(h)
    BY <1>1, <2>2 DEF Library!EraseVideo, VideosOK
  <2>3. CASE Library!VideoNotFound(h)
    BY <1>1, <2>3 DEF Library!VideoNotFound
  <2>4. CASE Library!HandlerDies(h)
    BY <2>4, SystemAssumption DEF Library!HandlerDies, Broken, RequestsOK
  <2> QED
    BY <1>1, <1>4, <2>1, <2>2, <2>3, <2>4
       DEF HandlerActs, Library!StartMove, Library!BeginMove, Library!StartDelete,
           Library!BeginDelete, Library!StartDeleteFolder, Library!HandlerStep,
           Library!Relocate, Library!ListFolder, Library!DropFolder,
           Library!ReadMoved, Library!Unsort, Library!ReadDeleted
<1> QED
  BY <1>2, <1>3, <1>4, LibraryTurn

\* As long as nobody erases a video, its objects stay where they are.
LEMMA ObjectsStay ==
  ASSUME KeysOwned, RequestsOK, LibraryStep, NEW j \in Jobs, ~Erasing(j)
  PROVE  objects \cap KeysOf(j) \subseteq objects'
<1>1. ASSUME NEW h \in Handlers, Library!EraseObject(h)
      PROVE  objects \cap KeysOf(j) \subseteq objects'
  <2>1. /\ request[h].keys # <<>> /\ request[h].video # j
        /\ request[h].keys \in Seq(KeysOf(request[h].video))
    BY <1>1 DEF Library!EraseObject, KeysOwned, Erasing
  <2>2. Head(request[h].keys) \in KeysOf(request[h].video)
    BY <2>1
  <2>3. Head(request[h].keys) \notin KeysOf(j)
    BY <2>1, <2>2, KeysApart
  <2> QED
    BY <1>1, <2>3 DEF Library!EraseObject
<1>2. ASSUME NEW h \in Handlers, HandlerActs(h), ~Library!EraseObject(h)
      PROVE  UNCHANGED objects
  BY <1>2 DEF HandlerActs, Library!StartMove, Library!BeginMove,
     Library!StartDelete, Library!BeginDelete, Library!StartDeleteFolder,
     Library!HandlerStep, Library!Relocate, Library!ListFolder,
     Library!DropFolder, Library!EraseVideo, Library!ReadMoved, Library!Unsort,
     Library!ReadDeleted, Library!VideoNotFound, Library!HandlerDies
<1> QED
  BY <1>1, <1>2, LibraryTurn

LEMMA LibraryKeys ==
  ASSUME KeysOwned, RequestsOK, VideosOK, LibraryStep
  PROVE  KeysOwned'
<1>1. ASSUME NEW j \in Jobs, videos'[j] # None
      PROVE  videos'[j].result_key \in KeysOf(j) \cup {None}
  <2>1. CASE videos'[j] = videos[j]
    BY <1>1, <2>1 DEF KeysOwned
  <2>2. CASE videos[j] # None /\ Refoldered(videos[j], videos'[j])
    BY <2>2, RefolderedFields DEF KeysOwned, VideosOK
  <2> QED
    BY <1>1, <2>1, <2>2, LibraryVideos
<1>2. ASSUME NEW h \in Handlers, request'[h].pc = "erase"
      PROVE  request'[h].keys \in Seq(KeysOf(request'[h].video))
  <2>1. CASE request'[h] = request[h]
    BY <1>2, <2>1 DEF KeysOwned
  <2>2. ASSUME NEW x \in Handlers, HandlerActs(x), x # h PROVE request'[h] = request[h]
    <3>1. PICK r : Serving(x, r)
      BY <2>2, HandlerServes
    <3> QED
      BY <2>2, <3>1 DEF Serving, RequestsOK
  <2>3. ASSUME HandlerActs(h)
        PROVE  request'[h].keys \in Seq(KeysOf(request'[h].video))
    <3>1. PICK r : Serving(h, r)
      BY <2>3, HandlerServes
    <3>2. request'[h] = r /\ Erases(h, r)
      BY <1>2, <3>1 DEF Serving, RequestsOK
    <3>3. CASE Library!EraseObject(h) /\ r.video = request[h].video
               /\ r.keys = Tail(request[h].keys)
      <4>1. /\ request[h].keys \in Seq(KeysOf(request[h].video))
            /\ request[h].keys # <<>>
        BY <3>3 DEF Library!EraseObject, KeysOwned
      <4>2. Tail(request[h].keys) \in Seq(KeysOf(request[h].video))
        <5>1. \A S : \A s \in Seq(S) : s # <<>> => Tail(s) \in Seq(S)
          OBVIOUS
        <5> QED
          BY <4>1, <5>1, Zenon
      <4> QED
        BY <3>2, <3>3, <4>2
    <3>4. ASSUME NEW j \in Jobs, videos[j] # None, r.video = j,
                 r.keys = Library!Links(videos[j], j)
          PROVE  request'[h].keys \in Seq(KeysOf(request'[h].video))
      BY <3>2, <3>4, LinksOwned DEF KeysOwned, VideosOK
    <3> QED
      BY <3>2, <3>3, <3>4 DEF Erases
  <2> QED
    BY <2>1, <2>2, <2>3, LibraryTurn
<1> QED
  BY <1>1, <1>2 DEF KeysOwned, LibraryStep, PipelineOnly

\* The result key a run draws carries its job's id, and so does what it publishes.
LEMMA PipelineKeys ==
  ASSUME WellFormed, KeysOwned, PipelineStep
  PROVE  KeysOwned'
<1>1. request' = request
  BY DEF PipelineStep, LibraryOnly
<1>2. CASE UNCHANGED <<videos, worker>>
  BY <1>1, <1>2 DEF KeysOwned
<1>3. ASSUME NEW j \in Jobs, SubmitStep(j) \/ SubmitDies(j) \/ Expire(j)
      PROVE  KeysOwned'
  <2>1. CASE CreateVideo(j)
    <3> DEFINE v == NewVideo(submit[j].file, submit[j].profile, submit[j].max_quality)
    <3>1. v.result_key = None
      BY DEF NewVideo
    <3>2. \A k \in Jobs : videos'[k] \in {videos[k], v}
      BY <2>1 DEF CreateVideo, WellFormed, TypeOK
    <3> HIDE DEF v
    <3> QED
      BY <1>1, <2>1, <3>1, <3>2 DEF CreateVideo, KeysOwned
  <2> QED
    BY <1>2, <1>3, <2>1
       DEF SubmitStep, Submit, CreateJob, ReadDuplicate, FailDuplicate, Send,
           SubmitDies, Expire
<1>4. ASSUME NEW d \in Dismissers, DismissStep(d) PROVE KeysOwned'
  <2>1. UNCHANGED <<videos, worker>>
    BY <1>4, Zenon DEF DismissStep, DismissOne, DismissAll, ScanJob,
       ReadDismissed, WriteDismissed
  <2> QED
    BY <1>2, <2>1
<1>5. ASSUME NEW w \in Workers, WorkerStep(w) \/ Abort(w) \/ Crash(w) PROVE KeysOwned'
  <2> DEFINE j == worker[w].job
             HasOwn(x) == worker'[x].result_key # None =>
                            worker'[x].result_key \in KeysOf(worker'[x].job)
  <2>1. ASSUME Ack(w) \/ Crash(w) \/ \E k \in Jobs : Pickup(w, k)
        PROVE  worker'[w].result_key = None
    <3>1. CASE Ack(w) \/ Crash(w)
      BY <3>1 DEF Ack, Crash, IdleWorker, WellFormed, TypeOK
    <3>2. ASSUME NEW k \in Jobs, Pickup(w, k) PROVE worker'[w].result_key = None
      <4> DEFINE r == [IdleWorker EXCEPT
                         !.pc = IF jobs[k] = None THEN "ack" ELSE "resolve", !.job = k]
      <4>1. r.result_key = None
        BY DEF IdleWorker
      <4>2. worker'[w] = r
        BY <3>2 DEF Pickup, WellFormed, TypeOK
      <4> QED
        BY <4>1, <4>2
    <3> QED
      BY <2>1, <3>1, <3>2
  <2>2. ASSUME Continues(w) PROVE HasOwn(w)
    <3>1. worker'[w].job = j
      BY <2>2 DEF Continues
    <3>2. CASE worker'[w].result_key = worker[w].result_key
      BY <3>1, <3>2 DEF KeysOwned
    <3>3. CASE UploadResult(w)
      <4> DEFINE key == <<j, "result", uploads[j] + 1>>
                 r == [worker[w] EXCEPT !.pc = "thumbnail", !.result_key = key]
      <4>1. r.result_key = key
        BY DEF WellFormed, TypeOK, WorkerState
      <4>2. worker'[w] = r
        BY <3>3 DEF UploadResult, WellFormed, TypeOK
      <4>3. j \in Jobs /\ uploads[j] + 1 \in Nat \ {0}
        BY <3>3 DEF UploadResult, WellFormed, TypeOK, WorkerOK, WorkerState
      <4>4. key \in KeysOf(j)
        BY <4>3, KeysApart
      <4> HIDE DEF r, key
      <4> QED
        BY <3>1, <4>1, <4>2, <4>4
    <3> QED
      BY <2>2, <3>2, <3>3 DEF Continues
  <2>3. ASSUME NEW x \in Workers PROVE HasOwn(x)
    BY <1>5, <2>1, <2>2, WorkerContinues, OthersStay DEF KeysOwned
  <2>4. ASSUME NEW k \in Jobs, videos'[k] # None
        PROVE  videos'[k].result_key \in KeysOf(k) \cup {None}
    <3>1. CASE videos'[k] = videos[k]
      BY <2>4, <3>1 DEF KeysOwned
    <3>2. CASE k = j /\ worker[w].pc = "name" /\ videos[j] # None
               /\ videos'[j] = Published(w)
      <4>1. videos'[k].result_key = worker[w].result_key
        BY <3>2, PublishedFields
      <4> QED
        BY <3>2, <4>1 DEF KeysOwned
    <3>3. CASE k = j /\ videos[k] # None
               /\ videos'[k] = [videos[k] EXCEPT !.status = "failed"]
      <4>1. videos'[k].result_key = videos[k].result_key
        BY <3>3 DEF WellFormed, TypeOK, Video
      <4> QED
        BY <3>3, <4>1 DEF KeysOwned
    <3> QED
      BY <1>5, <3>1, <3>2, <3>3, VideoAfter
  <2> QED
    BY <1>1, <2>3, <2>4 DEF KeysOwned
<1> QED
  BY <1>3, <1>4, <1>5 DEF PipelineStep, Next

-----------------------------------------------------------------------------
(* What is listed is stored.                                                *)

\* Nobody counts on the objects of video j: it is being erased, or gone, or a
\* request has been broken off while it may have been erasing it.
Excused(j) == Erasing(j) \/ videos[j] = None \/ Broken

ListedKept ==
  \A j \in Jobs : IsDone(videos[j]) =>
    \/ /\ videos[j].result_key \in ResultKey
       /\ {videos[j].result_key, ThumbnailKey(j), ClipsKey(j)} \subseteq objects
    \/ Excused(j)

UploadsKept ==
  \A w \in Workers, j \in Jobs : worker[w].job = j => UploadsOK(w) \/ Excused(j)

Kept == ListedKept /\ UploadsKept

LEMMA LibraryKeeps ==
  ASSUME WellFormed, RequestsOK, KeysOwned, Kept, LibraryStep
  PROVE  Kept'
<1>0. VideosOK /\ worker' = worker
  BY DEF WellFormed, TypeOK, VideosOK, LibraryStep, PipelineOnly
<1>1. ASSUME NEW j \in Jobs, Excused(j) PROVE Excused(j)'
  <2>1. CASE Erasing(j)
    BY <1>0, <2>1, ErasingGoesOn DEF Excused
  <2>2. CASE videos[j] = None
    <3>1. videos'[j] = None
      BY <1>0, <2>2, LibraryVideos
    <3> QED
      BY <3>1 DEF Excused
  <2>3. CASE Broken
    <3>1. Broken'
      BY <1>0, <2>3, LibraryRequests, SystemAssumption DEF Broken, RequestsOK
    <3> QED
      BY <3>1 DEF Excused
  <2> QED
    BY <1>1, <2>1, <2>2, <2>3 DEF Excused
<1>2. ASSUME NEW j \in Jobs, ~Excused(j)
      PROVE  objects \cap KeysOf(j) \subseteq objects'
  BY <1>2, ObjectsStay DEF Excused
<1>3. ASSUME NEW j \in Jobs, IsDone(videos'[j])
      PROVE  \/ /\ videos'[j].result_key \in ResultKey
                /\ {videos'[j].result_key, ThumbnailKey(j), ClipsKey(j)} \subseteq objects'
             \/ Excused(j)'
  <2>1. /\ IsDone(videos[j]) /\ videos'[j].result_key = videos[j].result_key
    BY <1>0, <1>3, LibraryVideos, RefolderedFields DEF IsDone, VideosOK
  <2>2. CASE Excused(j)
    BY <1>1, <2>2
  <2>3. CASE ~Excused(j)
    <3>1. /\ {videos[j].result_key, ThumbnailKey(j), ClipsKey(j)} \subseteq objects
          /\ videos[j].result_key \in ResultKey
      BY <2>1, <2>3 DEF Kept, ListedKept
    <3>2. videos[j].result_key \in KeysOf(j)
      BY <2>1, <3>1, <1>0, AbsenceAssumption DEF KeysOwned, IsDone
    <3> QED
      BY <1>2, <2>1, <2>3, <3>1, <3>2, KeysApart
  <2> QED
    BY <2>2, <2>3
<1>4. ASSUME NEW w \in Workers, NEW j \in Jobs, worker[w].job = j
      PROVE  UploadsOK(w)' \/ Excused(j)'
  <2>1. CASE worker[w].pc \notin {"thumbnail", "clips", "name", "done"}
    BY <1>0, <2>1 DEF UploadsOK
  <2>2. CASE Excused(j)
    BY <1>1, <2>2
  <2>3. CASE worker[w].pc \in {"thumbnail", "clips", "name", "done"} /\ ~Excused(j)
    <3>1. UploadsOK(w) /\ objects \cap KeysOf(j) \subseteq objects'
      BY <1>2, <1>4, <2>3 DEF Kept, UploadsKept
    <3>2. worker[w].result_key \in KeysOf(j)
      BY <1>4, <2>3, AbsenceAssumption DEF WellFormed, WorkerOK, KeysOwned
    <3>3. ThumbnailKey(j) \in KeysOf(j) /\ ClipsKey(j) \in KeysOf(j)
      BY KeysApart
    <3> QED
      BY <1>0, <1>4, <3>1, <3>2, <3>3 DEF UploadsOK, ThumbnailKey, ClipsKey
  <2> QED
    BY <2>1, <2>2, <2>3
<1> QED
  BY <1>0, <1>3, <1>4 DEF Kept, ListedKept, UploadsKept

\* No step of a run brings a document back.
LEMMA PipelineKeeps ==
  ASSUME WellFormed, Kept, PipelineStep
  PROVE  Kept'
<1>0. UNCHANGED <<request, deaths>>
  BY DEF PipelineStep, LibraryOnly
<1>1. ASSUME NEW j \in Jobs, videos[j] = None => videos'[j] = None, Excused(j)
      PROVE  Excused(j)'
  BY <1>0, <1>1 DEF Excused, Erasing, Broken
<1>2. ASSUME UNCHANGED <<videos, objects, worker>> PROVE Kept'
  BY <1>0, <1>2 DEF Kept, ListedKept, UploadsKept, Excused, Erasing, Broken,
     UploadsOK, IsDone, ThumbnailKey, ClipsKey
<1>3. ASSUME NEW k \in Jobs, CreateVideo(k) PROVE Kept'
  <2> DEFINE v == NewVideo(submit[k].file, submit[k].profile, submit[k].max_quality)
  <2>1. v.status # "done"
    BY DEF NewVideo
  <2>2. /\ UNCHANGED <<objects, worker>>
        /\ \A j \in Jobs \ {k} : videos'[j] = videos[j]
        /\ videos'[k] \in {videos[k], v}
    BY <1>3 DEF CreateVideo, WellFormed, TypeOK
  <2> HIDE DEF v
  <2>3. \A w \in Workers : worker[w].job # k
    BY <1>3 DEF CreateVideo, WellFormed, SubmitOK, Delivered, Running
  <2>4. ASSUME NEW j \in Jobs, IsDone(videos'[j])
        PROVE  \/ /\ videos'[j].result_key \in ResultKey
                  /\ {videos'[j].result_key, ThumbnailKey(j), ClipsKey(j)} \subseteq objects'
               \/ Excused(j)'
    <3>1. videos'[j] = videos[j] /\ IsDone(videos[j])
      BY <2>1, <2>2, <2>4 DEF IsDone
    <3> QED
      BY <1>1, <2>2, <3>1 DEF Kept, ListedKept, IsDone
  <2>5. ASSUME NEW w \in Workers, NEW j \in Jobs, worker[w].job = j
        PROVE  UploadsOK(w)' \/ Excused(j)'
    <3>1. UploadsOK(w) => UploadsOK(w)'
      BY <2>2 DEF UploadsOK, ThumbnailKey, ClipsKey
    <3> QED
      BY <1>1, <2>2, <2>3, <2>5, <3>1 DEF Kept, UploadsKept
  <2> QED
    BY <2>2, <2>4, <2>5 DEF Kept, ListedKept, UploadsKept
<1>4. ASSUME NEW j \in Jobs, SubmitStep(j) \/ SubmitDies(j), ~CreateVideo(j)
      PROVE  UNCHANGED <<videos, objects, worker>>
  BY <1>4 DEF SubmitStep, Submit, CreateJob, ReadDuplicate, FailDuplicate, Send,
     SubmitDies
<1>5. ASSUME NEW w \in Workers, WorkerStep(w) \/ Abort(w) \/ Crash(w) PROVE Kept'
  <2>1. objects \subseteq objects' /\ (UploadsOK(w) => UploadsOK(w)')
    BY <1>5, StepUploads
  <2>2. ASSUME NEW j \in Jobs, Excused(j) PROVE Excused(j)'
    BY <1>1, <1>5, <2>2, VideoAfter
  <2>3. ASSUME NEW x \in Workers, NEW j \in Jobs, worker'[x].job = j
        PROVE  UploadsOK(x)' \/ Excused(j)'
    <3>1. CASE x # w
      <4>1. worker'[x] = worker[x]
        BY <1>5, <3>1, OthersStay
      <4>2. UploadsOK(x) => UploadsOK(x)'
        BY <2>1, <4>1 DEF UploadsOK, ThumbnailKey, ClipsKey
      <4> QED
        BY <2>2, <2>3, <4>1, <4>2 DEF Kept, UploadsKept
    <3>2. CASE x = w /\ Continues(w)
      BY <2>1, <2>2, <2>3, <3>2 DEF Kept, UploadsKept, Continues
    <3>3. CASE x = w /\ ~Continues(w)
      <4>1. worker'[w].pc \in {"idle", "resolve", "ack"}
        BY <1>5, <3>3, WorkerContinues, StartOrEnd
      <4> QED
        BY <3>3, <4>1 DEF UploadsOK
    <3> QED
      BY <3>1, <3>2, <3>3
  <2>4. ASSUME NEW k \in Jobs, IsDone(videos'[k])
        PROVE  \/ /\ videos'[k].result_key \in ResultKey
                  /\ {videos'[k].result_key, ThumbnailKey(k), ClipsKey(k)} \subseteq objects'
               \/ Excused(k)'
    <3>1. CASE videos'[k] = videos[k]
      BY <2>1, <2>2, <2>4, <3>1 DEF Kept, ListedKept
    <3>2. CASE k = worker[w].job /\ worker[w].pc = "name" /\ videos[k] # None
               /\ videos'[k] = Published(w)
      <4>1. videos'[k].result_key = worker[w].result_key
        BY <3>2, PublishedFields
      <4>2. worker[w].result_key \in ResultKey
        BY <3>2 DEF WellFormed, WorkerOK
      <4> QED
        BY <2>1, <2>2, <3>2, <4>1, <4>2 DEF Kept, UploadsKept, UploadsOK
    <3>3. CASE videos[k] # None /\ videos'[k] = [videos[k] EXCEPT !.status = "failed"]
      <4>1. videos'[k].status = "failed"
        BY <3>3 DEF WellFormed, TypeOK, Video
      <4> QED
        BY <2>4, <4>1 DEF IsDone
    <3> QED
      BY <1>5, <3>1, <3>2, <3>3, VideoAfter
  <2> QED
    BY <2>3, <2>4 DEF Kept, ListedKept, UploadsKept
<1>6. [Next]_vars
  BY DEF PipelineStep
<1> QED
  BY <1>2, <1>3, <1>4, <1>5, <1>6, OtherSteps

-----------------------------------------------------------------------------
(* The system.                                                              *)

\* Requests leave the stores and the processes of the pipeline well formed.
LEMMA LibraryWellFormed ==
  ASSUME WellFormed, RequestsOK, LibraryStep
  PROVE  WellFormed'
<1>1. VideosOK
  BY DEF WellFormed, TypeOK, VideosOK
<1>2. VideosOK'
  BY <1>1, LibraryVideos
<1>3. UNCHANGED <<jobs, uploads, queue, submit, worker, dismiss, budget>>
  BY DEF LibraryStep, PipelineOnly
<1>4. TypeOK'
  BY <1>2, <1>3 DEF WellFormed, TypeOK, VideosOK
<1> QED
  BY <1>3, <1>4 DEF WellFormed, SubmitOK, WorkerOK, DismissOK, Delivered, Running

\* The inductive invariant.
SystemOK == WellFormed /\ RequestsOK /\ KeysOwned /\ Kept

LEMMA SystemStarts == SystemInit => SystemOK
<1> SUFFICES ASSUME SystemInit PROVE SystemOK
  OBVIOUS
<1>1. WellFormed
  BY InitWellFormed DEF SystemInit
<1>2. RequestsOK /\ \A h \in Handlers : request[h].pc = "idle"
  BY NoRequestTyped, SystemAssumption
     DEF SystemInit, Library!NoRequests, Library!NoRequest, RequestsOK
<1>3. (\A j \in Jobs : videos[j] = None) /\ \A w \in Workers : worker[w] = IdleWorker
  BY DEF SystemInit, Init
<1> QED
  BY <1>1, <1>2, <1>3 DEF SystemOK, KeysOwned, Kept, ListedKept, UploadsKept,
     UploadsOK, IsDone, IdleWorker

LEMMA SystemStepOK == SystemOK /\ [SystemNext]_systemVars => SystemOK'
<1> SUFFICES ASSUME SystemOK, [SystemNext]_systemVars PROVE SystemOK'
  OBVIOUS
<1>1. CASE PipelineStep
  <2>1. RequestsOK'
    BY <1>1 DEF SystemOK, RequestsOK, PipelineStep, LibraryOnly
  <2>2. WellFormed'
    BY <1>1, NextWellFormed DEF SystemOK, PipelineStep
  <2> QED
    BY <1>1, <2>1, <2>2, PipelineKeys, PipelineKeeps DEF SystemOK
<1>2. CASE LibraryStep
  <2>1. VideosOK
    BY DEF SystemOK, WellFormed, TypeOK, VideosOK
  <2> QED
    BY <1>2, <2>1, LibraryWellFormed, LibraryRequests, LibraryKeys, LibraryKeeps
       DEF SystemOK
<1>3. CASE UNCHANGED systemVars
  <2>1. UNCHANGED vars /\ UNCHANGED <<request, deaths>>
    BY <1>3 DEF systemVars
  <2>2. WellFormed'
    BY <2>1, StutterWellFormed DEF SystemOK
  <2> QED
    BY <2>1, <2>2 DEF SystemOK, vars, RequestsOK, KeysOwned, Kept, ListedKept,
       UploadsKept, UploadsOK, Excused, Erasing, Broken, IsDone, ThumbnailKey, ClipsKey
<1> QED
  BY <1>1, <1>2, <1>3 DEF SystemNext

\* Every store and process of the system holds values of its type, whatever
\* workers and requests do to the documents and objects they share.
THEOREM SystemWellFormed == SystemSpec => [](WellFormed /\ RequestsOK)
<1>1. SystemOK => WellFormed /\ RequestsOK
  BY DEF SystemOK
<1> QED
  BY <1>1, SystemStarts, SystemStepOK, PTL DEF SystemSpec

\* A listed video can be downloaded and previewed unless a request is erasing it
\* or was broken off, for any number of runs that publish it again and requests
\* that move and delete it meanwhile (_upload_result_with_display_name, delete_videos).
THEOREM ListedIsAlwaysStored == SystemSpec => []ListedIsStored
<1>1. SystemOK => ListedIsStored
  <2> SUFFICES ASSUME SystemOK, NEW j \in Jobs, IsDone(videos[j])
               PROVE  \/ Library!LinkSet(videos[j], j) \subseteq objects
                      \/ Erasing(j) \/ Broken
    BY DEF ListedIsStored, Library!ListedIsStored, Library!IsListed, IsDone,
       Erasing, Broken
  <2>1. /\ videos[j] \in Video /\ videos[j] # None
        /\ videos[j].result_key \in KeysOf(j) \cup {None}
    BY DEF SystemOK, WellFormed, TypeOK, KeysOwned, IsDone
  <2> QED
    BY <2>1, LinksOwned DEF SystemOK, Kept, ListedKept, Excused
<1> QED
  BY <1>1, SystemStarts, SystemStepOK, PTL DEF SystemSpec

\* No document comes back, for any number of workers, redeliveries and requests
\* (publish, mark_failed and relocate_video update what is there, or nothing).
THEOREM DeletedIsForGood == SystemSpec => DeletedStaysDeleted
<1>1. SystemOK /\ [SystemNext]_systemVars =>
        [\A j \in Jobs : submit[j].pc \in {"send", "accepted"} /\ videos[j] = None
                         => videos'[j] = None]_systemVars
  <2> SUFFICES ASSUME SystemOK, SystemNext, NEW j \in Jobs,
                      submit[j].pc \in {"send", "accepted"}, videos[j] = None
               PROVE  videos'[j] = None
    OBVIOUS
  <2>1. CASE LibraryStep
    <3>1. VideosOK
      BY DEF SystemOK, WellFormed, TypeOK, VideosOK
    <3> QED
      BY <2>1, <3>1, LibraryVideos DEF SystemOK
  <2>2. CASE PipelineStep
    <3>1. ASSUME NEW k \in Jobs, CreateVideo(k) PROVE videos'[j] = None
      BY <3>1 DEF CreateVideo, SystemOK, WellFormed, TypeOK
    <3>2. ASSUME NEW k \in Jobs, SubmitStep(k) \/ SubmitDies(k), ~CreateVideo(k)
          PROVE  videos' = videos
      BY <3>2 DEF SubmitStep, Submit, CreateJob, ReadDuplicate, FailDuplicate,
         Send, SubmitDies
    <3>3. ASSUME NEW w \in Workers, WorkerStep(w) \/ Abort(w) \/ Crash(w)
          PROVE  videos'[j] = None
      BY <3>3, VideoAfter DEF SystemOK
    <3>4. [Next]_vars
      BY <2>2 DEF PipelineStep
    <3> QED
      BY <3>1, <3>2, <3>3, <3>4, OtherSteps
  <2> QED
    BY <2>1, <2>2 DEF SystemNext
<1> QED
  BY <1>1, SystemStarts, SystemStepOK, PTL DEF SystemSpec, DeletedStaysDeleted

\* Deleting documents and moving them keeps both unique keys.
LEMMA LibraryKeepsIndexes ==
  ASSUME RequestsOK, VideosOK, Indexed, LibraryStep
  PROVE  Indexed'
<1>1. ASSUME NEW j \in Jobs, videos'[j] # None
      PROVE  /\ videos[j] # None
             /\ videos'[j].status = videos[j].status
             /\ videos'[j].fingerprint = videos[j].fingerprint
             /\ videos'[j].profile = videos[j].profile
             /\ videos'[j].max_quality = videos[j].max_quality
             /\ videos'[j].display_name = videos[j].display_name
  BY <1>1, LibraryVideos, RefolderedFields DEF VideosOK
<1>2. ActiveKeysUnique'
  BY <1>1 DEF Indexed, ActiveKeysUnique, Matches
<1>3. DisplayNamesUnique'
  BY <1>1 DEF Indexed, DisplayNamesUnique
<1> QED
  BY <1>2, <1>3 DEF Indexed

\* What the pipeline promises alone it promises beside the library's requests: a
\* job is with one worker at a time, and both unique keys hold.
THEOREM LibraryDisturbsNothing == SystemSpec => [](SingleDelivery /\ Indexed)
<1>1. SystemInit => Exclusive /\ Indexed
  <2> SUFFICES ASSUME SystemInit PROVE Exclusive /\ Indexed
    OBVIOUS
  <2>1. /\ queue = {} /\ \A w \in Workers : worker[w].job = None
        /\ \A j \in Jobs : videos[j] = None
    BY DEF SystemInit, Init, IdleWorker
  <2>2. Exclusive
    BY <2>1, StoresAssumption DEF Exclusive, Running
  <2>3. Indexed
    BY <2>1, Zenon DEF Indexed, ActiveKeysUnique, DisplayNamesUnique
  <2> QED
    BY <2>2, <2>3
<1>2. SystemOK /\ Exclusive /\ Indexed /\ [SystemNext]_systemVars =>
        Exclusive' /\ Indexed'
  <2> SUFFICES ASSUME SystemOK, Exclusive, Indexed, [SystemNext]_systemVars
               PROVE  Exclusive' /\ Indexed'
    OBVIOUS
  <2>1. CASE PipelineStep \/ UNCHANGED systemVars
    <3>1. [Next]_vars
      BY <2>1 DEF PipelineStep, systemVars
    <3> QED
      BY <3>1, NextExclusive, NextIndexed DEF SystemOK
  <2>2. CASE LibraryStep
    <3>1. VideosOK
      BY DEF SystemOK, WellFormed, TypeOK, VideosOK
    <3>2. Exclusive'
      BY <2>2 DEF LibraryStep, PipelineOnly, Exclusive, Running
    <3> QED
      BY <2>2, <3>1, <3>2, LibraryKeepsIndexes DEF SystemOK
  <2> QED
    BY <2>1, <2>2 DEF SystemNext
<1>3. SystemOK /\ Exclusive => SingleDelivery
  BY DEF SystemOK, WellFormed, SubmitOK, Exclusive, SingleDelivery
<1> QED
  BY <1>1, <1>2, <1>3, SystemStarts, SystemStepOK, PTL DEF SystemSpec

-----------------------------------------------------------------------------
(* The job store beside the library.                                        *)

\* A library request changes nothing the job hashes are read or written from.
LEMMA LibraryLeavesJobs ==
  ASSUME OneWriter, Phases, UNCHANGED PipelineOnly
  PROVE  /\ OneWriter' /\ Phases'
         /\ \A j \in Jobs : AbstractJob(j)' = AbstractJob(j)
<1>1. /\ jobs' = jobs /\ queue' = queue /\ submit' = submit /\ worker' = worker
      /\ dismiss' = dismiss /\ budget' = budget
  BY DEF PipelineOnly
<1>2. ASSUME NEW j \in Jobs PROVE JobOK(j)' /\ Reader(submit[j].snap, jobs[j])'
  <2>1. (Owned(j)' <=> Owned(j)) /\ (Unresolved(j)' <=> Unresolved(j))
        /\ (Unsent(j)' <=> Unsent(j))
    BY <1>1 DEF Owned, Active, Unresolved, Unsent
  <2> QED
    BY <1>1, <2>1 DEF OneWriter, JobOK, Reader, Pending
<1>3. ASSUME NEW d \in Dismissers PROVE Dismissing(d)'
  <2>1. \A k : (Owned(k)' <=> Owned(k)) /\ (Unsent(k)' <=> Unsent(k))
    BY <1>1 DEF Owned, Active, Unsent
  <2> QED
    BY <1>1, <2>1 DEF OneWriter, Dismissing, UpToDismissal
<1>4. OneWriter'
  BY <1>1, <1>2, <1>3 DEF OneWriter, Reader, Pending, Agree, UpToDismissal
<1>5. Phases'
  BY <1>1 DEF Phases, Phase, Holds, Fresh, Underway, Failing, At
<1>6. \A j \in Jobs : AbstractJob(j)' = AbstractJob(j)
  BY <1>1 DEF AbstractJob, StatusOf, HeldSnaps
<1> QED
  BY <1>4, <1>5, <1>6

LEMMA SystemJobs ==
  ASSUME MaxCrashes = 0
  PROVE  SystemSpec => [](SystemOK /\ Exclusive /\ OneWriter /\ Phases)
<1>1. SystemInit => OneWriter /\ Phases
  BY InitOneWriter DEF SystemInit, Init, Phases, Phase, Holds, IdleWorker, IdleDismisser
<1>2. SingleDelivery => Exclusive
  BY DEF SingleDelivery, Exclusive
<1>3. SystemOK /\ Exclusive /\ OneWriter /\ Phases /\ [SystemNext]_systemVars =>
        OneWriter' /\ Phases'
  <2> SUFFICES ASSUME SystemOK, Exclusive, OneWriter, Phases, [SystemNext]_systemVars
               PROVE  OneWriter' /\ Phases'
    OBVIOUS
  <2>1. CASE PipelineStep \/ UNCHANGED systemVars
    <3>1. [Next]_vars
      BY <2>1 DEF PipelineStep, systemVars
    <3> QED
      BY <3>1, NextOneWriter, NextPhases DEF SystemOK
  <2>2. CASE LibraryStep
    BY <2>2, LibraryLeavesJobs DEF LibraryStep
  <2> QED
    BY <2>1, <2>2 DEF SystemNext
<1> QED
  BY <1>1, <1>2, <1>3, SystemStarts, SystemStepOK, LibraryDisturbsNothing, PTL
     DEF SystemSpec

\* Whatever the library does to a job's video, its deletion while it is graded
\* included, the updates of the job's hash are not lost.
THEOREM SystemLosesNoUpdate ==
  ASSUME MaxCrashes = 0
  PROVE  SystemSpec => []NoLostUpdate
<1>1. SystemOK /\ OneWriter => NoLostUpdate
  BY DEF SystemOK, WellFormed, OneWriter, Reader, Dismissing, NoLostUpdate
<1> QED
  BY <1>1, SystemJobs, PTL

\* The whole system keeps the promise the dashboard relies on: each job is a
\* JobLifecycle, also when its video is moved or deleted under the run.
THEOREM SystemKeepsLifecycles ==
  ASSUME MaxCrashes = 0
  PROVE  SystemSpec => JobsAreLifecycles
<1> DEFINE job == [j \in Jobs |-> AbstractJob(j)]
<1>1. SystemInit => Lifecycle!Init
  <2> SUFFICES ASSUME SystemInit, NEW j \in Jobs
               PROVE  AbstractJob(j) = Lifecycle!Unstored("none")
    BY DEF Lifecycle!Init
  <2>1. jobs[j] = None /\ submit[j].pc = "new"
    BY DEF SystemInit, Init
  <2> QED
    BY <2>1 DEF AbstractJob, StatusOf, Lifecycle!Unstored
<1>2. SystemOK => WellFormed
  BY DEF SystemOK
<1>3. WellFormed /\ WellFormed' /\ Exclusive /\ OneWriter /\ Phases /\ Statuses /\ Statuses'
        /\ [SystemNext]_systemVars => [Lifecycle!Next]_job
  <2> SUFFICES ASSUME WellFormed, WellFormed', Exclusive, OneWriter, Phases, Statuses,
                      Statuses', [SystemNext]_systemVars
               PROVE  [Lifecycle!Next]_job
    OBVIOUS
  <2>1. CASE PipelineStep \/ UNCHANGED systemVars
    <3>1. [Next]_vars
      BY <2>1 DEF PipelineStep, systemVars
    <3> QED
      BY <3>1, NextLifecycle
  <2>2. CASE LibraryStep
    BY <2>2, LibraryLeavesJobs DEF LibraryStep
  <2> QED
    BY <2>1, <2>2 DEF SystemNext
<1>4. SystemSpec => []Statuses
  BY <1>2, StatusHeld, SystemJobs, PTL
<1> QED
  BY <1>1, <1>2, <1>3, <1>4, SystemJobs, PTL
     DEF SystemSpec, JobsAreLifecycles, Lifecycle!Spec

=============================================================================
