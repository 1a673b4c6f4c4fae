------------------------------- MODULE Stores -------------------------------
(***************************************************************************)
(* The two stores the API and the workers share: the job hashes in Redis   *)
(* (jobs/store.py) and the video documents in MongoDB (videos/store.py).   *)
(* The records, the statuses and what the two unique indexes accept; the   *)
(* components keep the stores' contents in variables of their own.         *)
(***************************************************************************)
EXTENDS Naturals

CONSTANTS
  Jobs,        \* job ids; a job and its video share one id
  Files,       \* uploaded source contents; equal contents, equal fingerprint
  Implemented, \* names of the implemented profiles
  GpuProfiles, \* those whose execution_path is "gpu"
  Folders,     \* folder ids
  CreationTag, \* recording date in a file's metadata, None when absent
  None         \* Python's None

ASSUME StoresAssumption ==
  /\ "auto" \notin Implemented
  /\ GpuProfiles \subseteq Implemented
  /\ None \notin Jobs \cup Files \cup Folders \cup Implemented
  /\ None \notin {"queued", "running", "done", "failed"}

-----------------------------------------------------------------------------
(* Jobs.  The progress percentage and the text of an error are left out.   *)

JobStatus == {"queued", "running", "done", "failed"}
JobStage == {"downloading", "processing", "uploading_result"}
Dismissable == {"done", "failed"}

\* An object key: the result under a fresh uuid (a number here), or a preview
\* asset under the job's one fixed key.
ResultKey == Jobs \X {"result"} \X (Nat \ {0})
ThumbnailKey(j) == <<j, "thumbnail", 0>>
ClipsKey(j) == <<j, "clips", 0>>
ObjectKey == ResultKey \cup (Jobs \X {"thumbnail", "clips"} \X {0})

Job == [ source_key       : Files,
         requested_profile: Implemented \cup {"auto"},
         resolved_profile : Implemented \cup {None},
         max_quality      : BOOLEAN,
         status           : JobStatus,
         stage            : JobStage \cup {None},
         result_key       : ResultKey \cup {None},
         error            : BOOLEAN,
         dismissed        : BOOLEAN ]

NewJob(file, profile, quality) ==
  [ source_key |-> file, requested_profile |-> profile,
    resolved_profile |-> None, max_quality |-> quality, status |-> "queued",
    stage |-> None, result_key |-> None, error |-> FALSE,
    dismissed |-> FALSE ]

-----------------------------------------------------------------------------
(* Videos.                                                                 *)

VideoStatus == {"in_progress", "done", "failed"}
ActiveStatus == {"in_progress", "done"}

\* A display name is built from the recording date (or the job's own creation
\* date, which its id stands for), the profile and the attempt number.
DisplayName == (Jobs \cup {CreationTag[f] : f \in Files}) \X Implemented \X Nat

Video == [ fingerprint : Files,
           profile     : Implemented \cup {"auto"},
           max_quality : BOOLEAN,
           status      : VideoStatus,
           display_name: DisplayName \cup {None},
           result_key  : ResultKey \cup {None},
           previews    : BOOLEAN,
           folder_id   : Folders \cup {None} ]

NewVideo(file, profile, quality) ==
  [ fingerprint |-> file, profile |-> profile, max_quality |-> quality,
    status |-> "in_progress", display_name |-> None, result_key |-> None,
    previews |-> FALSE, folder_id |-> None ]

\* None is no hash, no document, no key and no name.
ASSUME AbsenceAssumption == None \notin Job \cup Video \cup ResultKey \cup DisplayName

\* make_display_name, applied to source_info.recorded_created_at or the job's
\* created_at.
MakeDisplayName(j, file, profile, attempt) ==
  << IF CreationTag[file] = None THEN j ELSE CreationTag[file],
     profile, attempt >>

\* The record v is in the partial index on the fingerprint under the same key.
Matches(v, file, profile, quality) ==
  /\ v # None
  /\ v.status \in ActiveStatus
  /\ v.fingerprint = file
  /\ v.profile = profile
  /\ v.max_quality = quality

FindByFingerprint(videos, file, profile, quality) ==
  {k \in Jobs : Matches(videos[k], file, profile, quality)}

\* Seeded fault: no unique index on the fingerprint.
NameIndexOnly(videos, j, v) ==
  \E k \in Jobs \ {j} :
    /\ videos[k] # None
    /\ v.display_name # None
    /\ videos[k].display_name = v.display_name

\* MongoDB refuses to store v as document j: DuplicateKeyError.
DuplicateKey(videos, j, v) ==
  \E k \in Jobs \ {j} :
    \/ /\ v.status \in ActiveStatus
       /\ Matches(videos[k], v.fingerprint, v.profile, v.max_quality)
    \/ /\ videos[k] # None
       /\ v.display_name # None
       /\ videos[k].display_name = v.display_name
=============================================================================
