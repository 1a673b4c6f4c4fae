# tonemill in TLA+

tonemill takes camera footage through a browser, colour-grades it on a worker with ffmpeg, and keeps the
graded videos in a library. This directory holds TLA+ models of the program, the TLC runs that check them
on small instances, and theorems about them checked by TLAPS for every value of the constants.
`PROJECT.json` lists, machine-readably, the components, the runs, the faults seeded to show that each
property can fail, the source lines each definition models, the findings, the hazards and the theorems.

## 1. The system

    browser --parts, complete--> API ---session---> Redis        (uploads)
    browser --------PUT part----------------------> object store
    browser --submit, poll, dismiss--> API --jobs-> Redis
                                       API --send-> broker --> worker --result, previews--> object store
                                       API, worker --video documents--> MongoDB
    browser --move, delete, folders--> API --> MongoDB, object store

Nothing in the program takes a lock. Two processes meet only in the stores, at every `await`, and what keeps
them apart is (a) that the broker gives a job's message to one worker, (b) MongoDB's unique indexes, (c) the
object store's refusal to touch a closed multipart upload, and (d) the order in which handlers write.

| Part | State | Operations | What makes it correct |
|---|---|---|---|
| Job store (`jobs/store.py`) | one Redis hash per job, with a TTL | create, get, update (read all, write all), dismiss, dismiss_all, list_all | no update is lost; a dismissed job is done or failed; a terminal status is final |
| Worker (`worker/actors.py`, `worker/pipeline.py`, `videos/naming.py`) | the message, the resolved profile, the result key | resolve, reject, download, probe, grade, upload result and previews, publish under a unique name, fail | every run ends in a terminal status; done means published, with everything it links to stored; a failure frees the file |
| Submission (`api/routes/jobs.py`) | none beyond one request | submit, dismiss, dismiss all, status | one active video per file, profile and quality; a rejected submission leaves no run |
| Video store (`videos/store.py`) | MongoDB documents, two unique indexes | create, get, update, find_by_fingerprint, delete, folders | indexes are the only exclusion |
| Library API (`api/routes/videos.py`, `folders.py`, `videos/relocate.py`) | `folder_id` of each video, folders | move, delete videos, create and delete folders | a listed video is shown somewhere and can be downloaded; what is deleted stays deleted |
| Upload API (`api/routes/uploads.py`, `storage/s3_client.py`) | session hash, multipart upload | initiate, presign, list parts, complete, abort | the source appears whole or not at all; the session says which |
| Browser upload (`lib/upload.ts`) | map of completed parts, cursor, up to four loops | uploadFile, also on a session begun earlier | no part lost or sent twice; the call returns or throws; an interrupted upload can be finished |
| Dashboard (`lib/stores/jobs.svelte.ts`, `polling.ts`, `+page.svelte`) | shown jobs, a poller for each time a job is tracked | submit, hydrate, track, dismiss, dismiss all | a running job is polled; a job is shown once; the card tells how the job ended |
| Library page (`lib/stores/library.svelte.ts`, `routes/library/+page.svelte`) | copy of videos and folders, selection | load, select, drag, move, delete, create and delete folders | the copy is what the server holds; what is selected is listed |
| Amounts (part ranges, fingerprint, progress parser, thumbnail, preview clips) | what one file has been cut into, its percentage | slice, sample, probe, report, cut | ranges tile the file, clips do not overlap, the percentage is true |
| Profile choice (`profiles/`, `pipeline.py`) | what one run has asked and measured | validate, resolve "auto", probe, check again, measure contrast, build the command | the right profile, quality and contrast, or a failure; never a silent substitute |
| Tuning tool (`tools/tune_profile.py`) | none | search the candidates | the strongest candidate that clips no scene |

The hard behaviours are the interleavings of submit, worker, dismiss and library requests; the read and the
write of `JobStore.update`; a worker that dies and whose message comes back; failures between two writes to
two stores; a TTL that runs out; loops sharing a cursor in one page and pages sharing an upload; a GPU that is there at one
probe and gone at the next.

## 2. The modules

| Module | Models | Notes |
|---|---|---|
| `Stores` | records, statuses and unique indexes of the job hashes and the video documents | no variables; used by the two below |
| `JobPipeline` | `submit_job`, `run_job`, `JobStore.update/dismiss/dismiss_all`, the broker, TTL | one action per await on a store |
| `JobLifecycle` | what readers may see of a job, as one variable | abstract specification: `JobPipeline` implements it, `Dashboard` relies on it |
| `VideoLibrary` | moves, folders, deletions | one request handler per element of `Handlers`; `Serves` says which requests it takes |
| `LibraryPage` | the page's copy, selection, the `load()` of each visit, and its calls, beside `VideoLibrary` and publications | extends it: the page's calls are served by the handlers in `Mine` |
| `Tonemill` | `JobPipeline` and `VideoLibrary` over the same videos and objects | `Library == INSTANCE VideoLibrary`, interleaved |
| `SourceUpload` | what an upload session promises, as three variables | abstract specification |
| `Uploads` | upload handlers, multipart upload, `uploadFile` and its loops, `submitJob`, other clients | implements `SourceUpload` |
| `Dashboard` | the page's items, submissions, pollers, lists and dismissals beside the job store | the job store is `Store == INSTANCE JobLifecycle` |
| `Media` | the amounts of one file: parts, samples, duration, percentage, thumbnail and clip moments | state advances by `stage` |
| `ProfileChoice` | validation, `resolve_auto`, availability probes, `_reject_if_unrunnable`, `_auto_contrast`, the quality target | the host changes while it is asked |
| `Grading` | one file through `Media` and `ProfileChoice` in the order of `submit_job` and `run_job`, the sampled window | extends both; each step is a step of one of them |
| `Tuning` | `find_best_candidate`, scene by scene, with NaN | a program of its own: `MCTuning` runs it alone, `MCGrading` where no scene is without a frame |
| `MC...` | instances for TLC | one .cfg per run |
| `JobPipeline_proofs`, `JobUpdates_proofs`, `Uploads_proofs`, `Dashboard_proofs`, `Media_proofs`, `Grading_proofs`, `LibraryPage_proofs`, `Tonemill_proofs` | theorems | section 6; `Grading_proofs` has those of `ProfileChoice` and `Tuning`, `LibraryPage_proofs` those of `VideoLibrary` |

Seeded faults (`... \* Seeded fault:`) stand next to the definition they replace and are used by no
specification: they are the plausible bugs `PROJECT.json` "mutants" puts in the place of the code's definition
to show that each property fails under one.

### JobPipeline

A job, its submission and its video share one id (`submit_job` gives the video the job's id), so `Jobs` indexes
`jobs` (Redis), `videos` (MongoDB) and `submit`. `submit[j].pc`, `worker[w].pc` and `dismiss[d].pc` name the
next await of the handler. `snap` is the hash `JobStore.update` has read and not yet written back: `ReadJob`,
`ReadDuplicate`, `ReadDismissed` fill it, the `Record...`, `FailDuplicate` and `WriteDismissed` actions write
the whole hash from it. `queue` holds messages that are not with a worker. `Crash` kills a worker and puts its
message back; `Abort` ends a run by an exception `run_job` does not catch (dramatiq's time limit, a failing
store), after which `max_retries=0` drops the message; `SubmitDies` ends a submission half way; `Expire` drops a
hash. Contents are abstracted to `Files` with equal contents having equal fingerprints; a display name is a
recording date, a profile and an attempt number; a result key is fresh for each upload, the preview keys are
fixed per job. Progress percentages and error texts are left out (an update that only changes them is still a
read and a write). What is available on the host is any choice of `Resolve` and `CheckRunnable`: `ProfileChoice` says which
choices there are.

### JobLifecycle

`job[j]` is a job's status, its dismissal, and whether its hash is stored. It is the contract between the two sides of the job
store. `JobPipeline` implements it (`JobsAreLifecycles`, under `Lifecycle`) as long as nothing is redelivered: the two accesses of
`update`, the scan of `dismiss_all` and its late writes come down to atomic steps. `Dashboard` uses its actions, and nothing
else, for what happens to a job on the other side. `Lapse` and `Rewrite` are there because of a hash that expires between the
two accesses of an update: readers miss the job for a moment, and the write brings it back. In the refinement mapping such a job
keeps the status held by whoever is about to write it (`StatusOf`).

### VideoLibrary and Tonemill

`Links` is the order in which `delete_videos` erases a video's objects, the document goes after them. A request
keeps the ids it still has to treat (`todo`) and the document it read (`video`, `keys`); the folder list of
`delete_folder` is one read. A document another request deleted in the meantime ends a request in `VideoNotFound`, a failing
store call or a killed process in `HandlerDies`. In `VideoLibrary` the videos are graded from the start (`Graded`), in `Tonemill` the
pipeline makes them. `Selectable` is the status of videos whose ids a request may name: the page offers done
videos, the API accepts any. `Previewed` names the videos that have a thumbnail and clips besides their result.

### LibraryPage

`shown` is `this.videos` reduced to the folder each video is given (`Absent` when it is not listed), `sections` counts how
often `this.folders` lists a folder, because `createFolder` pushes without looking. `load[v]` is the `load()` of visit `v`: `onMount`
calls it on every visit without looking for another one under way, and the store outlives the page, so the loads of several visits overlap and
answer in any order. The two requests of a load are read in either order (`ReadVideos`, `ReadFolders`) and both replace the copy in one
step (`Loaded`) or not at all (`LoadFails`). `call[h]` is a call of the page: sending it and the handler's first lookup are one step, the handler's
steps are those of `VideoLibrary`, its answer is a step (`Moved`, `Deleted`, `FolderDeleted`, `FolderCreated`, or `Rejected`, which also stands for
an answer lost after the deed). The user drags what is in a section and selects
what is in one; the other clients delete one video per request and create folders; a worker publishes a video (`Publish`), whose document and
objects were stored before and are published in one step. Expanded sections, playing clips, the
confirmation dialog and folder names are left out.

Three history variables say what the copy may not be held to. `stale`: a call failed, or a load and a call of the page overlapped.
`unseen`: the videos published since the list the copy shows was read; only another load can show them. `overtaken`: that list had been read
before the list of another visit was shown, and replaced it. `CopyIsTrue` excepts the first two, `SelectionIsListed` only a video that is `unseen` in an
`overtaken` copy: `PageAssumption` has `Selectable` be done videos, so none that is still being graded is erased and published after all.

### Uploads

`multipart`, `received` and `object` are the object store's upload, its parts and the assembled source;
`session` is the Redis hash's state. `call[c]` is one `uploadFile` with the `completeUpload` and `submitJob`
behind it: `completed` is its map, `remaining` the parts behind the cursor, `part[l]` what loop `l` is sending
and `stored` the loops whose PUT has arrived but is not answered. When one loop throws, `pc` becomes "failed"
and the other loops go on, as they do behind a rejected `Promise.all`. A second call starts from the parts the
store lists at that moment. Minting a presigned URL changes nothing and is part of its PUT. A page that closes
with a PUT under way is covered by its closing later: nobody can tell the two apart.

### Dashboard

`items` is `jobsStore.items`. An item and a poller are named by who adds them and for which job: `<<0, j>>` by
`submitFile` for job `j`, `<<l, j>>` by the list of visit `l`; each adds at most one of both. An item keeps the
fields the page decides by (`phase`, `jobId`, `status`). `submit[j]` is the page's submission: between `Accept`
(the record exists) and `Submitted` (the answer is handled) the page has an item without a job id. Nothing stops a
poller: those of an earlier visit go on beside the new ones, and `update` on a removed item does nothing.
`ListRead` reads one hash at a time, as `list_all` does, so a list may be a mixture of moments; `ListAnswered` is
`hydrateFromServer` with the tracking that follows it. `ClearScan` and `ClearWrite` are the two halves of
`dismiss_all`, `ClearAnswered` is `clearDismissable`. The job store is `JobLifecycle`; `Read(j)` is what a reader
gets of it, "gone" while the hash is not stored.

### Media

One file runs through `stage`: its parts are sent in any order, it is fingerprinted, probed, encoded while
progress lines arrive, and cut. Times are whole microseconds where ffprobe and ffmpeg print them and milliseconds
where the program keeps them; a percentage is counted in tenths. Printing seconds with three decimals is `Nearest`:
a tie may go up or down, since which depends on the binary fraction. `IntervalPasses` is the monotonic clock
passing the update interval. The floating-point quotients of the code are exact at every bound the properties
compare with (1.5 s and its multiples are binary fractions, sizes stay below 2^53).

### ProfileChoice, Grading and Tuning

`host` is the set of profiles whose probe would succeed at this moment; `HostChanges` replaces it whenever it likes while
a profile is chosen. A CPU profile's probe only looks at the path: one that begins with "/" passes although there may be no ffmpeg, and the run then ends in `StartFails`. `Available` is one call of `is_available`: a GPU profile's probe may also be given up after 15 seconds although
the GPU is there. `answers` records what `resolve_auto` was told, `measured` what each contrast's sample showed ("nothing" when ffmpeg
failed or left no frame), `command` the two values the profile decides in ffmpeg's arguments. `steady` is a history variable: the
host has not changed and no probe was given up since the job was picked up. `StartFails` is an `OSError` nobody catches, the
`Abort` of `JobPipeline`. In `Grading` a step of one half may wait for the other (`run_job` probes the source when the profile is
settled, builds the command when the source is probed), and changes nothing of the other's variables. In `Tuning` `per_scene` keeps the measures of every candidate tried so far; a measure
is a number of thousandths or NaN, numpy's mean of no pixels; `Less` is Python's `<` on floats. The tool shares nothing with
grading, so `MCGrading` starts it in one state of `Grading` only, with measures that are all numbers, and `MCTuning` runs it with NaN.

### External code

The broker, Redis, MongoDB, the object store, ffmpeg and the browser's fetch are modelled from how `src/` uses
them: a message that is not acknowledged when its worker dies is delivered again; one Redis command or one
MongoDB `find_one_and_update` is atomic; a unique index refuses a second key; a find returns documents as they
were at one moment; completing or aborting a multipart upload that is closed is refused, and so is a PUT to it;
a part has one content, so its ETag does not depend on who sent it; ffmpeg terminates; SHA-256 does not collide.

## 3. Runs

Fault bounds are spent by the action they bound (`budget`, `failures`, `deaths`). They count events, never cut
off behaviours in the middle: a run with bound 0 for a fault is about the system without it. One bound does hold
steps back, `MCMeeting` of `library_page`: a call of the page and another client's request are pending at once only
until the second visit begins.

| Run | Instance | Shows |
|---|---|---|
| `pipeline_race` | two submissions of one file ("auto" or explicit), two workers, one dismissing request, one expiry | no update lost, terminal statuses are final, the store refines `JobLifecycle`, done is published, failed frees the file |
| `pipeline_faults` | two submissions of one file ("auto" or "hlg-gpu") at the highest quality, one worker, one progress update; one crash, one abort, one API death; fairness | single delivery, published is stored, both unique indexes (`Indexed`); each fault nothing handles strands one video at most, a crash none (`StrandedByFaults`); every accepted job and every video settles unless one of those faults struck |
| `library_page` | two visits of a page, whose loads overlap, one call at a time, two videos, done at first or published meanwhile, one folder; another client deleting videos beside it, within `MCMeeting`; answers and loads fail or are late | once all answers are in, the copy is true of what was published when it was read; the selection is listed, but for what an overtaken load hides; the document goes last |
| `system` | one submission, one worker killed at most once, a move or deletion beside a deletion | listed is stored, deleted stays deleted, a run whose video is deleted still settles |
| `uploads` | three parts, two calls with two loops each, two other clients (abort or submit), one failure | refinement of `SourceUpload`, parts accounted for, calls end, a resumed upload is finished |
| `dashboard` | one job submitted here or elsewhere, two visits, one lost request | what the page shows is polled, true about ends, right in the end, shown once |
| `grading` | sizes 0 to 7 with parts of 3 and samples of 2 bytes; durations 0 to 11 ms with clips of 2 ms, at most 3, thumbnail at 5; the three registered profiles and an unknown one, both qualities, three contrasts; a sampled window of 2 ms; four candidates, two scenes that have frames, three measures | parts tile the file, samples fit, percentage true, clips fit; the right profile and contrast, no failure on a steady host with a profile that may serve, the window lies in the video; the tuned candidate is the best |
| `auto_twice`, `rerun`, `library_tabs`, `dashboard_clear`, `tuning_no_frame` | the smallest instance each | violations, section 5 |

Why the bounds are enough. Uniqueness and lost updates are about two submissions, two writers or two readers: two
jobs with one file and two workers make every such pair, and one dismisser is a second writer of a hash (two
dismissers are in the proofs). `pipeline_faults` has one worker, which is enough to repeat a run, and leaves the two at once to `pipeline_race` and to the proofs of its four invariants, for any number. One file is the hard case: different files never collide. Two display-name
attempts give a first collision, a successful retry and exhaustion. One crash lets a run be repeated at every
step; one handler death breaks a request at every step. Three parts over two loops make a loop take a second
part while the other is still at its first, and leave one part behind the cursor; two calls are an abandoned one
and the one that resumes. One folder of the library page is enough to move into, out of and under a deletion; two videos make a selection of
which one is deleted elsewhere or published late, and two visits of it a load that another overtakes, beside a call or after it. `MCMeeting` leaves in every step of
a call beside every step of a deletion elsewhere, on the first visit, and each of the two beside both loads; it leaves out
the two together on the second visit: beside a load, after which `CopyIsTrue` promises nothing anyway (the load met a call), and after
the loads, where they meet as on the first. The instance
is a quarter of what it is without. `CopyStaysTrue`, `SelectionStaysListed` and `PagesEraseDocumentsLast` are proved of `PageSpec`, which has no such bound. Two visits of the dashboard make two lists answer in either order with pollers of the first still running; jobs
only meet in "Dismiss all", which `dashboard_clear` runs with two, and in the proofs, which have any number. The sizes and
durations of `grading` pass every boundary (empty, one part, exact multiples, one less and one more; no clip, one,
the limit, beyond it; a tie in the rounding; a window longer than the video). The registry is the program's own; three contrasts
give a first, a middle and the fallback. Two scenes and one NaN in `tuning_no_frame` put the NaN first, last, in both and in neither. The theorems of section 6 remove the bounds for the safety properties they cover.

`CHECK_DEADLOCK FALSE` throughout: the system is finished when the submissions, requests and calls of the instance
have ended, and it stops there.

## 4. Fairness

`LiveSpec` of `JobPipeline`: a submission that has begun goes on, and every worker goes on (`WF` on `WorkerStep`,
which never includes `Crash`, `Abort` or `Expire`). The code justifies it: a handler is one coroutine whose awaits
are answered, the worker container is restarted when its process ends, and ffmpeg terminates. Nobody has to
submit or dismiss anything, and no choice is fair: `Encode` may always fail, `Resolve` may always find no profile.
`SystemSpec` adds nothing for library requests: a request may stop at any step for ever. `LiveSpec` of
`Uploads`: a call that has started has its requests answered or refused; nobody has to start one or abort. `LiveSpec` of
`Dashboard`: a poller's request is answered or fails and its timer fires; no job has to finish, no list or dismissal to be answered.

## 5. Where the code and its documents part

Each of these runs checks one statement of the repository and ends in a counterexample.

- `auto_twice` (`OneRunPerRequest`): publication rewrites a video's profile from "auto" to the resolved name, so
  the duplicate check, keyed by "auto", no longer finds it. The file is accepted and graded again and fails only
  at publication, against spec 004's "blocked before a new job is created".
- `rerun` (`PublishedIsFinal`): a message redelivered after the publication gives the video another result key, or
  marks it failed, against 004 data-model.md "set exactly once".
- `library_tabs` (`NoDanglingFolder`): a move whose folder is deleted meanwhile leaves a video in a folder no page
  shows, against `folders.py:64` "Every video in the folder is relocated to unsorted".
- `dashboard_clear` (`ClearedIsDismissed`): a job that ends while "Dismiss all" is under way is dropped from the page though
  nobody dismissed it, and comes back at the next load, against `jobs.svelte.ts:86` "server-side dismissal already happened by the time
  this is called".
- `tuning_no_frame` (`TunedIsBest`): a scene ffmpeg yields no frame of measures NaN, which `max` skips unless it comes first, so the tool
  recommends a candidate it has not measured on every scene, against `tune_profile.py:109` "worst-case clipping fraction across all
  scenes". Where every scene has a frame the property holds (run `grading`, theorem `TunedIsStrongest`).

Observed while modelling, without a run of their own: a job whose hash expired ends its run without touching the
video, which stays in progress and blocks its file (`pipeline.py:222`, against 004 data-model.md:33 "Mirrors the
owning Job's lifecycle"); one failed poll leaves a card "failed" for good, whatever later lists say, since nothing
resets `phase` (`polling.ts:24`); an item whose submission failed has no job id and cannot be dismissed; a list under way
brings back an item that was dismissed meanwhile; a video of exactly five seconds, or less than a frame longer, has no frame at
its thumbnail's moment, and its job fails (`preview.py:16`, against 005 FR-002); `_fail` leaves `stage` set (001 contracts/api.md:137);
the library
page's copy is promised nothing once a call failed or met a load: nothing loads it again (`library.svelte.ts:15`), and a new folder
may be listed twice; `expandedFolderIds` is "reset every time the library is (re)loaded" (`library.svelte.ts:8`), but `load()`
leaves it alone, and the store outlives the page; a terminal job is re-entered after a redelivery (001 data-model.md:24); no upload handler looks at the session's
state (001 contracts/api.md:43, 55); a video deleted by two requests at once ends one of them with an error and
leaves its other videos undeleted (`videos.py:120`); a rerun leaves its first result object without a link; a
multipart upload whose session was never stored is never cleaned up; a video deleted while it is being graded
leaves the objects uploaded afterwards; ffmpeg is started by `build_command` and by `_grade` (`pipeline.py:158`) outside any `try`, so an
`OSError` there, also one of a contrast sample, drops the run with its job running, against "never toward a crash"
(`hlg_gpu.py:243`); an availability probe that is given up leaves its ffmpeg running; an "auto" job fails when its GPU goes between the
two probes, though the CPU could have served it; `is_ffmpeg_available` accepts any path that begins with "/"; the list of an earlier visit that answers after a later one hides a video
published and selected in between, and "Delete selected" still deletes it (`routes/library/+page.svelte:20`); the profile and quality submitted are those selected when the upload ends, not when the file
was chosen (`+page.svelte:85`).

## 6. Theorems

Proved by TLAPS with no assumption but the named ones on the constants (`StoresAssumption`, `AbsenceAssumption`,
`PipelineAssumption`, `UploadsAssumption`, `DashboardAssumption`, `NoneAssumption`, `MediaAssumption`,
`LibraryAssumption`, `PageAssumption`, `SystemAssumption`, `ChoiceAssumption`, `WindowAssumption`), which say what the constants are and
that Python's None, the page's `Absent` and the like are no value of anything else: any number of jobs, files,
workers, requests, parts, loops, visits, any size and duration, and any bound on the faults, unless the statement says otherwise.

**`JobPipeline_proofs`.** `TypeCorrect` needs more than `TypeOK`: a worker writes its `result_key`, its `profile`
and its `snap` into typed hashes, so which of them is set at which `pc` must be known. `WellFormed` adds that
(`SubmitOK`, `WorkerOK`, `DismissOK`), and is inductive: three frame lemmas (`SubmitFrame`, `WorkerFrame`,
`DismissFrame`) say what a step of one process leaves of it, and each action has a lemma that gives its record.
`OneRunAtATime` (`SingleDelivery`) follows from an invariant on who holds a message, also through crashes and
redelivery. `IndexedAlways` shows that no two documents collide in either unique index: every write to
`videos` is either index-checked or takes a key away. `PublishedIsAlwaysStored` (`PublishedIsStored`) needs to know what each worker has
already uploaded at each `pc` (`UploadsOK`, in `Stored`); nothing is removed in this module, so a second delivery can only add to it.
`ExplicitRunsOnce` is what is left of the statement `auto_twice` refutes: for a profile that is asked for by its name, the
document of an accepted submission keeps the profile it was checked with (`AsRequested`), so the index forbids a second run.
`OnlyFaultsStrand` (`StrandedByFaults`) compares two numbers, the videos given up and the faults spent. `Stranded` alone is not
inductive: an expired hash strands its video only when the run ends. So `GivenUp` counts a job as soon as its hash is missing, and
each step gives up one more job at most and then spends one more fault (`BoundStep`); a crash spends nothing that counts.

**`JobUpdates_proofs`.** Why `JobStore.update` may do without a lock. For runs without redelivery (`MaxCrashes = 0`)
`OneWriter` is inductive: a job that somebody other than a dismissing request will still write (`Owned`: an unfinished submission, a message,
an active worker) is pending; whoever holds a snap holds what is stored, or the hash has expired; a dismissing request only
holds jobs that nobody owns any more; and (`Agree`) two requests dismissing one job hold hashes that differ only
in the dismissal. The last is what makes two dismissals at once harmless when the hash expires between their writes: the second
writes back what the first wrote. From `OneWriter`: `UpdatesAreNotLost` (`NoLostUpdate`), `OnlyTerminalIsDismissed`
(`DismissedIsTerminal`) and the action property `TerminalNeverReopens` (`TerminalIsFinal`). The hypothesis is
needed: after a redelivery a finished job is run again, and a dismissing request may hold an old hash.

From `OneWriter` it also follows that all hashes of a job, stored or held by somebody who will write them back, are one hash up to
its dismissal (`HashesAgree`). On this rest three invariants that relate that hash to the rest of the system. `Phases`: it
says queued until the run is recorded as started, running while it is on, failed while the video is still to be failed. `Ledgers`:
a job that says done has a published video with its result key, a worker at its last write has one with its own, and no run that
is still to come or on has; this gives `DoneMeansPublished` (`DoneIsPublished`) and, since the only writers of a published video would be such runs,
`PublishedStays` (`PublishedIsFinal`, which the run `rerun` refutes for one crash). `Freeing`: a job that says failed has let go of its
file, or the worker between the two writes of `_fail` is still there; without aborted runs it is until the second write, hence `FailedLetsGo`
(`FailedFreesFile`). Last, `JobStoreKeepsLifecycles` is the refinement: `Spec => JobsAreLifecycles`. `Statuses` says what the
mapping's `StatusOf` (with a CHOOSE over the held hashes) is worth; then a step that stores, drops or keeps hashes is classified by what it does to them
(`Stays`, `Drops`, and a write by its writer's phase), and each class is a step of `JobLifecycle` or a stutter. `Dashboard` may therefore use `JobLifecycle` for the store.

**`Uploads_proofs`.** `UploadOK` is inductive. Its core is `RecOK`, a call's record against the parts in the store:
while it runs, completed, remaining and sending cover the file and are disjoint; from its completion on, its map
is the whole file; while the upload is open, its map is stored. `RecMonotone` says that other calls' steps keep
that (the store only gains parts until it closes), so each action is proved on the record of the call that takes
it. `StoreOK` and `OtherOK` tie the session, the object and the aborting clients together. From it:
`UploadsTypeOK`, `PartsAreAccounted`, and the refinement `UploadIsAtomic`, `Spec => SourceIsAtomic`: loops
stutter (`LoopStutters`), and complete, mark, abort and submit are the abstract steps (`EndIsAtomic`, `OtherIsAtomic`). It needs one more
invariant, `NotYet`: before the session is stored nothing has begun.

**`Dashboard_proofs`.** `DashboardOK` is inductive. What is under way may be late, so the invariant says what it may still
claim: a terminal status in an answer or a list that is being read is still the job's, unless the job expired (`StillTrue`, in
`PollerOK` and `ListOK`), because a job leaves a terminal status only by expiring. So a terminal answer is true
when it is shown (`EndIsTrue`), and a pending one is only shown together with a poller that goes on (`PendingIsPolled`).
`FreshOK` says that a list or submission that was not answered has added no item and no poller, so `ListAnswered`
(`AnsweredKeeps`, the hardest step) starts from a page on which at most one other item shows the job: `NoSecondListing`. `DismissOK`
ties an answered dismissal to a dismissed job, for the action property `OnlyOverIsRemoved` (`RemovedIsOver`).

**`Media_proofs`.** The provers know linear arithmetic, so the facts on products and quotients (`Division`,
`ProductLess`) come first. `PartsAreTheFile`: byte `b` is in part `b div PartSize + 1` and in no other.
`ClipsAreApart`: two starts that are at least a clip apart stay so when each is rounded either way
(`RoundedApart`: if the video is longer than its clips the slack absorbs the rounding, else the starts are whole). `PercentageIsTrue`: from `ShownOK`, as
`Percent` is monotone (`PercentMonotone`). `SamplesAreTheEnds` covers the three cases of a file's size.

**`Grading_proofs`.** `ChoiceOK` is inductive. `RequestOK` keeps what the validation let through until the
worker picks the job up, so that an explicit profile is an implemented one; `ResolvedOK` keeps the answers that led to the
profile of an "auto" job, which give `RightProfile`; `SteadyOK` says that as long as `steady` holds every recorded answer is true of the
host, so the second look at a profile cannot contradict the first (`CheckKeeps`, for `HostServes`, which speaks of what is available, not of what then starts); `MeasuredOK` says that a loop
that is still measuring has seen no safe contrast (`MeasuredContrast`). `GradingIsBoth` carries these and the theorems of `Media_proofs` over to a
graded file: `GradingTypeCorrect`, `WindowFits`, and the rest in `GradedRight`.

The tuning tool's theorem, `TunedIsStrongest` (`TunedIsBest`), rests on what two loops over data compute. The provers cannot instantiate the library's induction
theorems, which take the predicate as a parameter, but they can use that the subsets of a finite set are well founded (`WFMin`): `FirstOf` gives from it a
first number that fails, and so an induction for one predicate at a time. `KeepsExists` shows with it that the recursive function in `WorstOf` exists
for any number of scenes, `WorstIs` what it returns (one of the measures and, unless it is NaN itself, at least every other), `SortExists` that
the candidates can be sorted and `TriedInOrder` that `Tried` leaves none out. The invariant of the search is `TuningOK`. The theorem assumes that no scene measures NaN: with one, `tuning_no_frame` refutes it.

**`LibraryPage_proofs`.** The steps of the page and of the bare library are the same kind of step on the library's variables
(`LibraryMove`), so what is proved of it holds under both specifications: `LibraryTypeOK`, `PageTypeCorrect`. `PagesEraseDocumentsLast`
(`DocumentGoesLast`) rests on `ErasingOK`: a request that is erasing a listed video still has in its `keys` every object of the
video that is left. Moves beside it keep that, because they leave a document's links alone and add no object, and another
deletion only takes objects away. `SelectionStaysListed` (`SelectionIsListed`) needs `ReadOK`: what a list
under way lacks of the listed videos was published since it was read, and is shown or selected only if another visit's list was shown since. `UnknownOK` says why a
publication disturbs nothing of this: nobody names, shows or goes through a video that is still being graded.

`CopyStaysTrue` (`CopyIsTrue`) is proved for a page with one call at a time (`Mine = {h}`) and any number of other clients' requests. What
`CopyIsTrue` says holds only when no call is pending, so `TruthOK` says what holds during one. `Done(h, j)` is that the call has done
its deed to video `j`, and `Lands(h, j)` where the copy will show the video when the answer is in: in the target of the move, unsorted, or
where it is shown now. `CopyFits`: each listed video is where it lands. `CallFits` ties the call to the request that serves it,
`FolderFits` says that what is still in a folder being deleted is what is left to do, which with `NoDanglingFolder`, an invariant under
this hypothesis, makes dropping the folder safe, and `LoadFits` that what a load met by no call has read is still true. The effect of
one step of a request is a lemma for each kind (`MoveStep`, `DeleteStep`, `EmptyStep`); what other clients do only takes videos away
and adds folders (`ShrinkKeepsTruth`), and a publication adds to what is excepted (`PublishKeepsTruth`). With two calls at a time `NoDanglingFolder` fails, as `library_tabs` shows, and `FolderFits` with it.

**`Tonemill_proofs`.** The two components share `videos` and `objects`, so what is proved of one alone says nothing of both. `SystemOK` is
inductive for `SystemSpec`: the types (`SystemWellFormed`); whose keys are whose (`KeysOwned`: what a document links to, a run has
uploaded or a request is deleting is under the video's own id); and what is kept (`Kept`): a published video's links are stored (`ListedKept`), and so is
what a worker has uploaded for a document it is about to publish (`UploadsKept`), unless the document is gone, a request is erasing the video, or one was broken off
(`Excused`). Erasing the document last is what carries it: while objects go, a request is erasing, and when the request is over the
document is gone for good. `ListedIsAlwaysStored` (`ListedIsStored`) and `DeletedIsForGood` (`DeletedStaysDeleted`) follow;
`LibraryDisturbsNothing` carries single delivery and both unique indexes over to the whole system.
Without redelivery `SystemLosesNoUpdate` (`NoLostUpdate`) and `SystemKeepsLifecycles` (the refinement of `JobLifecycle`) hold of the whole system too: a request
of the library changes nothing the job hashes are read or written from (`LibraryLeavesJobs`), so the invariants of `JobUpdates_proofs` are kept beside it.

**Only model-checked:** the liveness properties (`AcceptedSettles`, `VideoSettles`, `SettlesWithoutVideo`,
`CallEnds`, `ResumedIsFinished`, `ShownSettles`), which rest on fairness and are out of the prover's reach. Every other property of a passing run has a theorem. Two theorems are the other way about, proved and run
by no configuration: `OnlyTerminalIsDismissed` (`DismissedIsTerminal`, which `JobLifecycle` contains) and `ExplicitRunsOnce`. The inductive
invariants TLC can evaluate (`Stored`, `AsRequested`, `Bounded`; `SystemOK`; `TruthOK`; `TuningOK`) also hold as invariants of `pipeline_faults`, `system`, `library_page` and `grading`.

## 7. Not modelled

Presentation, authentication (one header comparison), request forwarding, configuration, logging and deployment keep no state
worth a model. Of the ffmpeg commands only what a profile decides by measuring or by the request is kept, the rest is text. Video listings, job status and profile responses change nothing; pagination of Redis SCAN is one
read per hash. Folder names and their uniqueness are left out. The pipeline's transfers are whole: an object is there or it is not.

## 8. Plan

Done: 1. `Stores`, `JobPipeline`, its runs and proofs; 2. `VideoLibrary`; 3. `Tonemill`; 4. `Uploads` with
`SourceUpload`, its run and proofs; 5. `Dashboard`, its run and proofs; 6. `Media`, its run and proofs; 7. `LibraryPage`,
its run and proofs; 8. `ProfileChoice`, `Grading`
and `Tuning`; 9. `JobLifecycle`, implemented by `JobPipeline` and relied on by `Dashboard`; 10. proofs of every safety property that
a run checks, of the refinement `JobsAreLifecycles`, and of the composed system.

Next:

11. `VideoCatalogue`, the promise of the library to its readers, implemented by `Tonemill`, with the refinement proved from `SystemOK`.
