------------------------------- MODULE Media -------------------------------
(***************************************************************************)
(* The numbers of one file on its way through the system: the byte ranges  *)
(* it is uploaded in and fingerprinted by, its probed duration, the        *)
(* percentage its job shows, and the moments its thumbnail and preview     *)
(* clips are cut at.  JobPipeline and Uploads model who does what when and *)
(* what may fail; here only the amounts matter.                            *)
(*                                                                         *)
(* Bytes are numbered from 0; ffprobe and ffmpeg report microseconds, the  *)
(* program works in milliseconds, and a percentage is counted in tenths.   *)
(***************************************************************************)
EXTENDS Integers

CONSTANTS
  PartSize,    \* _PART_SIZE_BYTES
  SampleBytes, \* _SAMPLE_BYTES
  ThumbnailMs, \* _THUMBNAIL_SECONDS
  ClipMs,      \* _CLIP_SECONDS
  MaxClips,    \* _MAX_CLIPS
  Sizes,       \* bound: sizes of files
  Durations,   \* bound: durations ffprobe prints
  OutTimes     \* bound: times ffmpeg has encoded up to

ASSUME MediaAssumption ==
  /\ \A n \in {PartSize, SampleBytes, ThumbnailMs, ClipMs, MaxClips} :
       n \in Nat \ {0}
  /\ Sizes \subseteq Nat /\ Durations \subseteq Nat /\ OutTimes \subseteq Int

VARIABLES
  stage,     \* how far the file has come
  size,      \* its size in bytes
  sent,      \* numbers of the parts uploaded
  samples,   \* the two byte ranges its fingerprint is made of
  duration,  \* probed duration
  out,       \* what the encoder has reported last
  due,       \* the update interval has passed since the last write
  ended,     \* progress=end was read
  shown,     \* the job's progress_pct
  thumbnail, \* the moment the thumbnail is cut at
  clips      \* the moments the preview clips start at

mediaVars == <<stage, size, sent, samples, duration, out, due, ended, shown,
               thumbnail, clips>>
fileVars == <<size, sent, samples>>
encodeVars == <<duration, out, due, ended, shown>>
cutVars == <<thumbnail, clips>>

MinOf(a, b) == IF a <= b THEN a ELSE b
MaxOf(a, b) == IF a >= b THEN a ELSE b

\* The integers nearest to x / y: what printing with three decimals of a
\* second makes of a fraction of a millisecond.  A tie may go either way.
Nearest(x, y) == {n \in 0..x : 2 * (n * y - x) <= y /\ 2 * (x - n * y) <= y}

-----------------------------------------------------------------------------
(* Byte ranges: initiate_upload, uploadFile, compute_fingerprint *)

\* Seeded fault: a file that fills its parts exactly gets one more.
PartCountPlusOne(bytes) == bytes \div PartSize + 1

PartCount(bytes) == MaxOf(1, (bytes + PartSize - 1) \div PartSize)

\* file.slice(start, end)
PartBytes(n) ==
  (n - 1) * PartSize .. MinOf((n - 1) * PartSize + PartSize, size) - 1

\* Seeded fault: the last sample starts before a short file.
SamplesUnclipped(bytes) ==
  [ first |-> 0 .. MinOf(SampleBytes, bytes) - 1,
    last  |-> bytes - SampleBytes .. bytes - 1 ]

\* first, and last unless the first range already reached the end.
Samples(bytes) ==
  LET first == 0 .. MinOf(SampleBytes, bytes) - 1
      start == MaxOf(0, bytes - SampleBytes) IN
  [ first |-> first,
    last  |-> IF start = 0 THEN first ELSE start .. bytes - 1 ]

(* Percentages: iter_progress_percent *)

\* Seeded fault: only the end that was read clamps the percentage.
PercentUnclamped(time) == MaxOf(0, time \div duration)

\* Microseconds by milliseconds are tenths of a percent.
Percent(time) == MinOf(999, MaxOf(0, time \div duration))

(* Moments: extract_thumbnail, compute_clip_specs *)

ThumbnailTimes(ms) ==
  IF ms >= ThumbnailMs THEN {ThumbnailMs} ELSE Nearest(ms, 2)

\* Seeded fault: the count is rounded up.
ClipCountCeil(ms) ==
  IF ms < ClipMs THEN 1
  ELSE MaxOf(1, MinOf(MaxClips, (ms + ClipMs - 1) \div ClipMs))

ClipCount(ms) ==
  IF ms < ClipMs THEN 1 ELSE MaxOf(1, MinOf(MaxClips, ms \div ClipMs))

ClipLength(ms) == MinOf(ms, ClipMs)

ClipStarts(ms) ==
  { starts \in [1..ClipCount(ms) -> 0..ms] :
      \A i \in 1..ClipCount(ms) :
        starts[i] \in Nearest((i - 1) * ms, ClipCount(ms)) }

-----------------------------------------------------------------------------

Init ==
  /\ stage = "uploading" /\ size \in Sizes
  /\ sent = {} /\ samples = [first |-> {}, last |-> {}]
  /\ duration = 0 /\ out = 0 /\ due = FALSE /\ ended = FALSE /\ shown = 0
  /\ thumbnail = 0 /\ clips = [i \in {} |-> 0]

SendPart(n) ==
  /\ stage = "uploading" /\ n \in 1..PartCount(size) \ sent
  /\ sent' = sent \cup {n}
  /\ UNCHANGED <<stage, size, samples, encodeVars, cutVars>>

CompleteUpload ==
  /\ stage = "uploading" /\ sent = 1..PartCount(size)
  /\ stage' = "uploaded"
  /\ UNCHANGED <<fileVars, encodeVars, cutVars>>

\* compute_fingerprint asks the store for the size and for two ranges.
Fingerprint ==
  /\ stage = "uploaded"
  /\ samples' = Samples(size)
  /\ stage' = "submitted"
  /\ UNCHANGED <<size, sent, encodeVars, cutVars>>

\* Seeded fault: a duration of zero is graded as any other.
ProbeUnchecked(time) ==
  /\ stage = "submitted"
  /\ duration' = time \div 1000
  /\ stage' = "processing" /\ due' = TRUE /\ shown' = 0
  /\ UNCHANGED <<fileVars, out, ended, cutVars>>

\* probe_source_info truncates to milliseconds; nothing to divide by fails.
\* The clock started long before the first line: its update is due.
Probe(time) ==
  /\ stage = "submitted"
  /\ duration' = time \div 1000
  /\ IF duration' > 0
     THEN stage' = "processing" /\ due' = TRUE /\ shown' = 0
     ELSE stage' = "failed" /\ UNCHANGED <<due, shown>>
  /\ UNCHANGED <<fileVars, out, ended, cutVars>>

\* The loop over iter_progress_percent: written when due, or when over.
Report(percent) ==
  IF due \/ percent >= 1000
  THEN shown' = percent /\ due' = FALSE
  ELSE UNCHANGED <<shown, due>>

\* out_time_us may begin below 0 and never decreases from there.  Other lines
\* and other values are skipped.
ProgressLine(time) ==
  /\ stage = "processing" /\ MaxOf(0, time) >= out
  /\ out' = time
  /\ Report(Percent(time))
  /\ UNCHANGED <<stage, fileVars, duration, ended, cutVars>>

IntervalPasses ==
  /\ stage = "processing" /\ ~due
  /\ due' = TRUE
  /\ UNCHANGED <<stage, fileVars, duration, out, ended, shown, cutVars>>

\* progress=end is the last line read.
ProgressEnd ==
  /\ stage = "processing"
  /\ ended' = TRUE /\ stage' = "drained"
  /\ Report(1000)
  /\ UNCHANGED <<fileVars, duration, out, cutVars>>

\* The pipe closes without it.
StreamEnds ==
  /\ stage = "processing" /\ stage' = "drained"
  /\ UNCHANGED <<fileVars, encodeVars, cutVars>>

\* process.wait: the return code is looked at, whatever was read.
ExitOK ==
  /\ stage = "drained"
  /\ stage' = "uploading_result" /\ shown' = 1000
  /\ UNCHANGED <<fileVars, duration, out, due, ended, cutVars>>

ExitFails ==
  /\ stage = "drained" /\ stage' = "failed"
  /\ UNCHANGED <<fileVars, encodeVars, cutVars>>

\* Thumbnail and clips are cut by the probed duration of the source.
Cut ==
  /\ stage = "uploading_result"
  /\ thumbnail' \in ThumbnailTimes(duration)
  /\ clips' \in ClipStarts(duration)
  /\ stage' = "done"
  /\ UNCHANGED <<fileVars, encodeVars>>

\* ffmpeg does not find a frame there, or fails otherwise.
CutFails ==
  /\ stage = "uploading_result" /\ stage' = "failed"
  /\ UNCHANGED <<fileVars, encodeVars, cutVars>>

Next ==
  \/ \E n \in 1..PartCount(size) : SendPart(n)
  \/ CompleteUpload \/ Fingerprint
  \/ \E time \in Durations : Probe(time)
  \/ \E time \in OutTimes : ProgressLine(time)
  \/ IntervalPasses \/ ProgressEnd \/ StreamEnds
  \/ ExitOK \/ ExitFails
  \/ Cut \/ CutFails

Spec == Init /\ [][Next]_mediaVars

-----------------------------------------------------------------------------
(* Properties *)

Graded == {"processing", "drained", "uploading_result", "done"}

\* Amounts are whole and not negative, and nothing is graded that has no
\* duration to divide by (iter_progress_percent, compute_clip_specs raise).
TypeOK ==
  /\ stage \in {"uploading", "uploaded", "submitted", "failed"} \cup Graded
  /\ size \in Sizes
  /\ sent \subseteq 1..PartCount(size)
  /\ samples \in [first : SUBSET Int, last : SUBSET Int]
  /\ duration \in Nat /\ (stage \in Graded => duration > 0)
  /\ out \in Int
  /\ due \in BOOLEAN /\ ended \in BOOLEAN
  /\ shown \in 0..1000
  /\ thumbnail \in Nat
  /\ DOMAIN clips \subseteq Nat
  /\ \A i \in DOMAIN clips : clips[i] \in Nat

\* The parts a file is uploaded in cut it up: no byte is in two of them, every
\* part but the last is full, none is empty unless the file is, and a complete
\* upload is the file (initiate_upload counts them, uploadFile slices).
PartsTile ==
  /\ \A n, m \in sent : n # m => PartBytes(n) \cap PartBytes(m) = {}
  /\ \A n \in sent :
       /\ PartBytes(n) \subseteq 0..size - 1
       /\ n < PartCount(size)
            => PartBytes(n) = (n - 1) * PartSize .. n * PartSize - 1
       /\ PartBytes(n) = {} => size = 0
  /\ stage # "uploading" => UNION {PartBytes(n) : n \in sent} = 0..size - 1

\* The ranges a fingerprint reads are in the file, start at its two ends and
\* leave out only what is a whole sample away from both, so that a short file
\* is read whole and none is read beyond its end (compute_fingerprint).
SamplesFit ==
  stage \notin {"uploading", "uploaded"} =>
    /\ samples.first \cup samples.last =
         { b \in 0..size - 1 : b < SampleBytes \/ size - b <= SampleBytes }
    /\ size > 0 => 0 \in samples.first /\ size - 1 \in samples.last

\* The percentage of a job never falls, never runs ahead of what the encoder
\* has reported, and is only 100 when the encoder has said so or has ended
\* well (iter_progress_percent, _grade).
ProgressIsTrue ==
  [][ /\ shown' >= shown
      /\ shown' < 1000 => shown' * duration' <= MaxOf(0, out')
      /\ shown' = 1000 => ended' \/ stage' \notin {"processing", "drained"}
    ]_mediaVars

\* The clips as ffmpeg is asked for them, in whole milliseconds, do not overlap
\* and end within the video, there are as many as fit, up to the limit, and the
\* thumbnail is taken within the video (extract_thumbnail, compute_clip_specs).
ClipsFit ==
  stage = "done" =>
    /\ \A i, k \in DOMAIN clips :
         i < k => clips[i] + ClipLength(duration) <= clips[k]
    /\ \A i \in DOMAIN clips : clips[i] + ClipLength(duration) <= duration
    /\ \E n \in 1..MaxClips :
         /\ DOMAIN clips = 1..n
         /\ n > 1 => n * ClipMs <= duration
         /\ n < MaxClips => (n + 1) * ClipMs > duration
    /\ thumbnail <= duration

=============================================================================
