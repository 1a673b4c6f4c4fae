------------------------------ MODULE Grading ------------------------------
(***************************************************************************)
(* One file from its upload to its preview clips, with the choice of the   *)
(* profile it is graded with: Media's amounts and ProfileChoice's          *)
(* decisions, in the order submit_job and run_job put them in.  A step     *)
(* belongs to one of the two and may wait for the other.                   *)
(***************************************************************************)
EXTENDS Media, ProfileChoice

CONSTANT WindowMs  \* _SAMPLE_WINDOW_SECONDS

ASSUME WindowAssumption == WindowMs \in Nat \ {0}

gradingVars == <<mediaVars, choiceVars>>

\* Seeded fault: the window starts at 30% of the video.
SeekUncentred(ms) == 3 * ms

\* _auto_contrast: where the sampled window starts, in tenths of a millisecond,
\* so that its middle is at 30% of the video.
Seek(ms) == MaxOf(0, 3 * ms - 5 * WindowMs)

GradingInit == Init /\ ChoiceInit

\* The browser uploads, and submit_job looks at the profile before the file.
UploadStep ==
  /\ CompleteUpload \/ \E n \in 1..PartCount(size) : SendPart(n)
  /\ UNCHANGED choiceVars

ValidateStep == stage = "uploaded" /\ SubmitStep /\ UNCHANGED mediaVars

FingerprintStep == pc = "queued" /\ Fingerprint /\ UNCHANGED choiceVars

\* run_job chooses a profile before it downloads and probes the source, builds
\* the command before it reads any progress, and cuts clips after that.
ChooseStep == stage = "submitted" /\ ResolveStep /\ UNCHANGED mediaVars

ProbeStep ==
  /\ pc = "runnable" /\ \E time \in Durations : Probe(time)
  /\ UNCHANGED choiceVars

CommandStep == stage = "processing" /\ BuildStep /\ UNCHANGED mediaVars

EncodeStep ==
  /\ pc = "encoding"
  /\ \/ \E time \in OutTimes : ProgressLine(time)
     \/ IntervalPasses \/ ProgressEnd \/ StreamEnds
     \/ ExitOK \/ ExitFails \/ Cut \/ CutFails
  /\ UNCHANGED choiceVars

GradingNext ==
  \/ UploadStep \/ ValidateStep \/ FingerprintStep
  \/ ChooseStep \/ ProbeStep \/ CommandStep \/ EncodeStep

GradingSpec == GradingInit /\ [][GradingNext]_gradingVars

-----------------------------------------------------------------------------
(* Properties *)

\* Every variable of the file and of the choice has its type.
GradingTypeOK == TypeOK /\ ChoiceTypeOK

\* The window contrasts are measured in ends within the video, unless it starts
\* where the video does: a seek beyond the end yields no frame, and no boost
\* for a source that could take one (_auto_contrast).
SampleFits ==
  pc = "measuring" =>
    Seek(duration) = 0 \/ Seek(duration) + 10 * WindowMs <= 10 * duration
=============================================================================
