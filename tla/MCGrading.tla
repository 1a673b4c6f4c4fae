----------------------------- MODULE MCGrading -----------------------------
(* Every size up to four samples, every duration to a half millisecond, the *)
(* registry as build_registry makes it; and, apart from that, the tool, when *)
(* ffmpeg yields frames of every scene (MCTuning: when it may not).       *)
EXTENDS Grading, Tuning, TLC

MCDurations == {1000 * ms + us : ms \in 0..10, us \in {0, 999}}
MCOutTimes == {-1, 0, 999, 2000, 5000, 9990, 20000}

MCRank == "hlg-gpu" :> 1 @@ "hlg-cpu" :> 2 @@ "d-log-m" :> 3
MCRequests == {"auto", "hlg-gpu", "hlg-cpu", "d-log-m", "unknown"}
MCNaN == -1
MCMeasures == {0, 2, 3}

\* The tool runs where no file is graded: it has nothing in common with one.
MCUnused == size = 0 /\ stage = "uploading" /\ sent = {} /\ host = {}

MCNext ==
  \/ tool = "idle" /\ GradingNext /\ UNCHANGED tuningVars
  \/ MCUnused /\ TuningNext /\ UNCHANGED gradingVars

MCInit == GradingInit /\ TuningInit

MCSpec == MCInit /\ [][MCNext]_<<gradingVars, tuningVars>>
=============================================================================
