------------------------------- MODULE Tuning -------------------------------
(***************************************************************************)
(* tools/tune_profile.py: the search for the strongest contrast and        *)
(* saturation that do not clip the highlights of any reference scene.      *)
(*                                                                         *)
(* What a filter makes of a scene is a measure: the fraction of clipped    *)
(* pixels in its worst channel, here in thousandths, or NaN when ffmpeg    *)
(* succeeds without yielding a frame (the mean of no pixels).  Every       *)
(* comparison with NaN is false, also the one max makes.                   *)
(***************************************************************************)
EXTENDS Integers, Sequences, FiniteSets

CONSTANTS
  Measures,          \* bound: measures scenes may show
  TuningContrasts,   \* --contrast
  TuningSaturations, \* --saturation
  Threshold,         \* --clip-threshold
  Scenes,            \* number of --scene arguments
  NaN

ASSUME TuningAssumption ==
  /\ TuningContrasts \cup TuningSaturations \subseteq Nat
  /\ IsFiniteSet(TuningContrasts) /\ IsFiniteSet(TuningSaturations)
  /\ Threshold \in Nat /\ Scenes \in Nat \ {0}
  /\ NaN = -1 /\ Measures \subseteq Nat \cup {NaN}

VARIABLES
  tool,     \* "idle", "measuring", "found", "none" or "raised"
  per_scene \* the measures of each candidate tried so far, scene by scene

tuningVars == <<tool, per_scene>>

Candidates == TuningContrasts \X TuningSaturations

\* The order the candidates are tried in: sorted by contrast, then saturation,
\* reversed.
Stronger(c, d) == c[1] > d[1] \/ (c[1] = d[1] /\ c[2] > d[2])
Tried ==
  CHOOSE t \in [1..Cardinality(Candidates) -> Candidates] :
    \A i, j \in DOMAIN t : i < j => Stronger(t[i], t[j])

\* Python's a < b of floats.
Less(a, b) == a # NaN /\ b # NaN /\ a < b

\* Python's max: the first value, replaced by each that is greater.
WorstOf(scenes) ==
  LET worst[n \in DOMAIN scenes] ==
        IF n = 1 THEN scenes[1]
        ELSE IF Less(worst[n - 1], scenes[n]) THEN scenes[n] ELSE worst[n - 1]
  IN worst[Len(scenes)]

\* Seeded fault: the scene measured last decides.
LastScene(scenes) == scenes[Len(scenes)]

\* evaluate_candidate: the worst of the scenes' measures.
Worst(scenes) == WorstOf(scenes)

\* The measures of the candidate that is being tried.
Current == per_scene[Len(per_scene)]

TuningInit == tool = "idle" /\ per_scene = <<>>

Start ==
  /\ tool = "idle" /\ Candidates # {}
  /\ tool' = "measuring" /\ per_scene' = << <<>> >>

MeasureScene(m) ==
  /\ tool = "measuring" /\ Len(Current) < Scenes
  /\ per_scene' = [per_scene EXCEPT ![Len(per_scene)] = Append(@, m)]
  /\ UNCHANGED tool

\* ffprobe or ffmpeg fails, and so does the tool.
SceneFails ==
  /\ tool = "measuring" /\ Len(Current) < Scenes
  /\ tool' = "raised" /\ UNCHANGED per_scene

\* find_best_candidate stops at the first candidate under the threshold.
Judge ==
  /\ tool = "measuring" /\ Len(Current) = Scenes
  /\ IF Less(Worst(Current), Threshold)
     THEN tool' = "found" /\ UNCHANGED per_scene
     ELSE IF Len(per_scene) < Len(Tried)
     THEN per_scene' = Append(per_scene, <<>>) /\ UNCHANGED tool
     ELSE tool' = "none" /\ UNCHANGED per_scene

TuningNext ==
  \/ Start \/ SceneFails \/ Judge
  \/ \E m \in Measures : MeasureScene(m)

TuningSpec == TuningInit /\ [][TuningNext]_tuningVars

-----------------------------------------------------------------------------

\* The worst scene of the candidate the tool ends with stays under the
\* threshold, "across all scenes", and that of every stronger one does not; if
\* it ends with none, so does no candidate's (find_best_candidate).  A scene
\* without a frame shows nothing and is under no threshold.
TunedIsBest ==
  LET Fits(scenes) == \A s \in DOMAIN scenes : Less(scenes[s], Threshold)
      tried == Len(per_scene)
  IN tool \in {"found", "none"} =>
       /\ tool = "found" => Fits(per_scene[tried])
       /\ \A c \in Candidates :
            tool = "none" \/ Stronger(c, Tried[tried]) =>
              \E i \in 1..tried : c = Tried[i] /\ ~Fits(per_scene[i])
=============================================================================
