--------------------------- MODULE Grading_proofs ---------------------------
(***************************************************************************)
(* Theorems about the choice of a profile, for any registry, any host that *)
(* changes however it likes, and any number of contrasts.  A file that is  *)
(* graded goes through Media and through ProfileChoice: what is proved of  *)
(* either holds of both together.                                          *)
(*                                                                         *)
(* And about the tool that chose the profiles' contrasts and saturations,  *)
(* for any candidates, scenes and measures.                                *)
(***************************************************************************)
EXTENDS Grading, Tuning, Media_proofs, FiniteSetTheorems, WellFoundedInduction

(***************************************************************************)
(* The choice of a profile.                                                *)
(***************************************************************************)

\* The stages between the resolution of a profile and the start of ffmpeg.
Chosen == {"resolved", "runnable", "measuring", "built"}

\* What submit_job has let through, and what "auto" alone leads to.
RequestOK ==
  /\ pc = "queued" => Valid(request.profile, request.max_quality)
  /\ pc = "resolving" => request.profile = "auto"
  /\ pc \in {"new", "queued"} => answers = Unasked

\* The resolved profile is the one asked for, or the first that answered yes.
ResolvedOK ==
  /\ pc \in Chosen \cup {"encoding"} =>
       /\ profile \in Implemented
       /\ request.profile # "auto" => profile = request.profile
  /\ pc \in Chosen /\ request.profile = "auto" =>
       /\ answers[profile] = "yes"
       /\ \A q \in Implemented : Before(q, profile) => answers[q] = "no"
  /\ pc \in (Chosen \ {"resolved"}) \cup {"encoding"} =>
       (request.max_quality => profile \in GpuProfiles)

\* What the command says of the quality, and when there is one.
CommandOK ==
  /\ pc \in {"new", "queued", "resolving", "resolved", "runnable", "measuring"}
       => command = NoCommand
  /\ pc \in {"built", "encoding"} =>
       command.quality = IF profile \in GpuProfiles THEN GpuQuality ELSE "crf"

\* No contrast that was seen to be safe is passed over.
MeasuredOK ==
  /\ pc \in {"new", "queued", "resolving", "resolved", "runnable"}
       => measured = Unmeasured
  /\ pc = "measuring" =>
       /\ profile \in GpuProfiles
       /\ \A c \in 1..Contrasts : measured[c] # "safe"
  /\ ContrastIsMeasured

\* As long as the host is steady its answers are true, and so is a failure.
SteadyOK ==
  steady =>
    /\ \A p \in Implemented : /\ answers[p] = "yes" => p \in host
                              /\ answers[p] = "no" => p \notin host
    /\ pc = "failed" =>
         IF request.profile = "auto" THEN \A p \in Implemented : ~Usable(p)
         ELSE ~Usable(request.profile)

\* The inductive invariant.
ChoiceOK ==
  /\ ChoiceTypeOK
  /\ RequestOK /\ ResolvedOK /\ CommandOK /\ MeasuredOK /\ SteadyOK

-----------------------------------------------------------------------------

LEMMA InitChoiceOK == ChoiceInit => ChoiceOK
<1> SUFFICES ASSUME ChoiceInit PROVE ChoiceOK
  OBVIOUS
<1>1. ChoiceTypeOK
  BY ChoiceAssumption
     DEF ChoiceInit, ChoiceTypeOK, ChoicePc, Unasked, Unmeasured, NoCommand
<1>2. RequestOK /\ ResolvedOK /\ CommandOK /\ MeasuredOK
  BY DEF ChoiceInit, RequestOK, ResolvedOK, CommandOK, MeasuredOK,
         ContrastIsMeasured, Chosen
<1>3. SteadyOK
  BY DEF ChoiceInit, SteadyOK, Unasked
<1> QED
  BY <1>1, <1>2, <1>3 DEF ChoiceOK

\* POST /jobs lets nothing through that is not valid.
LEMMA SubmitKeeps ==
  ASSUME ChoiceOK, NEW name \in Requests, NEW quality \in BOOLEAN,
         Submit(name, quality)
  PROVE  ChoiceOK'
<1>1. pc = "new" /\ pc' \in {"queued", "rejected"}
  BY DEF Submit
<1>2. ChoiceTypeOK'
  BY DEF ChoiceOK, ChoiceTypeOK, Submit, ChoicePc
<1>3. RequestOK'
  BY DEF ChoiceOK, RequestOK, Submit, Valid
<1>4. ResolvedOK'
  BY <1>1 DEF ResolvedOK, Chosen
<1>5. CommandOK' /\ MeasuredOK'
  BY <1>1 DEF ChoiceOK, CommandOK, MeasuredOK, ContrastIsMeasured, Submit
<1>6. SteadyOK'
  BY <1>1 DEF ChoiceOK, SteadyOK, Submit
<1> QED
  BY <1>2, <1>3, <1>4, <1>5, <1>6 DEF ChoiceOK

\* An explicit request is resolved to itself: it was validated.
LEMMA PickupKeeps ==
  ASSUME ChoiceOK, Pickup
  PROVE  ChoiceOK'
<1>1. pc = "queued" /\ pc' \in {"resolving", "resolved"}
  BY DEF Pickup
<1>2. request.profile = "auto" \/ request.profile \in Implemented
  BY <1>1 DEF ChoiceOK, RequestOK, Valid
<1>3. ChoiceTypeOK'
  BY <1>2 DEF ChoiceOK, ChoiceTypeOK, Pickup, ChoicePc
<1>4. RequestOK'
  BY <1>1 DEF RequestOK, Pickup
<1>5. ResolvedOK'
  BY <1>1, <1>2 DEF ResolvedOK, Pickup, Chosen
<1>6. CommandOK' /\ MeasuredOK'
  BY <1>1 DEF ChoiceOK, CommandOK, MeasuredOK, ContrastIsMeasured, Pickup
<1>7. SteadyOK'
  BY <1>1 DEF ChoiceOK, RequestOK, SteadyOK, Pickup, Unasked
<1> QED
  BY <1>3, <1>4, <1>5, <1>6, <1>7 DEF ChoiceOK

\* "auto" asks the profiles in the order of preference.
LEMMA AskKeeps ==
  ASSUME ChoiceOK, NEW p \in Implemented, Ask(p)
  PROVE  ChoiceOK'
<1>1. /\ pc = "resolving" /\ pc' \in {"resolving", "resolved"}
      /\ UNCHANGED <<request, host, measured, command>>
      /\ request.profile = "auto"
  BY DEF Ask, ChoiceOK, RequestOK
<1>2. answers \in [Implemented -> {"unasked", "yes", "no"}]
  BY DEF ChoiceOK, ChoiceTypeOK
<1>3. ChoiceTypeOK'
  BY <1>1, <1>2 DEF ChoiceOK, ChoiceTypeOK, Ask, Available, ChoicePc
<1>4. RequestOK'
  BY <1>1 DEF RequestOK
<1>5. ResolvedOK'
  <2>1. CASE pc' = "resolved"
    <3>1. profile' = p /\ answers' = [answers EXCEPT ![p] = "yes"]
      BY <1>1, <2>1 DEF Ask
    <3>2. \A q \in Implemented : Before(q, p) => q # p /\ answers[q] = "no"
      BY ChoiceAssumption DEF Ask, Before, CpuProfiles
    <3> QED
      BY <1>1, <1>2, <2>1, <3>1, <3>2 DEF ResolvedOK, Chosen, Before
  <2> QED
    BY <1>1, <2>1 DEF ResolvedOK, Chosen
<1>6. CommandOK' /\ MeasuredOK'
  BY <1>1 DEF ChoiceOK, CommandOK, MeasuredOK, ContrastIsMeasured
<1>7. SteadyOK'
  BY <1>1, <1>2 DEF ChoiceOK, SteadyOK, Ask, Available
<1> QED
  BY <1>3, <1>4, <1>5, <1>6, <1>7 DEF ChoiceOK

LEMMA NoneAvailableKeeps ==
  ASSUME ChoiceOK, NoneAvailable
  PROVE  ChoiceOK'
<1>1. /\ pc = "resolving" /\ pc' = "failed"
      /\ UNCHANGED <<request, host, profile, answers, steady, measured, command>>
      /\ request.profile = "auto"
  BY DEF NoneAvailable, ChoiceOK, RequestOK
<1>2. ChoiceTypeOK'
  BY <1>1 DEF ChoiceOK, ChoiceTypeOK, ChoicePc
<1>3. RequestOK' /\ ResolvedOK' /\ CommandOK' /\ MeasuredOK'
  BY <1>1 DEF RequestOK, ResolvedOK, CommandOK, MeasuredOK, ContrastIsMeasured,
              Chosen
<1>4. SteadyOK'
  BY <1>1 DEF ChoiceOK, SteadyOK, NoneAvailable, Usable
<1> QED
  BY <1>2, <1>3, <1>4 DEF ChoiceOK

\* The second look at the profile lets it run or fails the job, and on a steady
\* host it says what the first one said.
LEMMA CheckKeeps ==
  ASSUME ChoiceOK, Check
  PROVE  ChoiceOK'
<1>1. /\ pc = "resolved" /\ pc' \in {"failed", "runnable"}
      /\ UNCHANGED <<request, host, profile, answers, measured, command>>
      /\ profile \in Implemented
      /\ pc' = "runnable" => (request.max_quality => profile \in GpuProfiles)
  BY DEF Check, ChoiceOK, ResolvedOK, Chosen
<1>2. ChoiceTypeOK'
  BY <1>1 DEF ChoiceOK, ChoiceTypeOK, ChoicePc, Check, Available
<1>3. RequestOK'
  BY <1>1 DEF RequestOK
<1>4. ResolvedOK'
  BY <1>1 DEF ChoiceOK, ResolvedOK, Chosen, Before
<1>5. CommandOK' /\ MeasuredOK'
  BY <1>1 DEF ChoiceOK, CommandOK, MeasuredOK, ContrastIsMeasured
<1>6. SteadyOK'
  <2> SUFFICES ASSUME steady' PROVE SteadyOK'
    BY DEF SteadyOK
  <2>1. steady
    BY DEF Check, Available
  <2>2. pc' = "failed" =>
          \/ profile \notin host
          \/ request.max_quality /\ profile \notin GpuProfiles
    BY <1>1 DEF Check, Available
  <2>3. CASE request.profile # "auto"
    <3>1. profile = request.profile
      BY <1>1, <2>3 DEF ChoiceOK, ResolvedOK, Chosen
    <3> QED
      BY <1>1, <2>1, <2>2, <2>3, <3>1 DEF ChoiceOK, SteadyOK, Usable
  <2>4. CASE request.profile = "auto"
    <3>1. profile \in host
      BY <1>1, <2>1, <2>4 DEF ChoiceOK, ResolvedOK, Chosen, SteadyOK
    <3>2. profile \notin GpuProfiles =>
            \A q \in GpuProfiles : q \in Implemented /\ Before(q, profile)
      BY <1>1, ChoiceAssumption DEF Before, CpuProfiles
    <3>3. profile \notin GpuProfiles => \A q \in GpuProfiles : q \notin host
      BY <1>1, <2>1, <2>4, <3>2 DEF ChoiceOK, ResolvedOK, Chosen, SteadyOK
    <3> QED
      BY <1>1, <2>1, <2>2, <2>4, <3>1, <3>3 DEF ChoiceOK, SteadyOK, Usable
  <2> QED
    BY <2>3, <2>4
<1> QED
  BY <1>2, <1>3, <1>4, <1>5, <1>6 DEF ChoiceOK

LEMMA HostChangesKeeps ==
  ASSUME ChoiceOK, NEW h \in Hosts, HostChanges(h)
  PROVE  ChoiceOK'
<1>1. /\ pc' = pc /\ host' = h /\ steady' = FALSE
      /\ UNCHANGED <<request, profile, answers, measured, command>>
  BY DEF HostChanges
<1>2. ChoiceTypeOK'
  BY <1>1 DEF ChoiceOK, ChoiceTypeOK, Hosts
<1>3. RequestOK' /\ ResolvedOK'
  BY <1>1 DEF ChoiceOK, RequestOK, ResolvedOK, Valid, Before
<1>4. CommandOK' /\ MeasuredOK'
  BY <1>1 DEF ChoiceOK, CommandOK, MeasuredOK, ContrastIsMeasured, GpuQuality
<1>5. SteadyOK'
  BY <1>1 DEF SteadyOK
<1> QED
  BY <1>2, <1>3, <1>4, <1>5 DEF ChoiceOK

-----------------------------------------------------------------------------
(* Building the command *)

\* A step after the second look that leaves the choice itself alone.
LEMMA BuildFrame ==
  ASSUME ChoiceOK, UNCHANGED <<request, host, profile, answers, steady>>,
         pc \in {"runnable", "measuring", "built"},
         pc' \in {"measuring", "built", "aborted"}
  PROVE  RequestOK' /\ ResolvedOK' /\ SteadyOK'
<1>1. RequestOK'
  BY DEF RequestOK
<1>2. ResolvedOK'
  BY DEF ChoiceOK, ResolvedOK, Chosen, Before
<1>3. SteadyOK'
  BY DEF ChoiceOK, SteadyOK
<1> QED
  BY <1>1, <1>2, <1>3

LEMMA BuildForCpuKeeps ==
  ASSUME ChoiceOK, BuildForCpu
  PROVE  ChoiceOK'
<1>1. /\ pc = "runnable" /\ pc' = "built" /\ profile \notin GpuProfiles
      /\ command' = [quality |-> "crf", contrast |-> 0]
      /\ UNCHANGED <<request, host, profile, answers, steady, measured>>
  BY DEF BuildForCpu, Built, CpuProfiles
<1>2. ChoiceTypeOK'
  BY <1>1, ChoiceAssumption DEF ChoiceOK, ChoiceTypeOK, ChoicePc
<1>3. RequestOK' /\ ResolvedOK' /\ SteadyOK'
  BY <1>1, BuildFrame
<1>4. CommandOK' /\ MeasuredOK'
  BY <1>1 DEF CommandOK, MeasuredOK, ContrastIsMeasured
<1> QED
  BY <1>2, <1>3, <1>4 DEF ChoiceOK

LEMMA SourceUnreadableKeeps ==
  ASSUME ChoiceOK, SourceUnreadable
  PROVE  ChoiceOK'
<1>1. /\ pc = "runnable" /\ pc' = "built" /\ profile \in GpuProfiles
      /\ command' = [quality |-> GpuQuality, contrast |-> Contrasts]
      /\ UNCHANGED <<request, host, profile, answers, steady, measured>>
  BY DEF SourceUnreadable, Built
<1>2. GpuQuality \in {"near_lossless", "default"} /\ GpuQuality' = GpuQuality
  BY <1>1 DEF GpuQuality
<1>3. ChoiceTypeOK'
  BY <1>1, <1>2, ChoiceAssumption DEF ChoiceOK, ChoiceTypeOK, ChoicePc
<1>4. RequestOK' /\ ResolvedOK' /\ SteadyOK'
  BY <1>1, BuildFrame
<1>5. CommandOK'
  BY <1>1, <1>2 DEF CommandOK
<1>6. MeasuredOK'
  <2>1. \A c \in 1..Contrasts : measured[c] # "safe"
    BY <1>1 DEF ChoiceOK, MeasuredOK, Unmeasured
  <2>2. \A d \in 1..Contrasts - 1 : d \in 1..Contrasts
    BY ChoiceAssumption
  <2> QED
    BY <1>1, <2>1, <2>2 DEF MeasuredOK, ContrastIsMeasured
<1> QED
  BY <1>3, <1>4, <1>5, <1>6 DEF ChoiceOK

LEMMA StartMeasuringKeeps ==
  ASSUME ChoiceOK, StartMeasuring
  PROVE  ChoiceOK'
<1>1. /\ pc = "runnable" /\ pc' = "measuring"
      /\ profile \in GpuProfiles
      /\ UNCHANGED <<request, host, profile, answers, steady, measured, command>>
  BY DEF StartMeasuring
<1>2. ChoiceTypeOK'
  BY <1>1 DEF ChoiceOK, ChoiceTypeOK, ChoicePc
<1>3. RequestOK' /\ ResolvedOK' /\ SteadyOK'
  BY <1>1, BuildFrame
<1>4. CommandOK' /\ MeasuredOK'
  BY <1>1 DEF ChoiceOK, CommandOK, MeasuredOK, ContrastIsMeasured, Unmeasured
<1> QED
  BY <1>2, <1>3, <1>4 DEF ChoiceOK

\* The loop stops at the first contrast that is safe, or at the last.
LEMMA SampleKeeps ==
  ASSUME ChoiceOK, NEW c \in 1..Contrasts,
         NEW showed \in {"safe", "clipped", "nothing"}, Sample(c, showed)
  PROVE  ChoiceOK'
<1>1. /\ pc = "measuring" /\ pc' \in {"measuring", "built"}
      /\ measured' = [measured EXCEPT ![c] = showed]
      /\ UNCHANGED <<request, host, profile, answers, steady>>
      /\ pc' = "measuring" => showed # "safe" /\ command' = command
      /\ pc' = "built" => /\ command' = [quality |-> GpuQuality, contrast |-> c]
                          /\ showed = "safe" \/ c = Contrasts
  BY DEF Sample, Built, Safe
<1>2. GpuQuality \in {"near_lossless", "default"} /\ GpuQuality' = GpuQuality
  BY <1>1 DEF GpuQuality
<1>3. /\ measured \in [1..Contrasts -> {"unmeasured", "safe", "clipped", "nothing"}]
      /\ \A d \in 1..Contrasts : measured[d] # "safe"
  BY <1>1 DEF ChoiceOK, ChoiceTypeOK, MeasuredOK
<1>4. ChoiceTypeOK'
  <2>1. measured' \in [1..Contrasts -> {"unmeasured", "safe", "clipped", "nothing"}]
    BY <1>1, <1>3
  <2>2. c \in 0..Contrasts
    BY ChoiceAssumption
  <2> QED
    BY <1>1, <1>2, <2>1, <2>2 DEF ChoiceOK, ChoiceTypeOK, ChoicePc
<1>5. RequestOK' /\ ResolvedOK' /\ SteadyOK'
  BY <1>1, BuildFrame
<1>6. profile \in GpuProfiles
  BY <1>1 DEF ChoiceOK, MeasuredOK
<1>7. CommandOK'
  BY <1>1, <1>2, <1>6 DEF ChoiceOK, CommandOK
<1>8. MeasuredOK'
  <2>1. CASE pc' = "measuring"
    BY <1>1, <1>3, <1>6, <2>1 DEF MeasuredOK, ContrastIsMeasured
  <2>2. CASE pc' = "built"
    <3>1. \A d \in 1..c - 1 : d \in 1..Contrasts /\ d # c
      BY ChoiceAssumption
    <3> QED
      BY <1>1, <1>3, <2>2, <3>1 DEF MeasuredOK, ContrastIsMeasured
  <2> QED
    BY <1>1, <2>1, <2>2
<1> QED
  BY <1>4, <1>5, <1>7, <1>8 DEF ChoiceOK

LEMMA StartFailsKeeps ==
  ASSUME ChoiceOK, StartFails
  PROVE  ChoiceOK'
<1>1. /\ pc \in {"measuring", "built"} /\ pc' = "aborted"
      /\ UNCHANGED <<request, host, profile, answers, steady, measured, command>>
  BY DEF StartFails
<1>2. ChoiceTypeOK'
  BY <1>1 DEF ChoiceOK, ChoiceTypeOK, ChoicePc
<1>3. RequestOK' /\ ResolvedOK' /\ SteadyOK'
  BY <1>1, BuildFrame
<1>4. CommandOK' /\ MeasuredOK'
  BY <1>1 DEF CommandOK, MeasuredOK, ContrastIsMeasured
<1> QED
  BY <1>2, <1>3, <1>4 DEF ChoiceOK

LEMMA StartEncodingKeeps ==
  ASSUME ChoiceOK, StartEncoding
  PROVE  ChoiceOK'
<1>1. /\ pc = "built" /\ pc' = "encoding" /\ answers' = Unasked
      /\ measured' = Unmeasured /\ steady' = TRUE
      /\ UNCHANGED <<request, host, profile, command>>
  BY DEF StartEncoding
<1>2. ChoiceTypeOK'
  BY <1>1 DEF ChoiceOK, ChoiceTypeOK, ChoicePc, Unasked, Unmeasured
<1>3. RequestOK'
  BY <1>1 DEF RequestOK
<1>4. ResolvedOK'
  BY <1>1 DEF ChoiceOK, ResolvedOK, Chosen
<1>5. CommandOK' /\ MeasuredOK'
  BY <1>1 DEF ChoiceOK, CommandOK, MeasuredOK, ContrastIsMeasured, GpuQuality
<1>6. SteadyOK'
  BY <1>1 DEF SteadyOK, Unasked
<1> QED
  BY <1>2, <1>3, <1>4, <1>5, <1>6 DEF ChoiceOK

-----------------------------------------------------------------------------

LEMMA ChoiceStep == ChoiceOK /\ [ChoiceNext]_choiceVars => ChoiceOK'
<1> SUFFICES ASSUME ChoiceOK, [ChoiceNext]_choiceVars PROVE ChoiceOK'
  OBVIOUS
<1>1. CASE SubmitStep
  BY <1>1, SubmitKeeps DEF SubmitStep
<1>2. CASE ResolveStep
  BY <1>2, PickupKeeps, NoneAvailableKeeps, CheckKeeps, AskKeeps,
     HostChangesKeeps DEF ResolveStep
<1>3. CASE BuildStep
  BY <1>3, BuildForCpuKeeps, SourceUnreadableKeeps, StartMeasuringKeeps,
     SampleKeeps, StartFailsKeeps, StartEncodingKeeps DEF BuildStep
<1>4. CASE UNCHANGED choiceVars
  <2>1. ChoiceTypeOK' /\ RequestOK' /\ ResolvedOK'
    BY <1>4 DEF choiceVars, ChoiceOK, ChoiceTypeOK, RequestOK, ResolvedOK,
                Valid, Before
  <2>2. CommandOK' /\ MeasuredOK' /\ SteadyOK'
    BY <1>4 DEF choiceVars, ChoiceOK, CommandOK, MeasuredOK, SteadyOK,
                ContrastIsMeasured, GpuQuality, Usable
  <2> QED
    BY <2>1, <2>2 DEF ChoiceOK
<1> QED
  BY <1>1, <1>2, <1>3, <1>4 DEF ChoiceNext

LEMMA ChoiceInvariant == ChoiceSpec => []ChoiceOK
  BY InitChoiceOK, ChoiceStep, PTL DEF ChoiceSpec

LEMMA ChosenRight == ChoiceOK => ProfileIsRight
<1> SUFFICES ASSUME ChoiceOK,
                    pc \in {"runnable", "measuring", "built", "encoding"}
             PROVE  ProfileIsRight
  BY DEF ProfileIsRight
<1>1. profile \in Implemented /\ (request.max_quality => profile \in GpuProfiles)
  BY DEF ChoiceOK, ResolvedOK, Chosen
<1>2. request.profile = "auto" \/ profile = request.profile
  BY DEF ChoiceOK, ResolvedOK, Chosen
<1>3. ASSUME request.profile = "auto", pc # "encoding"
      PROVE  /\ answers[profile] = "yes"
             /\ \A p \in GpuProfiles :
                  profile \notin GpuProfiles \/ Rank[p] < Rank[profile]
                    => answers[p] = "no"
  <2>1. \A p \in GpuProfiles :
          profile \notin GpuProfiles \/ Rank[p] < Rank[profile]
            => p \in Implemented /\ Before(p, profile)
    BY <1>1, ChoiceAssumption DEF Before, CpuProfiles
  <2> QED
    BY <1>3, <2>1 DEF ChoiceOK, ResolvedOK, Chosen
<1>4. command.quality = "near_lossless" => request.max_quality
  <2>1. CASE pc \in {"runnable", "measuring"}
    <3>1. command = NoCommand
      BY <2>1 DEF ChoiceOK, CommandOK
    <3>2. None # "near_lossless"
      BY ChoiceAssumption
    <3> QED
      BY <3>1, <3>2 DEF NoCommand
  <2>2. CASE pc \in {"built", "encoding"}
    BY <2>2 DEF ChoiceOK, CommandOK, GpuQuality
  <2> QED
    BY <2>1, <2>2
<1>5. pc \in {"built", "encoding"} /\ request.max_quality
        => command.quality = "near_lossless"
  BY <1>1 DEF ChoiceOK, CommandOK, GpuQuality
<1> QED
  BY <1>1, <1>2, <1>3, <1>4, <1>5 DEF ProfileIsRight

LEMMA SteadyServes == ChoiceOK => SteadyHostServes
<1> SUFFICES ASSUME ChoiceOK, steady PROVE SteadyHostServes
  BY DEF SteadyHostServes
<1>1. ASSUME pc \in {"runnable", "measuring", "built"}, request.profile = "auto",
             profile \notin GpuProfiles
      PROVE  host \cap GpuProfiles = {}
  <2>1. \A p \in GpuProfiles : p \in Implemented /\ Before(p, profile)
    BY <1>1, ChoiceAssumption DEF ChoiceOK, ResolvedOK, Chosen, Before, CpuProfiles
  <2>2. \A p \in GpuProfiles : answers[p] = "no"
    BY <1>1, <2>1 DEF ChoiceOK, ResolvedOK, Chosen
  <2> QED
    BY <2>1, <2>2 DEF ChoiceOK, SteadyOK
<1> QED
  BY <1>1 DEF ChoiceOK, SteadyOK, SteadyHostServes

-----------------------------------------------------------------------------

\* The profile and the quality of a job are the requested ones, or the first in
\* the order of resolve_auto that answered, for any registry and any host.
THEOREM RightProfile == ChoiceSpec => []ProfileIsRight
  BY ChoiceInvariant, ChosenRight, PTL

\* While the host stays as it is and no probe is given up, a job fails only if no
\* profile that may serve it is available, and "auto" passes over no GPU profile
\* that is, for any registry (resolve_auto, _reject_if_unrunnable).
THEOREM HostServes == ChoiceSpec => []SteadyHostServes
  BY ChoiceInvariant, SteadyServes, PTL

\* No contrast is applied that was not measured to be safe, but the last, which
\* is none (_auto_contrast).
THEOREM MeasuredContrast == ChoiceSpec => []ContrastIsMeasured
<1>1. ChoiceOK => ContrastIsMeasured
  BY DEF ChoiceOK, MeasuredOK
<1> QED
  BY <1>1, ChoiceInvariant, PTL

(***************************************************************************)
(* The choice and the amounts together.                                    *)
(***************************************************************************)

\* Every step of the two together is one of each, or leaves it alone.
LEMMA GradingIsBothStep ==
  [GradingNext]_gradingVars => [Next]_mediaVars /\ [ChoiceNext]_choiceVars
<1> SUFFICES ASSUME [GradingNext]_gradingVars
             PROVE  [Next]_mediaVars /\ [ChoiceNext]_choiceVars
  OBVIOUS
<1>1. CASE UploadStep
  BY <1>1 DEF UploadStep, Next
<1>2. CASE ValidateStep
  BY <1>2 DEF ValidateStep, ChoiceNext
<1>3. CASE FingerprintStep
  BY <1>3 DEF FingerprintStep, Next
<1>4. CASE ChooseStep
  BY <1>4 DEF ChooseStep, ChoiceNext
<1>5. CASE ProbeStep
  BY <1>5 DEF ProbeStep, Next
<1>6. CASE CommandStep
  BY <1>6 DEF CommandStep, ChoiceNext
<1>7. CASE EncodeStep
  BY <1>7 DEF EncodeStep, Next
<1>8. CASE UNCHANGED gradingVars
  BY <1>8 DEF gradingVars
<1> QED
  BY <1>1, <1>2, <1>3, <1>4, <1>5, <1>6, <1>7, <1>8 DEF GradingNext

\* Grading a file is uploading, sampling, encoding and cutting it as Media says,
\* with a profile, quality and contrast chosen as ProfileChoice says.
THEOREM GradingIsBoth == GradingSpec => Spec /\ ChoiceSpec
<1>1. GradingInit => Init /\ ChoiceInit
  BY DEF GradingInit
<1> QED
  BY <1>1, GradingIsBothStep, PTL DEF GradingSpec, Spec, ChoiceSpec

\* Amounts, profile, quality and contrast keep their types while a file is
\* graded, and nothing is graded that has no duration.
THEOREM GradingTypeCorrect == GradingSpec => []GradingTypeOK
<1>1. ChoiceOK => ChoiceTypeOK
  BY DEF ChoiceOK
<1>2. TypeOK /\ ChoiceTypeOK => GradingTypeOK
  BY DEF GradingTypeOK
<1> QED
  BY <1>1, <1>2, GradingIsBoth, MediaTypeOK, ChoiceInvariant, PTL

\* Wherever 30% of a video is, the window sampled there ends within it, or it
\* starts where the video does (_auto_contrast).
THEOREM WindowFits == GradingSpec => []SampleFits
<1>1. TypeOK => SampleFits
  <2> SUFFICES ASSUME TypeOK PROVE SampleFits
    OBVIOUS
  <2>1. duration \in Nat /\ WindowMs \in Nat
    BY WindowAssumption DEF TypeOK
  <2> QED
    BY <2>1 DEF SampleFits, Seek, MaxOf
<1> QED
  BY <1>1, GradingIsBoth, MediaTypeOK, PTL

\* What the sources' amounts and the choice promise each, a graded file has.
THEOREM GradedRight ==
  GradingSpec =>
    /\ [](PartsTile /\ SamplesFit /\ ClipsFit) /\ ProgressIsTrue
    /\ [](ProfileIsRight /\ SteadyHostServes /\ ContrastIsMeasured)
  BY GradingIsBoth, PartsAreTheFile, SamplesAreTheEnds, ClipsAreApart,
     PercentageIsTrue, RightProfile, HostServes, MeasuredContrast, PTL

(***************************************************************************)
(* The tuning tool: a loop over the scenes within a search of the sorted   *)
(* candidates.                                                             *)
(***************************************************************************)

\* Whatever fails for some number up to n fails for a first one: the form of
\* induction the proofs below use.
LEMMA FirstOf ==
  ASSUME NEW n \in Nat, NEW B \in SUBSET (1..n), B # {}
  PROVE  \E k \in B : \A i \in 1..(k - 1) : i \notin B
<1> DEFINE T == {1..k : k \in B}
           R == StrictSubsetOrdering(1..n)
<1>1. IsFiniteSet(1..n)
  BY FS_Interval
<1>2. IsWellFoundedOn(R, SUBSET (1..n))
  BY <1>1, FS_StrictSubsetOrderingWellFounded, FS_FiniteSubsetsOfFinite
<1>3. T \subseteq SUBSET (1..n) /\ T # {}
  <2>1. \A k \in 1..n : 1..k \in SUBSET (1..n)
    OBVIOUS
  <2> QED
    BY <2>1
<1>4. PICK x \in T : \A y \in T : <<y, x>> \notin R
  <2> HIDE DEF T, R
  <2> QED
    BY <1>2, <1>3, WFMin
<1>5. PICK k \in B : x = 1..k
  BY <1>4
<1>6. ASSUME NEW i \in 1..(k - 1), i \in B PROVE FALSE
  <2>1. 1..i \in T /\ 1..i \in SUBSET (1..n) /\ x \in SUBSET (1..n)
    BY <1>3, <1>4, <1>6
  <2>2. 1..i \subseteq x /\ 1..i # x
    <3>1. k \in x /\ k \notin 1..i /\ 1..i \subseteq 1..k
      BY <1>5, <1>6
    <3> QED
      BY <3>1, <1>5
  <2>3. <<1..i, x>> \in R
    BY <2>1, <2>2 DEF StrictSubsetOrdering
  <2> QED
    BY <1>4, <2>1, <2>3
<1> QED
  BY <1>6

\* What the loop of max has kept after each scene.
Keeps(scenes, f) ==
  f = [n \in DOMAIN scenes |->
         IF n = 1 THEN scenes[1]
         ELSE IF Less(f[n - 1], scenes[n]) THEN scenes[n] ELSE f[n - 1]]

LEMMA KeepsExists ==
  ASSUME NEW n \in Nat, NEW s, DOMAIN s = 1..n
  PROVE  \E f : Keeps(s, f)
<1> DEFINE Upto(m, f) ==
      f = [i \in 1..m |->
             IF i = 1 THEN s[1]
             ELSE IF Less(f[i - 1], s[i]) THEN s[i] ELSE f[i - 1]]
           B == {m \in 1..n : ~ \E f : Upto(m, f)}
<1>1. CASE B = {}
  <2>1. CASE n = 0
    <3>1. Keeps(s, [i \in DOMAIN s |-> s[1]])
      BY <2>1 DEF Keeps
    <3> QED
      BY <3>1
  <2>2. CASE n # 0
    <3>1. n \in 1..n
      BY <2>2
    <3>2. PICK f : Upto(n, f)
      BY <1>1, <3>1
    <3> QED
      BY <3>2 DEF Keeps
  <2> QED
    BY <2>1, <2>2
<1>2. CASE B # {}
  <2>1. PICK k \in B : \A i \in 1..(k - 1) : i \notin B
    <3> HIDE DEF B
    <3>1. B \subseteq 1..n
      BY DEF B
    <3> QED
      BY <1>2, <3>1, FirstOf
  <2>2. CASE k = 1
    <3>1. Upto(1, [i \in 1..1 |-> s[1]])
      OBVIOUS
    <3> QED
      BY <2>1, <2>2, <3>1
  <2>3. CASE k # 1
    <3>1. k - 1 \in 1..n /\ k - 1 \in 1..(k - 1) /\ k \in 1..n
      BY <2>1, <2>3
    <3>2. PICK f : Upto(k - 1, f)
      BY <2>1, <3>1
    <3> DEFINE g == [i \in 1..k |->
                       IF i = k
                       THEN IF Less(f[k - 1], s[k]) THEN s[k] ELSE f[k - 1]
                       ELSE f[i]]
    <3>3. Upto(k, g)
      <4>1. ASSUME NEW i \in 1..k
            PROVE  g[i] = IF i = 1 THEN s[1]
                          ELSE IF Less(g[i - 1], s[i]) THEN s[i] ELSE g[i - 1]
        <5>1. CASE i = k
          <6>1. g[k - 1] = f[k - 1] /\ g[k] = IF Less(f[k - 1], s[k]) THEN s[k] ELSE f[k - 1]
            BY <3>1
          <6> HIDE DEF g
          <6> QED
            BY <5>1, <6>1, <2>3
        <5>2. CASE i # k
          <6>1. i \in 1..(k - 1) /\ (i # 1 => i - 1 \in 1..k /\ i - 1 # k)
            BY <5>2, <3>1
          <6>2. g[i] = f[i] /\ (i # 1 => g[i - 1] = f[i - 1])
            BY <6>1, <5>2
          <6>3. f[i] = IF i = 1 THEN s[1]
                       ELSE IF Less(f[i - 1], s[i]) THEN s[i] ELSE f[i - 1]
            BY <3>2, <6>1
          <6> HIDE DEF g
          <6> QED
            BY <6>2, <6>3
        <5> QED
          BY <5>1, <5>2
      <4> DEFINE h == [i \in 1..k |->
                         IF i = 1 THEN s[1]
                         ELSE IF Less(g[i - 1], s[i]) THEN s[i] ELSE g[i - 1]]
      <4>2. g = h
        <5>1. \A i \in 1..k : g[i] = h[i]
          <6> SUFFICES ASSUME NEW i \in 1..k PROVE g[i] = h[i]
            OBVIOUS
          <6> HIDE DEF g
          <6> QED
            BY <4>1
        <5> QED
          BY <5>1
      <4> QED
        BY <4>2
    <3> QED
      BY <2>1, <3>1, <3>3
  <2> QED
    BY <2>2, <2>3
<1> QED
  BY <1>1, <1>2

LEMMA WorstKeeps ==
  ASSUME NEW n \in Nat, NEW s, DOMAIN s = 1..n
  PROVE  \E f : Keeps(s, f) /\ WorstOf(s) = f[Len(s)]
<1> DEFINE w == CHOOSE f : Keeps(s, f)
<1>1. Keeps(s, w)
  BY KeepsExists
<1>2. WorstOf(s) = w[Len(s)]
  BY DEF WorstOf, Keeps
<1> QED
  BY <1>1, <1>2

\* What a scene may measure, NaN included.
Measured == Nat \cup {NaN}

\* The worst of the scenes is one of them, and unless it is NaN no scene that
\* was measured is above it.
LEMMA WorstIs ==
  ASSUME NEW n \in Nat \ {0}, NEW s \in [1..n -> Measured], Len(s) = n
  PROVE  /\ \E k \in 1..n : WorstOf(s) = s[k]
         /\ WorstOf(s) # NaN => \A i \in 1..n : s[i] = NaN \/ s[i] <= WorstOf(s)
<1>1. PICK f : Keeps(s, f) /\ WorstOf(s) = f[n]
  BY WorstKeeps
<1> DEFINE Good(m) ==
      /\ \E k \in 1..m : f[m] = s[k]
      /\ f[m] # NaN => \A i \in 1..m : s[i] = NaN \/ s[i] <= f[m]
           B == {m \in 1..n : ~Good(m)}
<1>2. \A m \in 1..n : f[m] = IF m = 1 THEN s[1]
                             ELSE IF Less(f[m - 1], s[m]) THEN s[m] ELSE f[m - 1]
  BY <1>1 DEF Keeps
<1>3. ASSUME NEW m \in B, \A i \in 1..(m - 1) : i \notin B PROVE FALSE
  <2>1. CASE m = 1
    <3>1. f[1] = s[1] /\ s[1] \in Measured
      BY <1>2
    <3>2. Good(1)
      BY <3>1, TuningAssumption DEF Measured
    <3> QED
      BY <1>3, <2>1, <3>2
  <2>2. CASE m # 1
    <3>1. m - 1 \in 1..n /\ m - 1 \in 1..(m - 1) /\ m \in 1..n
      BY <1>3, <2>2
    <3>2. Good(m - 1)
      BY <1>3, <3>1
    <3>3. PICK k \in 1..(m - 1) : f[m - 1] = s[k]
      BY <3>2
    <3>4. s[m] \in Measured /\ f[m - 1] \in Measured
      BY <3>1, <3>3
    <3>5. ASSUME NEW i \in 1..m PROVE s[i] \in Measured /\ (i = m \/ i \in 1..(m - 1))
      BY <3>1
    <3>6. CASE Less(f[m - 1], s[m])
      <4>1. f[m] = s[m]
        BY <1>2, <2>2, <3>1, <3>6
      <4>2. \A i \in 1..m : s[i] = NaN \/ s[i] <= f[m]
        BY <3>2, <3>4, <3>5, <3>6, <4>1, TuningAssumption DEF Less, Measured
      <4> QED
        BY <1>3, <3>1, <4>1, <4>2
    <3>7. CASE ~Less(f[m - 1], s[m])
      <4>1. f[m] = f[m - 1]
        BY <1>2, <2>2, <3>1, <3>7
      <4>2. f[m] # NaN => \A i \in 1..m : s[i] = NaN \/ s[i] <= f[m]
        BY <3>2, <3>4, <3>5, <3>7, <4>1, TuningAssumption DEF Less, Measured
      <4>3. k \in 1..m /\ f[m] = s[k]
        BY <3>1, <3>3, <4>1
      <4> QED
        BY <1>3, <4>2, <4>3
    <3> QED
      BY <3>6, <3>7
  <2> QED
    BY <2>1, <2>2
<1>4. B = {}
  <2>1. B \subseteq 1..n /\ n \in Nat
    OBVIOUS
  <2> HIDE DEF B
  <2> QED
    BY <1>3, <2>1, FirstOf
<1>5. Good(n)
  BY <1>4
<1> QED
  BY <1>1, <1>5

\* A candidate is accepted exactly for what its scenes measured.
LEMMA Verdict ==
  ASSUME NEW s \in [1..Scenes -> Measured], Len(s) = Scenes
  PROVE  /\ Less(Worst(s), Threshold) =>
              \A i \in 1..Scenes : s[i] = NaN \/ s[i] < Threshold
         /\ ~Less(Worst(s), Threshold) =>
              \E i \in 1..Scenes : s[i] = NaN \/ ~(s[i] < Threshold)
<1>1. Scenes \in Nat \ {0} /\ Threshold \in Nat /\ NaN = -1
  BY TuningAssumption
<1>2. PICK k \in 1..Scenes : Worst(s) = s[k]
  BY <1>1, WorstIs DEF Worst
<1>3. Worst(s) # NaN => \A i \in 1..Scenes : s[i] = NaN \/ s[i] <= Worst(s)
  BY <1>1, WorstIs DEF Worst
<1>4. \A i \in 1..Scenes : s[i] \in Measured
  OBVIOUS
<1>5. Worst(s) \in Measured
  BY <1>2, <1>4
<1>6. ASSUME Less(Worst(s), Threshold), NEW i \in 1..Scenes
      PROVE  s[i] = NaN \/ s[i] < Threshold
  BY <1>1, <1>3, <1>4, <1>5, <1>6 DEF Less, Measured
<1>7. ASSUME ~Less(Worst(s), Threshold) PROVE s[k] = NaN \/ ~(s[k] < Threshold)
  BY <1>1, <1>2, <1>7 DEF Less
<1> QED
  BY <1>2, <1>6, <1>7

LEMMA CandidatesFinite ==
  /\ IsFiniteSet(Candidates) /\ Cardinality(Candidates) \in Nat
  /\ \A c \in Candidates : c[1] \in Nat /\ c[2] \in Nat /\ c = <<c[1], c[2]>>
<1>1. IsFiniteSet(Candidates)
  BY TuningAssumption, FS_Product DEF Candidates
<1>2. \A c \in Candidates : c[1] \in Nat /\ c[2] \in Nat /\ c = <<c[1], c[2]>>
  BY TuningAssumption DEF Candidates
<1> QED
  BY <1>1, <1>2, FS_CardinalityType

\* Among any candidates one is stronger than all the others.
LEMMA StrongestOf ==
  ASSUME NEW T \in SUBSET Candidates, T # {}
  PROVE  \E c \in T : \A d \in T \ {c} : Stronger(c, d)
<1> DEFINE Above(c) == {d \in T : Stronger(d, c)}
           A == {Above(c) : c \in T}
           R == StrictSubsetOrdering(T)
<1>1. IsFiniteSet(T)
  BY CandidatesFinite, FS_Subset
<1>2. IsWellFoundedOn(R, SUBSET T)
  BY <1>1, FS_StrictSubsetOrderingWellFounded, FS_FiniteSubsetsOfFinite
<1>3. A \subseteq SUBSET T /\ A # {}
  <2>1. \A c : Above(c) \in SUBSET T
    OBVIOUS
  <2> QED
    BY <2>1
<1>4. PICK x \in A : \A y \in A : <<y, x>> \notin R
  <2> HIDE DEF A, R
  <2> QED
    BY <1>2, <1>3, WFMin
<1>5. PICK c \in T : x = Above(c)
  BY <1>4
<1>6. ASSUME NEW d \in Above(c) PROVE FALSE
  <2>1. Above(d) \subseteq Above(c)
    BY <1>6, CandidatesFinite DEF Stronger
  <2>2. d \notin Above(d)
    BY <1>6, CandidatesFinite DEF Stronger
  <2>3. <<Above(d), x>> \in R
    BY <1>5, <1>6, <2>1, <2>2 DEF StrictSubsetOrdering
  <2> QED
    BY <1>4, <1>6, <2>3
<1>7. \A d \in T \ {c} : Stronger(c, d)
  BY <1>6, CandidatesFinite DEF Stronger
<1> QED
  BY <1>7

Sorts(t, T) ==
  /\ t \in [1..Cardinality(T) -> T]
  /\ \A i, j \in 1..Cardinality(T) : i < j => Stronger(t[i], t[j])

\* Any candidates can be sorted: the strongest first, then the others.
LEMMA SortExists == \E t : Sorts(t, Candidates)
<1> DEFINE B == {T \in SUBSET Candidates : ~ \E t : Sorts(t, T)}
           R == StrictSubsetOrdering(Candidates)
<1>1. SUFFICES ASSUME B # {} PROVE FALSE
  OBVIOUS
<1>2. IsWellFoundedOn(R, SUBSET Candidates)
  BY CandidatesFinite, FS_StrictSubsetOrderingWellFounded, FS_FiniteSubsetsOfFinite
<1>3. PICK T \in B : \A U \in B : <<U, T>> \notin R
  <2>1. B \subseteq SUBSET Candidates
    OBVIOUS
  <2> HIDE DEF B, R
  <2> QED
    BY <1>1, <1>2, <2>1, WFMin
<1>4. IsFiniteSet(T) /\ Cardinality(T) \in Nat
  BY CandidatesFinite, FS_Subset, FS_CardinalityType
<1>5. CASE T = {}
  <2>1. Cardinality(T) = 0
    BY <1>5, FS_EmptySet
  <2>2. Sorts([i \in 1..Cardinality(T) |-> 0], T)
    BY <2>1 DEF Sorts
  <2> QED
    BY <1>3, <2>2
<1>6. CASE T # {}
  <2>1. PICK c \in T : \A d \in T \ {c} : Stronger(c, d)
    BY <1>6, StrongestOf
  <2> DEFINE U == T \ {c}
             n == Cardinality(U)
  <2>2. n \in Nat /\ Cardinality(T) = n + 1
    <3>1. IsFiniteSet(U) /\ Cardinality(U) = Cardinality(T) - 1
      BY <1>4, <2>1, FS_RemoveElement
    <3>2. Cardinality(U) \in Nat
      BY <3>1, FS_CardinalityType
    <3> QED
      BY <1>4, <3>1, <3>2
  <2>3. <<U, T>> \in R /\ U \in SUBSET Candidates
    BY <2>1 DEF StrictSubsetOrdering
  <2>4. PICK t : Sorts(t, U)
    BY <1>3, <2>3
  <2>5. /\ t \in [1..n -> U]
        /\ \A i, j \in 1..n : i < j => Stronger(t[i], t[j])
    BY <2>4 DEF Sorts
  <2> DEFINE u == [i \in 1..(n + 1) |-> IF i = 1 THEN c ELSE t[i - 1]]
  <2> HIDE DEF n
  <2>6. \A i \in 1..(n + 1) : i = 1 \/ (i - 1 \in 1..n /\ t[i - 1] \in U)
    BY <2>2, <2>5
  <2>7. u \in [1..(n + 1) -> T]
    BY <2>1, <2>6
  <2>8. ASSUME NEW i \in 1..(n + 1), NEW j \in 1..(n + 1), i < j
        PROVE  Stronger(u[i], u[j])
    <3>1. j # 1 /\ j - 1 \in 1..n /\ u[j] = t[j - 1] /\ u[j] \in U
      BY <2>2, <2>6, <2>8
    <3>2. CASE i = 1
      <4>1. u[i] = c
        BY <3>2
      <4> HIDE DEF u
      <4> QED
        BY <2>1, <3>1, <4>1
    <3>3. CASE i # 1
      <4>1. i - 1 \in 1..n /\ u[i] = t[i - 1] /\ i - 1 < j - 1
        BY <2>2, <2>6, <2>8, <3>3
      <4> HIDE DEF u
      <4> QED
        BY <2>5, <3>1, <4>1
    <3> QED
      BY <3>2, <3>3
  <2>9. Sorts(u, T)
    <3> HIDE DEF u
    <3> QED
      BY <2>2, <2>7, <2>8 DEF Sorts
  <2> QED
    BY <1>3, <2>9
<1> QED
  BY <1>5, <1>6

\* The candidates are tried from the strongest on, and none is left out.
LEMMA TriedInOrder ==
  LET n == Cardinality(Candidates)
  IN  /\ n \in Nat
      /\ Tried \in [1..n -> Candidates]
      /\ Len(Tried) = n
      /\ \A i, j \in 1..n : i < j => Stronger(Tried[i], Tried[j])
      /\ \A c \in Candidates : \E i \in 1..n : Tried[i] = c
<1> DEFINE n == Cardinality(Candidates)
<1>1. n \in Nat /\ IsFiniteSet(Candidates)
  BY CandidatesFinite
<1>2. \E t \in [1..n -> Candidates] :
        \A i, j \in DOMAIN t : i < j => Stronger(t[i], t[j])
  BY SortExists DEF Sorts
<1>3. /\ Tried \in [1..n -> Candidates]
      /\ \A i, j \in 1..n : i < j => Stronger(Tried[i], Tried[j])
  BY <1>2 DEF Tried
<1>4. \A i, j \in 1..n : i # j => Tried[i] # Tried[j]
  <2> SUFFICES ASSUME NEW i \in 1..n, NEW j \in 1..n, i < j PROVE Tried[i] # Tried[j]
    BY <1>1
  <2>1. Stronger(Tried[i], Tried[j]) /\ Tried[i] \in Candidates /\ Tried[j] \in Candidates
    BY <1>3
  <2> QED
    BY <2>1, CandidatesFinite DEF Stronger
<1>5. Tried \in Injection(1..n, Candidates)
  BY <1>3, <1>4 DEF Injection, IsInjective
<1>6. Cardinality(1..n) = n
  BY <1>1, FS_Interval
<1>7. Tried \in Surjection(1..n, Candidates)
  BY <1>1, <1>5, <1>6, FS_Injection
<1>8. Len(Tried) = n
  BY <1>1, <1>3
<1> QED
  BY <1>1, <1>3, <1>7, <1>8 DEF Surjection

\* The search: every candidate but the last was measured on all scenes and
\* turned down, and the last one is being measured or has been judged.
TuningOK ==
  LET n == Len(per_scene)
  IN  /\ tool \in {"idle", "measuring", "found", "none", "raised"}
      /\ per_scene \in Seq(Seq(Measures))
      /\ tool = "idle" <=> n = 0
      /\ n <= Len(Tried)
      /\ \A i \in 1..n : Len(per_scene[i]) <= Scenes
      /\ \A i \in 1..n :
           i < n \/ tool = "none" =>
             Len(per_scene[i]) = Scenes /\ ~Less(Worst(per_scene[i]), Threshold)
      /\ tool = "found" =>
           Len(Current) = Scenes /\ Less(Worst(Current), Threshold)
      /\ tool = "none" => n = Len(Tried)

\* Every step of the tool keeps the search in order.
LEMMA NextTuningOK == TuningOK /\ [TuningNext]_tuningVars => TuningOK'
<1> SUFFICES ASSUME TuningOK, [TuningNext]_tuningVars PROVE TuningOK'
  OBVIOUS
<1> DEFINE n == Len(per_scene)
<1>1. Scenes \in Nat /\ Measures \subseteq Measured /\ Len(Tried) \in Nat
  BY TuningAssumption, TriedInOrder DEF Measured
<1>2. per_scene \in Seq(Seq(Measures)) /\ n \in Nat
  BY DEF TuningOK
<1>3. ASSUME Start PROVE TuningOK'
  <2>1. Len(Tried) >= 1
    <3>1. PICK c \in Candidates : TRUE
      BY <1>3 DEF Start
    <3>2. PICK i \in 1..Len(Tried) : Tried[i] = c
      BY TriedInOrder
    <3> QED
      BY <1>1, <3>2
  <2>2. /\ per_scene' \in Seq(Seq(Measures)) /\ Len(per_scene') = 1
        /\ per_scene'[1] = <<>> /\ tool' = "measuring"
    BY <1>3 DEF Start
  <2> QED
    BY <1>1, <2>1, <2>2 DEF TuningOK, Current
<1>4. ASSUME NEW m \in Measures, MeasureScene(m) PROVE TuningOK'
  <2>1. n \in 1..n /\ tool = "measuring" /\ tool' = tool
    BY <1>2, <1>4 DEF TuningOK, MeasureScene
  <2>2. per_scene[n] \in Seq(Measures) /\ Len(per_scene[n]) < Scenes
    BY <1>2, <1>4, <2>1 DEF MeasureScene, Current
  <2>3. /\ Append(per_scene[n], m) \in Seq(Measures)
        /\ Len(Append(per_scene[n], m)) = Len(per_scene[n]) + 1
    BY <1>1, <2>2
  <2>4. per_scene' = [per_scene EXCEPT ![n] = Append(per_scene[n], m)]
    BY <1>4 DEF MeasureScene
  <2>5. /\ per_scene' \in Seq(Seq(Measures)) /\ Len(per_scene') = n
        /\ \A i \in 1..n : per_scene'[i] = IF i = n THEN Append(per_scene[n], m)
                                           ELSE per_scene[i]
    BY <1>2, <2>1, <2>3, <2>4
  <2>6. \A i \in 1..n : Len(per_scene'[i]) <= Scenes
    <3>1. \A i \in 1..n : Len(per_scene[i]) <= Scenes
      BY DEF TuningOK
    <3>2. Len(per_scene[n]) \in Nat /\ Len(per_scene[n]) + 1 <= Scenes
      BY <1>1, <2>2
    <3>3. per_scene'[n] = Append(per_scene[n], m)
      BY <2>1, <2>5
    <3>4. Len(per_scene'[n]) <= Scenes
      BY <2>3, <3>2, <3>3
    <3> QED
      BY <2>5, <3>1, <3>4
  <2>7. \A i \in 1..n : i < n => per_scene'[i] = per_scene[i]
    BY <1>2, <2>5
  <2>8. /\ n <= Len(Tried) /\ n # 0
        /\ \A i \in 1..n : i < n => Len(per_scene[i]) = Scenes
                                     /\ ~Less(Worst(per_scene[i]), Threshold)
    BY <2>1 DEF TuningOK
  <2>9. \A i \in 1..n : i < n => Len(per_scene'[i]) = Scenes
                                  /\ ~Less(Worst(per_scene'[i]), Threshold)
    BY <2>7, <2>8
  <2> QED
    BY <2>1, <2>5, <2>6, <2>8, <2>9 DEF TuningOK
<1>5. ASSUME SceneFails PROVE TuningOK'
  BY <1>5 DEF SceneFails, TuningOK, Current
<1>6. ASSUME Judge PROVE TuningOK'
  <2>1. n \in 1..n /\ Len(per_scene[n]) = Scenes
    BY <1>2, <1>6 DEF TuningOK, Judge, Current
  <2>2. CASE Less(Worst(Current), Threshold)
    BY <1>2, <1>6, <2>1, <2>2 DEF Judge, TuningOK, Current
  <2>3. CASE ~Less(Worst(Current), Threshold) /\ n < Len(Tried)
    <3>1. per_scene' = Append(per_scene, <<>>) /\ tool' = "measuring"
      BY <1>6, <2>3 DEF Judge
    <3>2. /\ per_scene' \in Seq(Seq(Measures)) /\ Len(per_scene') = n + 1
          /\ \A i \in 1..(n + 1) : per_scene'[i] = IF i = n + 1 THEN <<>>
                                                   ELSE per_scene[i]
      BY <1>2, <3>1
    <3> QED
      BY <1>1, <1>2, <2>1, <2>3, <3>1, <3>2 DEF TuningOK, Current
  <2>4. CASE ~Less(Worst(Current), Threshold) /\ ~(n < Len(Tried))
    BY <1>1, <1>2, <1>6, <2>1, <2>4 DEF Judge, TuningOK, Current
  <2> QED
    BY <2>2, <2>3, <2>4
<1>7. CASE UNCHANGED tuningVars
  BY <1>7 DEF tuningVars, TuningOK, Current
<1> QED
  BY <1>3, <1>4, <1>5, <1>6, <1>7 DEF TuningNext

\* If ffmpeg yields a frame of every scene, the worst scene of the candidate the
\* tool ends with stays under the threshold, and that of every stronger one does
\* not, for any scenes, measures and candidates (find_best_candidate).
THEOREM TunedIsStrongest ==
  ASSUME NaN \notin Measures
  PROVE  TuningSpec => []TunedIsBest
<1>1. TuningInit => TuningOK
  BY TriedInOrder DEF TuningInit, TuningOK, Current
<1>2. TuningOK => TunedIsBest
  <2> SUFFICES ASSUME TuningOK, tool \in {"found", "none"} PROVE TunedIsBest
    BY DEF TunedIsBest
  <2> DEFINE n == Len(per_scene)
  <2>1. n \in 1..n /\ n \in 1..Len(Tried)
    BY TriedInOrder DEF TuningOK
  <2>2. ASSUME NEW i \in 1..n, Len(per_scene[i]) = Scenes
        PROVE  /\ per_scene[i] \in [1..Scenes -> Measured]
               /\ DOMAIN per_scene[i] = 1..Scenes
               /\ \A s \in 1..Scenes :
                    Less(per_scene[i][s], Threshold) <=> per_scene[i][s] < Threshold
               /\ NaN \notin {per_scene[i][s] : s \in 1..Scenes}
    <3>1. per_scene[i] \in Seq(Measures)
      BY <2>2 DEF TuningOK
    <3>2. per_scene[i] \in [1..Scenes -> Measures]
      BY <2>2, <3>1
    <3>3. Measures \subseteq Nat /\ NaN = -1 /\ Threshold \in Nat
      BY TuningAssumption
    <3>4. \A s \in 1..Scenes : per_scene[i][s] \in Nat
      BY <3>2, <3>3
    <3>5. per_scene[i] \in [1..Scenes -> Measured] /\ DOMAIN per_scene[i] = 1..Scenes
      BY <3>2, <3>3 DEF Measured
    <3>6. \A s \in 1..Scenes :
            Less(per_scene[i][s], Threshold) <=> per_scene[i][s] < Threshold
      BY <3>3, <3>4 DEF Less
    <3>7. NaN \notin {per_scene[i][s] : s \in 1..Scenes}
      BY <3>3, <3>4
    <3> QED
      BY <3>5, <3>6, <3>7
  <2>3. ASSUME tool = "found", NEW s \in DOMAIN per_scene[n]
        PROVE  Less(per_scene[n][s], Threshold)
    <3>1. Len(per_scene[n]) = Scenes /\ Less(Worst(per_scene[n]), Threshold)
      BY <2>1, <2>3 DEF TuningOK, Current
    <3>2. per_scene[n][s] = NaN \/ per_scene[n][s] < Threshold
      BY <2>1, <2>2, <2>3, <3>1, Verdict
    <3> QED
      BY <2>1, <2>2, <2>3, <3>1, <3>2
  <2>4. ASSUME NEW c \in Candidates, tool = "none" \/ Stronger(c, Tried[n])
        PROVE  \E i \in 1..n :
                 /\ c = Tried[i]
                 /\ \E s \in DOMAIN per_scene[i] : ~Less(per_scene[i][s], Threshold)
    <3>1. PICK i \in 1..Len(Tried) : Tried[i] = c
      BY TriedInOrder
    <3>2. i \in 1..n /\ (i < n \/ tool = "none")
      <4>1. CASE tool = "none"
        BY <3>1, <4>1 DEF TuningOK
      <4>2. CASE Stronger(c, Tried[n])
        <5>1. i # n /\ ~(n < i)
          <6>1. c \in Candidates /\ Tried[n] \in Candidates
            BY <2>1, TriedInOrder
          <6>2. ~Stronger(c, c) /\ ~Stronger(Tried[n], c)
            BY <4>2, <6>1, CandidatesFinite DEF Stronger
          <6> QED
            BY <2>1, <3>1, <4>2, <6>2, TriedInOrder
        <5> QED
          BY <2>1, <3>1, <5>1
      <4> QED
        BY <2>4, <4>1, <4>2
    <3>3. Len(per_scene[i]) = Scenes /\ ~Less(Worst(per_scene[i]), Threshold)
      BY <3>2 DEF TuningOK
    <3>4. PICK s \in 1..Scenes :
            per_scene[i][s] = NaN \/ ~(per_scene[i][s] < Threshold)
      BY <2>2, <3>2, <3>3, Verdict
    <3> QED
      BY <2>2, <3>1, <3>2, <3>3, <3>4
  <2> QED
    BY <2>3, <2>4 DEF TunedIsBest
<1> QED
  BY <1>1, <1>2, NextTuningOK, PTL DEF TuningSpec
=============================================================================
