--------------------------- MODULE ProfileChoice ---------------------------
(***************************************************************************)
(* Which profile one job is graded with, and with which quality and        *)
(* contrast: the validation of POST /jobs, the worker's resolution of      *)
(* "auto", the second look at the chosen profile's availability, and the   *)
(* GPU profile's measurements of the source.  A GPU profile is probed by   *)
(* encoding one frame, each time anew: the GPU may come and go, be busy    *)
(* with other runs, or keep the probe waiting until it is given up.        *)
(* JobPipeline takes the outcome of all this as it comes.                  *)
(***************************************************************************)
EXTENDS Naturals

CONSTANTS
  Rank,        \* registered profiles, by their place in build_registry
  Implemented, \* those that are implemented
  GpuProfiles, \* those whose execution_path is "gpu"
  Requests,    \* names clients send
  Contrasts,   \* _CANDIDATE_CONTRASTS, numbered from the highest: the last of
               \* them is no boost
  None

Registered == DOMAIN Rank

ASSUME ChoiceAssumption ==
  /\ GpuProfiles \subseteq Implemented /\ Implemented \subseteq Registered
  /\ Rank \in [Registered -> Nat]
  /\ \A p, q \in Registered : Rank[p] = Rank[q] => p = q
  /\ "auto" \notin Registered
  /\ None \notin Registered \cup {"auto", "near_lossless"}
  /\ Contrasts \in Nat \ {0}

VARIABLES
  pc,       \* how far the choice has come
  request,  \* the job's requested_profile and max_quality
  host,     \* profiles whose probe would succeed just now
  profile,  \* the resolved profile
  answers,  \* what is_available said while "auto" was resolved
  steady,   \* nothing changed or timed out since the job was picked up
  measured, \* what the sample at each contrast showed
  command   \* the quality target and contrast in ffmpeg's arguments

choiceVars ==
  <<pc, request, host, profile, answers, steady, measured, command>>

ChoicePc == {"new", "rejected", "queued", "resolving", "resolved", "runnable",
             "measuring", "built", "encoding", "failed", "aborted"}

CpuProfiles == Implemented \ GpuProfiles

\* Without ffmpeg no probe succeeds, with it those of the CPU profiles and some
\* of the others do.  A path that begins with "/" counts as an ffmpeg, whether
\* there is one or not: what has been found available may still not start.
Hosts == {h \in SUBSET Implemented : h = {} \/ CpuProfiles \subseteq h}

Unasked == [p \in Implemented |-> "unasked"]
Unmeasured == [c \in 1..Contrasts |-> "unmeasured"]
NoCommand == [quality |-> None, contrast |-> 0]

ChoiceTypeOK ==
  /\ pc \in ChoicePc
  /\ request \in [profile: Requests \cup {None}, max_quality: BOOLEAN]
  /\ host \in Hosts
  /\ profile \in Implemented \cup {None}
  /\ answers \in [Implemented -> {"unasked", "yes", "no"}]
  /\ steady \in BOOLEAN
  /\ measured \in [1..Contrasts -> {"unmeasured", "safe", "clipped", "nothing"}]
  /\ command \in [ quality : {"crf", "default", "near_lossless", None},
                   contrast: 0..Contrasts ]

ChoiceInit ==
  /\ pc = "new"
  /\ request = [profile |-> None, max_quality |-> FALSE]
  /\ host \in Hosts
  /\ profile = None /\ answers = Unasked /\ steady = TRUE
  /\ measured = Unmeasured /\ command = NoCommand

-----------------------------------------------------------------------------
(* POST /jobs *)

\* _validate_explicit_profile
Valid(name, quality) ==
  \/ name = "auto"
  \/ name \in Implemented /\ (quality => name \in GpuProfiles)

Submit(name, quality) ==
  /\ pc = "new"
  /\ request' = [profile |-> name, max_quality |-> quality]
  /\ pc' = IF Valid(name, quality) THEN "queued" ELSE "rejected"
  /\ UNCHANGED <<host, profile, answers, steady, measured, command>>

-----------------------------------------------------------------------------
(* run_job: _resolve_profile and _reject_if_unrunnable *)

Pickup ==
  /\ pc = "queued"
  /\ IF request.profile = "auto"
     THEN pc' = "resolving" /\ UNCHANGED profile
     ELSE pc' = "resolved" /\ profile' = request.profile
  /\ steady' = TRUE
  /\ UNCHANGED <<request, host, answers, measured, command>>

\* is_available.  A CPU profile looks for the path to ffmpeg; a GPU profile waits
\* for an encoder to start, and for at most 15 seconds.
Available(p, answer) ==
  \/ p \in host /\ answer = TRUE /\ UNCHANGED steady
  \/ p \notin host /\ answer = FALSE /\ UNCHANGED steady
  \/ p \in host \cap GpuProfiles /\ answer = FALSE /\ steady' = FALSE

\* Seeded fault: the profiles are tried in the order of their registration
\* from the back.
LastFirst(p, q) == Rank[p] > Rank[q]

\* resolve_auto: GPU profiles before CPU profiles, in registration order.
Before(p, q) ==
  \/ p \in GpuProfiles /\ q \in CpuProfiles
  \/ (p \in GpuProfiles <=> q \in GpuProfiles) /\ Rank[p] < Rank[q]

Ask(p) ==
  /\ pc = "resolving" /\ answers[p] = "unasked"
  /\ \A q \in Implemented : Before(q, p) => answers[q] = "no"
  /\ \/ /\ Available(p, TRUE)
        /\ answers' = [answers EXCEPT ![p] = "yes"]
        /\ profile' = p /\ pc' = "resolved"
     \/ /\ Available(p, FALSE)
        /\ answers' = [answers EXCEPT ![p] = "no"]
        /\ UNCHANGED <<profile, pc>>
  /\ UNCHANGED <<request, host, measured, command>>

\* RuntimeError, caught by run_job.
NoneAvailable ==
  /\ pc = "resolving" /\ \A p \in Implemented : answers[p] = "no"
  /\ pc' = "failed"
  /\ UNCHANGED <<request, host, profile, answers, steady, measured, command>>

\* Seeded fault: a profile that has become unavailable is replaced.
CheckOrReplace ==
  /\ pc = "resolved"
  /\ \E p \in {profile} \cup CpuProfiles :
       /\ Available(p, TRUE) /\ profile' = p
       /\ pc' = IF request.max_quality /\ p \notin GpuProfiles THEN "failed"
                ELSE "runnable"
  /\ UNCHANGED <<request, host, answers, measured, command>>

\* _reject_if_unrunnable asks again, "auto" or not, and substitutes nothing.
Check ==
  /\ pc = "resolved"
  /\ \/ /\ Available(profile, TRUE)
        /\ pc' = IF request.max_quality /\ profile \notin GpuProfiles
                 THEN "failed" ELSE "runnable"
     \/ Available(profile, FALSE) /\ pc' = "failed"
  /\ UNCHANGED <<request, host, profile, answers, measured, command>>

\* A GPU is taken by another process, a driver is loaded.
HostChanges(h) ==
  /\ pc \in {"resolving", "resolved"} /\ host # h
  /\ host' = h /\ steady' = FALSE
  /\ UNCHANGED <<pc, request, profile, answers, measured, command>>

-----------------------------------------------------------------------------
(* build_command, and the process it is for *)

Built(quality, contrast) ==
  /\ command' = [quality |-> quality, contrast |-> contrast]
  /\ pc' = "built"

\* HlgCpuProfile: one quality, and a contrast of its own (0).
BuildForCpu ==
  /\ pc = "runnable" /\ profile \in CpuProfiles
  /\ Built("crf", 0)
  /\ UNCHANGED <<request, host, profile, answers, steady, measured>>

\* HlgGpuProfile measures the source first.  The probes of its duration and
\* its dimensions may fail: no boost.
GpuQuality == IF request.max_quality THEN "near_lossless" ELSE "default"

SourceUnreadable ==
  /\ pc = "runnable" /\ profile \in GpuProfiles
  /\ Built(GpuQuality, Contrasts)
  /\ UNCHANGED <<request, host, profile, answers, steady, measured>>

StartMeasuring ==
  /\ pc = "runnable" /\ profile \in GpuProfiles
  /\ pc' = "measuring"
  /\ UNCHANGED <<request, host, profile, answers, steady, measured, command>>

\* Seeded fault: no frame has no pixel that is clipped.
SafeOrNothing(showed) == showed \in {"safe", "nothing"}

\* A sample must show frames that stay under the threshold.
Safe(showed) == showed = "safe"

\* One iteration of _auto_contrast's loop: ffmpeg may fail or leave no frame.
\* The highest contrast that is safe is taken, or the last in the end.
Sample(c, showed) ==
  /\ pc = "measuring"
  /\ measured[c] = "unmeasured" /\ \A d \in 1..c - 1 : measured[d] # "unmeasured"
  /\ measured' = [measured EXCEPT ![c] = showed]
  /\ IF Safe(showed) \/ c = Contrasts
     THEN Built(GpuQuality, c)
     ELSE UNCHANGED <<pc, command>>
  /\ UNCHANGED <<request, host, profile, answers, steady>>

\* ffmpeg cannot be started: OSError, which neither _auto_contrast nor run_job
\* catches.
StartFails ==
  /\ pc \in {"measuring", "built"}
  /\ pc' = "aborted"
  /\ UNCHANGED <<request, host, profile, answers, steady, measured, command>>

\* ffmpeg is started; how its command came about is history.
StartEncoding ==
  /\ pc = "built"
  /\ pc' = "encoding"
  /\ answers' = Unasked /\ measured' = Unmeasured /\ steady' = TRUE
  /\ UNCHANGED <<request, host, profile, command>>

-----------------------------------------------------------------------------

SubmitStep == \E name \in Requests, quality \in BOOLEAN : Submit(name, quality)

ResolveStep ==
  \/ Pickup \/ NoneAvailable \/ Check
  \/ \E p \in Implemented : Ask(p)
  \/ \E h \in Hosts : HostChanges(h)

BuildStep ==
  \/ BuildForCpu \/ SourceUnreadable \/ StartMeasuring
  \/ \E c \in 1..Contrasts, showed \in {"safe", "clipped", "nothing"} :
       Sample(c, showed)
  \/ StartFails \/ StartEncoding

ChoiceNext == SubmitStep \/ ResolveStep \/ BuildStep

ChoiceSpec == ChoiceInit /\ [][ChoiceNext]_choiceVars

-----------------------------------------------------------------------------
(* Properties *)

\* A profile that may serve the request, and whose probe succeeds.
Usable(p) == p \in host /\ (request.max_quality => p \in GpuProfiles)

\* The profile a job is graded with is the one that was asked for, or with
\* "auto" the first in the order of preference that answered it could run; at
\* the highest quality it is a GPU profile, and only then is the target near
\* lossless (FR-012, FR-013, FR-028, FR-029).
ProfileIsRight ==
  pc \in {"runnable", "measuring", "built", "encoding"} =>
    /\ request.profile = "auto" \/ profile = request.profile
    /\ request.profile = "auto" /\ pc # "encoding" =>
         /\ answers[profile] = "yes"
         /\ \A p \in GpuProfiles :
              profile \notin GpuProfiles \/ Rank[p] < Rank[profile]
                => answers[p] = "no"
    /\ request.max_quality => profile \in GpuProfiles
    /\ command.quality = "near_lossless" => request.max_quality
    /\ pc \in {"built", "encoding"} /\ request.max_quality =>
         command.quality = "near_lossless"

\* While the host stays as it is and no probe is given up, asking twice is asking
\* once: a job fails only if no profile that may serve it is available, and "auto"
\* grades on the GPU if one is (FR-012, FR-022).
SteadyHostServes ==
  steady =>
    /\ pc = "failed" =>
         IF request.profile = "auto" THEN \A p \in Implemented : ~Usable(p)
         ELSE ~Usable(request.profile)
    /\ pc \in {"runnable", "measuring", "built"} /\ request.profile = "auto"
         => profile \in GpuProfiles \/ host \cap GpuProfiles = {}

\* A boost is applied only if a sample taken with it was seen to be safe, and
\* no higher one was; what could not be measured counts as unsafe (FR-011).
ContrastIsMeasured ==
  pc = "built" /\ profile \in GpuProfiles =>
    LET c == command.contrast IN
    /\ c = Contrasts \/ measured[c] = "safe"
    /\ \A d \in 1..c - 1 : measured[d] # "safe"
=============================================================================
