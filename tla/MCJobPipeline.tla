--------------------------- MODULE MCJobPipeline ---------------------------
(* Small instances of JobPipeline for TLC. *)
EXTENDS JobPipeline, TLC

CONSTANTS d1  \* a recording date

\* Every file carries the same recording date: display names collide.
MCCreationTag == [f \in Files |-> d1]

\* No file carries one: the job's creation date is used.
MCNoTag == [f \in Files |-> None]

\* Jobs, workers and dismissers are interchangeable.
MCSymmetry ==
  Permutations(Jobs) \cup Permutations(Workers) \cup Permutations(Dismissers)
=============================================================================
