----------------------------- MODULE MCTonemill -----------------------------
(* A small instance of Tonemill for TLC. *)
EXTENDS Tonemill, TLC

CONSTANTS r1, r2  \* the library's request handlers

MCHandlers == {r1, r2}

\* No file carries a recording date.
MCNoTag == [f \in Files |-> None]

\* Two deletions at once, or a move beside a deletion.
MCServes == r1 :> {"move", "delete"} @@ r2 :> {"delete"}
=============================================================================
