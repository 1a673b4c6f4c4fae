--------------------------- MODULE MCVideoLibrary ---------------------------
(* A small instance of VideoLibrary for TLC. *)
EXTENDS VideoLibrary, TLC

CONSTANTS r1, r2  \* the handlers

MCHandlers == {r1, r2}

\* No file carries a recording date.
MCNoTag == [f \in Files |-> None]

\* A move and the deletion of a folder at the same time.
MCTwoTabs == r1 :> {"move"} @@ r2 :> {"delete_folder"}

MCSymmetry == Permutations(Jobs) \cup Permutations(Files) \cup Permutations(Folders)
=============================================================================
