--------------------------- MODULE MCLibraryPage ---------------------------
(* A small instance of LibraryPage for TLC. *)
EXTENDS LibraryPage, TLC

CONSTANTS
  r1, r2, \* the page's request handler and another client's
  v1, v2  \* two visits of the page

MCHandlers == {r1, r2}
MCMine == {r1}
MCVisits == {v1, v2}

\* No file carries a recording date.
MCNoTag == [f \in Files |-> None]

\* The page moves and deletes, another client deletes videos beside it.
MCServes == r1 :> {"move", "delete_folder", "delete"} @@ r2 :> {"delete"}

\* Bound: a call of the page and a request of the other client are pending at
\* once only until the last visit begins.  Each meets the loads at any time.
MCMeeting ==
  request[r2].pc # "idle" /\ ~NoCalls => \E v \in Visits : load[v].pc = "due"

MCSpec == PageInit /\ [][PageNext /\ MCMeeting']_allVars

MCSymmetry == Permutations(Visits) \cup Permutations(Jobs) \cup Permutations(Files) \cup Permutations(Folders)
=============================================================================
