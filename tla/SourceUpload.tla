---------------------------- MODULE SourceUpload ----------------------------
(***************************************************************************)
(* What an upload session promises: its source file appears in the object  *)
(* store whole and at once, or the upload is abandoned; the session says   *)
(* which, and a job is created only on the whole file.                     *)
(***************************************************************************)

CONSTANTS Clients, None

VARIABLES
  source,  \* "absent", "whole" or "abandoned"
  told,    \* what the session has been marked as, None before
  users    \* the clients whose job was accepted

vars == <<source, told, users>>

Init == source = "absent" /\ told = None /\ users = {}

Assemble == source = "absent" /\ source' = "whole" /\ UNCHANGED <<told, users>>

Abandon == source = "absent" /\ source' = "abandoned" /\ UNCHANGED <<told, users>>

Tell ==
  /\ \/ source = "whole" /\ told' = "completed"
     \/ source = "abandoned" /\ told' = "aborted"
  /\ UNCHANGED <<source, users>>

Use(c) ==
  /\ source = "whole"
  /\ users' = users \cup {c}
  /\ UNCHANGED <<source, told>>

Next == Assemble \/ Abandon \/ Tell \/ \E c \in Clients : Use(c)

Spec == Init /\ [][Next]_vars
=============================================================================
