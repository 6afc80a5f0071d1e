------------------------------- MODULE Insights -------------------------------
(***************************************************************************)
(* The rows of a server that the monitoring page is about, as monitoring   *)
(* jobs store them one by one, and what the page is told of them.          *)
(***************************************************************************)
EXTENDS IndexIssues, WaitStats

vars == <<indexVars, waitVars>>

Init ==
  /\ indexes = {} /\ usage = <<>>
  /\ waitRows = <<>> /\ findingRows = <<>>

\* Index usage and the other rows have no part in common; each is looked at
\* alone.
Next ==
  \/ waitRows \o findingRows = <<>> /\ (CreateIndex \/ AddUsage) /\ UNCHANGED waitVars
  \/ indexes = {} /\ (AddWait \/ AddFinding) /\ UNCHANGED indexVars

Spec == Init /\ [][Next]_vars
===============================================================================
