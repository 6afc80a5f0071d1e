------------------------------- MODULE JobLedger -------------------------------
(***************************************************************************)
(* What SqlSensei promises about a job: it is granted to one agent, and    *)
(* from then on either reported once or lost; nothing brings a lost job    *)
(* back, and nothing touches a reported one again.                         *)
(***************************************************************************)
EXTENDS Naturals

CONSTANT JobIds

VARIABLES
  standing,  \* how each job stands
  reports    \* how many reports of each job are stored

lvars == <<standing, reports>>

TypeOK ==
  /\ standing \in [JobIds -> {"none", "held", "lost", "reported"}]
  /\ reports \in [JobIds -> 0 .. 1]

Init ==
  /\ standing = [j \in JobIds |-> "none"]
  /\ reports = [j \in JobIds |-> 0]

\* Jobs are inserted and handed out, or lost at once because the agent that
\* asked has given up.
Grant(S, as) ==
  /\ \A j \in S : standing[j] = "none"
  /\ standing' = [j \in JobIds |-> IF j \in S THEN as ELSE standing[j]]
  /\ UNCHANGED reports

Report(j) ==
  /\ standing[j] = "held"
  /\ standing' = [standing EXCEPT ![j] = "reported"]
  /\ reports' = [reports EXCEPT ![j] = @ + 1]

Lose(S) ==
  /\ \A j \in S : standing[j] = "held"
  /\ standing' = [j \in JobIds |-> IF j \in S THEN "lost" ELSE standing[j]]
  /\ UNCHANGED reports

Next ==
  \/ \E S \in SUBSET JobIds, as \in {"held", "lost"} : Grant(S, as)
  \/ \E j \in JobIds : Report(j)
  \/ \E S \in SUBSET JobIds : Lose(S)

Settle(j) == Report(j) \/ \E S \in SUBSET JobIds : j \in S /\ Lose(S)

Safety == Init /\ [][Next]_lvars

Spec ==
  /\ Safety
  /\ \A j \in JobIds : WF_lvars(Settle(j))
=============================================================================
