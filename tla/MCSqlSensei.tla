------------------------------ MODULE MCSqlSensei ------------------------------
(***************************************************************************)
(* Instances of SqlSensei for TLC: one server, so that every agent has its *)
(* key, and a report whose body is the set of jobs its rows come from.     *)
(***************************************************************************)
EXTENDS SqlSensei, TLC

MCBodies == SUBSET (1 .. MaxJobs)

MCConfig == [a \in Agents |-> CHOOSE key \in Keys : TRUE]

Symmetry == Permutations(Requests) \cup Permutations(Agents)
=============================================================================
