------------------------------- MODULE MCInsights -------------------------------
(***************************************************************************)
(* Small instances of Insights for TLC: the values of the constants that a *)
(* configuration file cannot write.                                        *)
(***************************************************************************)
EXTENDS Insights, TLC

MCKeyLists == {<<1>>, <<1, 2>>, <<2, 1>>}
MCIncludes == {<<>>, <<3>>}
NoIncludes == {<<>>}
Symmetry   == Permutations(Schemas) \cup Permutations(TableNames) \cup Permutations(IndexNames)
===============================================================================
