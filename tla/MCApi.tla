--------------------------------- MODULE MCApi ---------------------------------
(***************************************************************************)
(* Instances of Api for TLC.  A "week" and a "quarter" of one minute keep  *)
(* the clock short while every comparison of the handlers can go both      *)
(* ways.                                                                   *)
(***************************************************************************)
EXTENDS Api, TLC

\* The request slots and the Guids are interchangeable.
Symmetry == Permutations(Requests) \cup Permutations(Keys)
=============================================================================
