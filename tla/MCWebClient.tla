------------------------------ MODULE MCWebClient ------------------------------
(***************************************************************************)
(* Small instances of WebClient for TLC.                                   *)
(***************************************************************************)
EXTENDS WebClient
===============================================================================
