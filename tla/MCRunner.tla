------------------------------ MODULE MCRunner ------------------------------
(***************************************************************************)
(* Instance of Runner for TLC.                                             *)
(***************************************************************************)
EXTENDS Runner
=============================================================================
