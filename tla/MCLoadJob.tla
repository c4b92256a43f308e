----------------------------- MODULE MCLoadJob -----------------------------
(* Instances of LoadJob for TLC.                                           *)
EXTENDS LoadJob
=============================================================================
