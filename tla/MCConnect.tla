----------------------------- MODULE MCConnect ------------------------------
(* Instances of Connect for TLC.                                           *)
EXTENDS Connect

CONSTANTS s1, s2
=============================================================================
