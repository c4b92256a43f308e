---------------------------- MODULE MCSqlCommand ----------------------------
(* Instances of SqlCommand for TLC.                                        *)
EXTENDS SqlCommand

CONSTANTS s1, s2, s3
=============================================================================
