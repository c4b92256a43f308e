---------------------------- MODULE MCDbtSession ----------------------------
(* Instances of DbtSession for TLC.                                        *)
EXTENDS DbtSession, TLC

CONSTANTS t1, t2, s1, s2, s3

\* Threads, and sessions, differ only in their names.
NameSymmetry == Permutations(Threads) \cup Permutations(Sessions)
=============================================================================
