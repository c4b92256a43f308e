--------------------------- MODULE MCSessionPool ----------------------------
(* Instances of SessionPool and of its refinement for TLC.                 *)
EXTENDS SessionPoolRefinement

CONSTANTS c1, c2, c3, s1, s2, raw, other

\* c1 and c2 share their settings, c3 has others.
MCKeys == {raw, other}
MCKey == [c \in Clients |-> IF c = c3 THEN other ELSE raw]
=============================================================================
