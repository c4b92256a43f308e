------------------------ MODULE MCStatementLifecycle ------------------------
(* Instances of StatementLifecycle for TLC.                                *)
EXTENDS StatementLifecycle

CONSTANTS u1, u2
=============================================================================
