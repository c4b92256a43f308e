------------------------- MODULE MCResourceCommand -------------------------
\* TLC instance of ResourceCommand: one invocation at a terminal that may be any
\* command, and one that nobody sits at: a save of the same worksheet, a delete that
\* asks, or a user to create, whose password may not be given.
EXTENDS ResourceCommand

CONSTANTS full, bare, person, cron

MCHas == [p \in Profiles |-> IF p = full THEN Settings ELSE {"host"}]
MCOffered ==
  [c \in Calls |->
     IF c = person THEN Commands
     ELSE {UpdateWorksheet, Asked(Remove(Deployment)), CreateUser}]
=============================================================================
