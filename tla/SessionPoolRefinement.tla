----------------------- MODULE SessionPoolRefinement ------------------------
(***************************************************************************)
(* SessionPool implements SessionLease.  A session waits idle exactly when *)
(* it is in a pool list, and is retired as soon as a thread has taken it   *)
(* in order to close it, or has closed it: a client whose reconnect failed *)
(* still holds the closed Connection, but leases nothing.                  *)
(***************************************************************************)
EXTENDS SessionPool

Closing(s) == \E x \in Closers : s \in closing[x]

leaseMap ==
  [s \in Sessions |->
     IF connection[s] = "none" THEN "unopened"
     ELSE IF connection[s] = "closed" \/ Closing(s) THEN "retired"
     ELSE IF Pooled(s) THEN "idle"
     ELSE "leased"]

leasedMap ==
  [c \in Clients |-> IF conn[c] = NoSession \/ connection[conn[c]] = "closed"
                       THEN NoSession ELSE conn[c]]

Lease == INSTANCE SessionLease WITH lease <- leaseMap, leased <- leasedMap

\* Every behaviour of the pool is one of the abstract lease: a session goes
\* from one client to the next only by waiting idle in between, and a session
\* some thread decided to close is never leased again (sql_client.py 111-129,
\* 226-268 and client.py 75-92 together).
LeaseSpec == Lease!LeaseSpec
=============================================================================
