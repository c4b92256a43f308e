---------------------------- MODULE SessionLease ----------------------------
(***************************************************************************)
(* What the dlt destination promises about DuckHaven sessions, without the *)
(* pool, the locks, the network or the handlers: a session is opened for   *)
(* one client, is leased to one client at a time, may wait idle between    *)
(* two leases, and once retired is never leased again.                     *)
(*                                                                         *)
(* SessionPool is the program; SessionPoolRefinement maps it onto this.    *)
(***************************************************************************)
EXTENDS Naturals

CONSTANTS Clients,   \* the job clients (DuckHavenJobClient objects)
          Sessions,  \* the sessions the process ever opens
          NoSession  \* a client that leases nothing

VARIABLES lease,     \* [Sessions -> LeaseStates]
          leased     \* [Clients -> Sessions \cup {NoSession}]

leaseVars == <<lease, leased>>

LeaseStates == {"unopened", "leased", "idle", "retired"}

LeaseInit == /\ lease = [s \in Sessions |-> "unopened"]
             /\ leased = [c \in Clients |-> NoSession]

\* A client gets a session nobody has used, or one that waits idle.
Lease(c, s) == /\ leased[c] = NoSession
               /\ lease[s] \in {"unopened", "idle"}
               /\ lease' = [lease EXCEPT ![s] = "leased"]
               /\ leased' = [leased EXCEPT ![c] = s]

\* A client gives its session up: to the idle ones, or for good.
GiveUp(c, to) == /\ leased[c] # NoSession
                 /\ lease' = [lease EXCEPT ![leased[c]] = to]
                 /\ leased' = [leased EXCEPT ![c] = NoSession]

\* Every idle session is retired at once.
RetireIdle == /\ lease' = [s \in Sessions |-> IF lease[s] = "idle" THEN "retired"
                                                                   ELSE lease[s]]
              /\ UNCHANGED leased

LeaseNext == \/ \E c \in Clients, s \in Sessions : Lease(c, s)
             \/ \E c \in Clients, to \in {"idle", "retired"} : GiveUp(c, to)
             \/ RetireIdle

LeaseSpec == LeaseInit /\ [][LeaseNext]_leaseVars
=============================================================================
