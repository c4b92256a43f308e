----------------------------- MODULE DbtSession -----------------------------
(***************************************************************************)
(* The dbt adapter's connection manager (connections.py): each dbt thread   *)
(* keeps its session from node to node, and reopens it once when a          *)
(* statement finds it lost.  What dbt-core does with the manager (acquire   *)
(* and release a connection per node, add_query, cleanup_all at the end) is *)
(* external and modelled from its use in tests/unit/test_connections.py.    *)
(*                                                                         *)
(* A session's name is used again once nothing refers to it.               *)
(*                                                                         *)
(* An operator named Faulty... is its neighbour with one plausible bug; no  *)
(* action uses it.  It shows that a property would notice the bug.         *)
(***************************************************************************)
EXTENDS Naturals, FiniteSets

CONSTANTS Threads,    \* dbt's threads, the main one included
          Sessions,   \* bound: the names of sessions
          None        \* no session, no thread

ASSUME NoneAssumption == None \notin Threads \cup Sessions

VARIABLES
  alive,     \* the sessions open on the server
  orphaned,  \* history: the sessions alive that no Connection will close
  dead,      \* the sessions whose Connection is marked dead
  state,     \* [Threads -> ConnectionState]
  handle,    \* [Threads -> the session of connection.handle]
  tx,        \* [Threads -> connection.transaction_open]
  pc,        \* [Threads -> where the thread is]
  attempt,   \* [Threads -> 1 or 2]: which call of super().add_query
  ran,       \* history: how often the statement of an add_query has run
  late,      \* history: a 409 came after the statement had run
  lock,      \* the holder of DuckDBConnectionManager._LOCK
  phase      \* "run" | "cleanup" | "over"

server == <<alive, orphaned, dead>>
connections == <<state, handle, tx>>
history == <<ran, late>>
vars == <<server, connections, pc, attempt, history, lock, phase>>

States == {"init", "open", "closed", "fail"}
Places == {"idle", "node", "open", "opening", "submit", "direct", "release"}

TypeOK ==
  /\ alive \subseteq Sessions /\ orphaned \subseteq alive /\ dead \subseteq Sessions
  /\ state \in [Threads -> States]
  /\ handle \in [Threads -> Sessions \cup {None}]
  /\ \A t \in Threads : state[t] = "open" <=> handle[t] # None
  /\ tx \in [Threads -> BOOLEAN]
  /\ pc \in [Threads -> Places]
  /\ attempt \in [Threads -> {0, 1, 2}]
  /\ ran \in [Threads -> 0..2] /\ late \in [Threads -> BOOLEAN]
  /\ lock \in Threads \cup {None}
  /\ phase \in {"run", "cleanup", "over"}

Init ==
  /\ alive = {} /\ orphaned = {} /\ dead = {}
  /\ state = [t \in Threads |-> "init"] /\ handle = [t \in Threads |-> None]
  /\ tx = [t \in Threads |-> FALSE]
  /\ pc = [t \in Threads |-> "idle"] /\ attempt = [t \in Threads |-> 0]
  /\ ran = [t \in Threads |-> 0] /\ late = [t \in Threads |-> FALSE]
  /\ lock = None /\ phase = "run"

Free(s) == s \notin alive /\ \A t \in Threads : handle[t] # s

GoTo(t, place) == pc' = [pc EXCEPT ![t] = place]

\* connection.handle is dropped, and the connection's state set.
Drop(t, st) ==
  /\ state' = [state EXCEPT ![t] = st]
  /\ handle' = [handle EXCEPT ![t] = None]

\* Connection.close: a DELETE, which may be lost, unless the connection is dead.
CloseHandle(s) ==
  /\ dead' = dead \ {s}
  /\ \/ s \notin dead /\ alive' = alive \ {s} /\ orphaned' = orphaned \ {s}
     \/ alive' = alive /\ orphaned' = orphaned \cup ({s} \cap alive)

-----------------------------------------------------------------------------
\* dbt runs a node on the thread: BEGIN and COMMIT move its transaction flag.
StartNode(t) ==
  /\ phase = "run" /\ pc[t] = "idle"
  /\ GoTo(t, "node")
  /\ UNCHANGED <<server, connections, attempt, history, lock, phase>>

SetTransaction(t) ==
  /\ pc[t] = "node"
  /\ tx' = [tx EXCEPT ![t] = ~tx[t]]
  /\ UNCHANGED <<server, state, handle, pc, attempt, history, lock, phase>>

EndNode(t) ==
  /\ pc[t] = "node"
  /\ GoTo(t, "release")
  /\ UNCHANGED <<server, connections, attempt, history, lock, phase>>

\* add_query: the handle is opened when it is first used.
AddQuery(t) ==
  /\ pc[t] = "node"
  /\ GoTo(t, IF state[t] = "open" THEN "submit" ELSE "open")
  /\ attempt' = [attempt EXCEPT ![t] = 1]
  /\ ran' = [ran EXCEPT ![t] = 0] /\ late' = [late EXCEPT ![t] = FALSE]
  /\ UNCHANGED <<server, connections, lock, phase>>

\* get_catalog_rows: DESCRIBE on a cursor of the handle, past add_query.
CatalogRows(t) ==
  /\ pc[t] = "node" /\ state[t] = "open"
  /\ GoTo(t, "direct")
  /\ UNCHANGED <<server, connections, attempt, history, lock, phase>>

-----------------------------------------------------------------------------
\* open: one thread at a time, under the lock.
TakeLock(t) ==
  /\ pc[t] = "open" /\ lock = None
  /\ lock' = t
  /\ GoTo(t, "opening")
  /\ UNCHANGED <<server, connections, attempt, history, phase>>

\* Threads share the environment's one session.
FaultyOpened(t, s) ==
  /\ pc[t] = "opening" /\ (Free(s) \/ s \in alive)
  /\ alive' = alive \cup {s} /\ UNCHANGED <<orphaned, dead>>
  /\ handle' = [handle EXCEPT ![t] = s] /\ state' = [state EXCEPT ![t] = "open"]
  /\ lock' = None
  /\ GoTo(t, "submit")
  /\ UNCHANGED <<tx, attempt, history, phase>>

Opened(t, s) ==
  /\ pc[t] = "opening" /\ Free(s)
  /\ alive' = alive \cup {s} /\ UNCHANGED <<orphaned, dead>>
  /\ handle' = [handle EXCEPT ![t] = s] /\ state' = [state EXCEPT ![t] = "open"]
  /\ lock' = None
  /\ GoTo(t, "submit")
  /\ UNCHANGED <<tx, attempt, history, phase>>

\* connect() raises, and may leave a session behind: the node fails.
OpenFails(t) ==
  /\ pc[t] = "opening"
  /\ \/ UNCHANGED server
     \/ \E s \in Sessions : Free(s) /\ alive' = alive \cup {s}
                            /\ orphaned' = orphaned \cup {s} /\ UNCHANGED dead
  /\ Drop(t, "fail")
  /\ lock' = None
  /\ GoTo(t, "release")
  /\ UNCHANGED <<tx, attempt, history, phase>>

-----------------------------------------------------------------------------
\* Whether a statement that was sent has run.
Ran(t, n) == ran' = [ran EXCEPT ![t] = ran[t] + n] /\ UNCHANGED late

\* The statement runs.
Runs(t) ==
  /\ pc[t] = "submit" /\ handle[t] \in alive \ dead
  /\ Ran(t, 1)
  /\ GoTo(t, "node")
  /\ UNCHANGED <<server, connections, attempt, lock, phase>>

\* Any error but a lost session: the statement may have run.  dbt rolls back.
Fails(t) ==
  /\ pc[t] = "submit"
  /\ \/ handle[t] \in dead /\ UNCHANGED history
     \/ handle[t] \notin dead /\ \E n \in {0, 1} : (n = 1 => handle[t] \in alive) /\ Ran(t, n)
  /\ GoTo(t, "release")
  /\ tx' \in {tx, [tx EXCEPT ![t] = FALSE]}
  /\ UNCHANGED <<server, state, handle, attempt, lock, phase>>

\* Every error is taken for a lost session.
FaultyReopens(t, n) ==
  /\ pc[t] = "submit" /\ handle[t] \notin dead
  /\ n = 1 => handle[t] \in alive
  /\ ran' = [ran EXCEPT ![t] = ran[t] + n] /\ UNCHANGED late
  /\ orphaned' = orphaned \cup ({handle[t]} \cap alive) /\ UNCHANGED <<alive, dead>>
  /\ Drop(t, IF attempt[t] = 1 THEN "init" ELSE "closed")
  /\ GoTo(t, IF attempt[t] = 1 THEN "open" ELSE "release")
  /\ attempt' = [attempt EXCEPT ![t] = 2]
  /\ UNCHANGED <<tx, lock, phase>>

\* A 409: the session is gone, or the server refuses the statement for another
\* conflict, or (older servers) the rows of one that ran.  The dead connection is
\* closed without a DELETE, and the statement sent again on a new one, once.
Reopens(t, n) ==
  /\ pc[t] = "submit" /\ handle[t] \notin dead
  /\ n = 1 => handle[t] \in alive
  /\ ran' = [ran EXCEPT ![t] = ran[t] + n]
  /\ late' = [late EXCEPT ![t] = late[t] \/ n = 1]
  /\ orphaned' = orphaned \cup ({handle[t]} \cap alive) /\ UNCHANGED <<alive, dead>>
  /\ Drop(t, IF attempt[t] = 1 THEN "init" ELSE "closed")
  /\ GoTo(t, IF attempt[t] = 1 THEN "open" ELSE "release")
  /\ attempt' = [attempt EXCEPT ![t] = 2]
  /\ UNCHANGED <<tx, lock, phase>>

\* A DESCRIBE of get_catalog_rows: a 409 marks the connection dead, and nothing
\* reopens it.
Describe(t) ==
  /\ pc[t] = "direct"
  /\ \/ handle[t] \in alive \ dead /\ GoTo(t, "node") /\ UNCHANGED dead
     \/ GoTo(t, "release") /\ dead' \in {dead, dead \cup {handle[t]}}
  /\ UNCHANGED <<alive, orphaned, connections, attempt, history, lock, phase>>

-----------------------------------------------------------------------------
\* The connection is set aside, and its session with it.
FaultyReleaseForgets(t) ==
  /\ pc[t] = "release"
  /\ tx' = [tx EXCEPT ![t] = FALSE]
  /\ IF tx[t] /\ state[t] = "open" THEN Drop(t, "closed") ELSE UNCHANGED <<state, handle>>
  /\ GoTo(t, "idle")
  /\ UNCHANGED <<server, attempt, history, lock, phase>>

\* release: the session is kept, unless a transaction is still open.
Release(t) ==
  /\ pc[t] = "release"
  /\ tx' = [tx EXCEPT ![t] = FALSE]
  /\ IF tx[t] /\ state[t] = "open"
       THEN Drop(t, "closed") /\ CloseHandle(handle[t])
       ELSE UNCHANGED <<state, handle, server>>
  /\ GoTo(t, "idle")
  /\ UNCHANGED <<attempt, history, lock, phase>>

\* cleanup_all, once every node has ended.
StartCleanup ==
  /\ phase = "run" /\ \A t \in Threads : pc[t] = "idle"
  /\ phase' = "cleanup"
  /\ UNCHANGED <<server, connections, pc, attempt, history, lock>>

Cleanup(t) ==
  /\ phase = "cleanup" /\ handle[t] # None
  /\ Drop(t, "closed") /\ CloseHandle(handle[t])
  /\ UNCHANGED <<tx, pc, attempt, history, lock, phase>>

EndCleanup ==
  /\ phase = "cleanup" /\ \A t \in Threads : handle[t] = None
  /\ phase' = "over"
  /\ UNCHANGED <<server, connections, pc, attempt, history, lock>>

\* The server reaps a session, or its agent goes away.
Reap(s) ==
  /\ s \in alive
  /\ alive' = alive \ {s} /\ orphaned' = orphaned \ {s}
  /\ UNCHANGED <<dead, connections, pc, attempt, history, lock, phase>>

Next ==
  \/ \E t \in Threads :
       \/ StartNode(t) \/ SetTransaction(t) \/ EndNode(t) \/ AddQuery(t) \/ CatalogRows(t)
       \/ TakeLock(t) \/ (\E s \in Sessions : Opened(t, s)) \/ OpenFails(t)
       \/ Runs(t) \/ Fails(t) \/ (\E n \in {0, 1} : Reopens(t, n)) \/ Describe(t)
       \/ Release(t) \/ Cleanup(t)
  \/ StartCleanup \/ EndCleanup
  \/ \E s \in Sessions : Reap(s)

Spec == Init /\ [][Next]_vars

-----------------------------------------------------------------------------
\* A thread's session is its own: temp tables and SETs of one thread's nodes never
\* meet another's, and cancelling a thread's handle reaches its statement only
\* (connections.py 51-62; environments.py 54-61).  Nor does a kept connection carry
\* dbt's transaction flag into the thread's next node (73-79).
OwnSession ==
  /\ \A t, u \in Threads : t # u /\ handle[t] # None => handle[t] # handle[u]
  /\ \A t \in Threads : pc[t] = "idle" => ~tx[t]

\* The manager loses no session: one that is open on the server is some thread's
\* handle, or the connector gave it up (connections.py 64-79, 102-116), and when
\* the invocation has ended the threads' sessions are closed (70-71).
NothingLost ==
  \A s \in alive \ orphaned : phase # "over" /\ \E t \in Threads : handle[t] = s

\* A statement that add_query sends again has not run before, but where a 409 of
\* the rows route is taken for a lost session (connections.py 27-33, 96-116).
RunsOnce == \A t \in Threads : ~late[t] => ran[t] <= 1

-----------------------------------------------------------------------------
\* What the repository says and the code does not do: TLC finds each of these
\* violated (README.md, Divergences).

\* "`threads: N` holds at most N + 1 sessions, whatever the node count" (README.md
\* of the adapter, 135-136), the main thread's included.
SessionsBounded == Cardinality(alive) <= Cardinality(Threads)

\* "When a statement finds its session gone, the adapter opens a new one and sends
\* the statement again, once" (README.md of the adapter, 142-143): no statement is
\* stuck with the dead connection of an earlier one.
NoDeadHandle == \A t \in Threads : pc[t] = "submit" => handle[t] \notin dead
=============================================================================
