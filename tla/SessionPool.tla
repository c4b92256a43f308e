---------------------------- MODULE SessionPool -----------------------------
(***************************************************************************)
(* The session pool of the dlt destination (dlt_duckhaven/sql_client.py    *)
(* and client.py): job clients on parallel worker threads open a DuckHaven *)
(* session or take one a finished load job handed back, run their calls,   *)
(* replace a session the server dropped, and hand back or close theirs;    *)
(* completing a package, and the exit handler, close what is left.         *)
(*                                                                         *)
(* One action is one region of code that runs without another thread       *)
(* seeing its middle: a region under _IDLE_LOCK, or the steps of one       *)
(* thread up to its next request.  The server may drop any session at any  *)
(* moment, and a client learns of it from the 409 of its next call only.   *)
(*                                                                         *)
(* An operator named Faulty... is its neighbour with one plausible bug; no  *)
(* action uses it.  It shows that a property would notice the bug.         *)
(***************************************************************************)
EXTENDS Naturals, Sequences

CONSTANTS Clients,    \* the job clients, one worker thread each
          Sessions,   \* bound: the sessions the process can open
          Keys,       \* the settings that select a session (_pool_key)
          Key,        \* [Clients -> Keys]: the settings of each client
          AtExit,     \* the exit handler, which closes sessions as clients do
          NoSession,  \* _conn is None
          NoKey       \* the settings of a session that is not open yet

ASSUME KeyAssumption == Key \in [Clients -> Keys]
ASSUME AtExitAssumption == AtExit \notin Clients
ASSUME NoSessionAssumption == NoSession \notin Sessions
ASSUME NoKeyAssumption == NoKey \notin Keys

Closers == Clients \cup {AtExit}

VARIABLES
  server,      \* [Sessions -> "none" | "open" | "gone"]: the server's row
  connection,  \* [Sessions -> "none" | "usable" | "dead" | "closed"]: the
               \* Connection object connect() returned, by its two flags
  settings,    \* [Sessions -> Keys \cup {NoKey}]: what it was opened with
  conn,        \* [Clients -> Sessions \cup {NoSession}]: sql_client._conn
  reuse,       \* [Clients -> BOOLEAN]: sql_client.reuse_session
  phase,       \* [Clients -> Phases]: where the client's thread is
  pool,        \* [Keys -> Seq(Sessions)]: _IDLE_SESSIONS
  closing,     \* [Closers -> SUBSET Sessions]: the list that a thread in
               \* close_idle_sessions took and has not closed yet
  process,     \* "loading" | "stopping" | "atexit" | "exited"
  tainted      \* history: the sessions on which a client's work has failed

vars == <<server, connection, settings, conn, reuse, phase, pool, closing,
          process, tainted>>

Phases == {"out",         \* not entered, or left
           "connecting",  \* open_connection waits for a new session
           "in",          \* between calls, inside the with block
           "reopening",   \* reconnect waits for a new session
           "resending",   \* about to re-send the refused call
           "completing",  \* complete_load is in close_idle_sessions
           "failed"}      \* an exception is on its way to __exit__

TypeOK ==
  /\ server \in [Sessions -> {"none", "open", "gone"}]
  /\ connection \in [Sessions -> {"none", "usable", "dead", "closed"}]
  /\ settings \in [Sessions -> Keys \cup {NoKey}]
  /\ conn \in [Clients -> Sessions \cup {NoSession}]
  /\ reuse \in [Clients -> BOOLEAN]
  /\ phase \in [Clients -> Phases]
  /\ pool \in [Keys -> Seq(Sessions)]
  /\ closing \in [Closers -> SUBSET Sessions]
  /\ process \in {"loading", "stopping", "atexit", "exited"}
  /\ tainted \in SUBSET Sessions

Init ==
  /\ server = [s \in Sessions |-> "none"]
  /\ connection = [s \in Sessions |-> "none"]
  /\ settings = [s \in Sessions |-> NoKey]
  /\ conn = [c \in Clients |-> NoSession]
  /\ reuse = [c \in Clients |-> FALSE]
  /\ phase = [c \in Clients |-> "out"]
  /\ pool = [k \in Keys |-> <<>>]
  /\ closing = [x \in Closers |-> {}]
  /\ process = "loading"
  /\ tainted = {}

-----------------------------------------------------------------------------
InList(k, s) == \E i \in 1..Len(pool[k]) : pool[k][i] = s
Pooled(s) == \E k \in Keys : InList(k, s)

Move(c, from, to) == phase[c] = from /\ phase' = [phase EXCEPT ![c] = to]

\* Connection.close(): idempotent, no DELETE for a dead session, and the
\* request may fail, which leaves the session to the server's reaper.
CloseConnection(s) ==
  /\ connection' = [connection EXCEPT ![s] = "closed"]
  /\ \/ connection[s] = "usable" /\ server' = [server EXCEPT ![s] = "gone"]
     \/ UNCHANGED server

-----------------------------------------------------------------------------
\* Takes idle[-1] without removing it.
FaultyTakePooled(c) ==
  /\ process = "loading"
  /\ Move(c, "out", "in")
  /\ pool[Key[c]] # <<>>
  /\ conn' = [conn EXCEPT ![c] = pool[Key[c]][Len(pool[Key[c]])]]
  /\ UNCHANGED <<server, connection, settings, reuse, pool, closing, process, tainted>>

\* open_connection, when the pool holds a session for these settings.
TakePooled(c) ==
  /\ process = "loading"
  /\ Move(c, "out", "in")
  /\ pool[Key[c]] # <<>>
  /\ LET idle == pool[Key[c]]
     IN /\ conn' = [conn EXCEPT ![c] = idle[Len(idle)]]
        /\ pool' = [pool EXCEPT ![Key[c]] = SubSeq(idle, 1, Len(idle) - 1)]
  /\ UNCHANGED <<server, connection, settings, reuse, closing, process, tainted>>

\* open_connection, when it holds none: the lock is released before _connect.
StartConnect(c) ==
  /\ process = "loading"
  /\ Move(c, "out", "connecting")
  /\ pool[Key[c]] = <<>>
  /\ UNCHANGED <<server, connection, settings, conn, reuse, pool, closing,
                 process, tainted>>

\* _connect returns a session opened with the client's own settings.
ConnectReturns(c, s) ==
  /\ server[s] = "none"
  /\ \/ Move(c, "connecting", "in")
     \/ Move(c, "reopening", "resending")
  /\ server' = [server EXCEPT ![s] = "open"]
  /\ connection' = [connection EXCEPT ![s] = "usable"]
  /\ settings' = [settings EXCEPT ![s] = Key[c]]
  /\ conn' = [conn EXCEPT ![c] = s]
  /\ UNCHANGED <<reuse, pool, closing, process, tainted>>

\* reconnect swallows the error of _connect too, not only that of close.
FaultyConnectRaises(c) ==
  /\ \/ Move(c, "connecting", "out")
     \/ Move(c, "reopening", "in")
  /\ UNCHANGED <<server, connection, settings, conn, reuse, pool, closing,
                 process, tainted>>

\* _connect raises.  With its response lost, or its cold start abandoned, the
\* server may have opened a session that no Connection holds.  A client that
\* was reopening keeps the old, closed Connection in _conn.
ConnectRaises(c) ==
  /\ \/ Move(c, "connecting", "out")
     \/ Move(c, "reopening", "failed")
  /\ \/ UNCHANGED server
     \/ \E s \in Sessions : /\ server[s] = "none"
                            /\ server' = [server EXCEPT ![s] = "open"]
  /\ UNCHANGED <<connection, settings, conn, reuse, pool, closing, process, tainted>>

-----------------------------------------------------------------------------
\* prepare_load_job_execution: this client runs a load job.
Prepare(c) ==
  /\ phase[c] = "in" /\ ~reuse[c]
  /\ reuse' = [reuse EXCEPT ![c] = TRUE]
  /\ UNCHANGED <<server, connection, settings, conn, phase, pool, closing,
                 process, tainted>>

\* A call answers 409 and the client reopens the session: reconnect closes the
\* connection, which execute or stage_files has marked dead and so sends no DELETE,
\* and waits in _connect.  Every 409 is taken for a lost session, be it gone or not.
LostReconnect(c) ==
  /\ Move(c, "in", "reopening")
  /\ connection' = [connection EXCEPT ![conn[c]] = "closed"]
  /\ UNCHANGED <<server, settings, conn, reuse, pool, closing, process, tainted>>

\* A call answers 409 and may not be sent again: it reads a file the session
\* staged, or the session was already reopened for this call.
LostRaises(c) ==
  /\ \/ Move(c, "in", "failed")
     \/ Move(c, "resending", "failed")
  /\ connection' = [connection EXCEPT ![conn[c]] = "dead"]
  /\ tainted' = tainted \cup {conn[c]}
  /\ UNCHANGED <<server, settings, conn, reuse, pool, closing, process>>

\* The refused call runs on the new session.
Resent(c) ==
  /\ Move(c, "resending", "in")
  /\ server[conn[c]] = "open"
  /\ UNCHANGED <<server, connection, settings, conn, reuse, pool, closing,
                 process, tainted>>

\* Anything else the work of a client can raise: a failed statement, a lost
\* commit race, a lost response, an error of the pipeline's own.
CallRaises(c) ==
  /\ \/ Move(c, "in", "failed")
     \/ Move(c, "resending", "failed")
  /\ tainted' = tainted \cup {conn[c]}
  /\ UNCHANGED <<server, connection, settings, conn, reuse, pool, closing, process>>

-----------------------------------------------------------------------------

\* One list for every client, whatever its settings.
FaultyHandBackUnkeyed(c) ==
  /\ Move(c, "in", "out")
  /\ reuse[c]
  /\ conn' = [conn EXCEPT ![c] = NoSession]
  /\ reuse' = [reuse EXCEPT ![c] = FALSE]
  /\ \E k \in Keys : pool' = [pool EXCEPT ![k] = Append(@, conn[c])]
  /\ UNCHANGED <<server, connection, settings, closing, process, tainted>>

\* close_connection of a client that ran a load job, under the lock.
HandBack(c) ==
  /\ Move(c, "in", "out")
  /\ reuse[c]
  /\ conn' = [conn EXCEPT ![c] = NoSession]
  /\ reuse' = [reuse EXCEPT ![c] = FALSE]
  /\ pool' = [pool EXCEPT ![Key[c]] = Append(@, conn[c])]
  /\ UNCHANGED <<server, connection, settings, closing, process, tainted>>

\* close_connection of a client that ran none, or that completed a package.
CloseOwn(c) ==
  /\ \/ Move(c, "in", "out")
     \/ Move(c, "completing", "out") /\ closing[c] = {}
  /\ ~reuse[c]
  /\ conn' = [conn EXCEPT ![c] = NoSession]
  /\ CloseConnection(conn[c])
  /\ UNCHANGED <<settings, reuse, pool, closing, process, tainted>>

\* The thread never comes back from closing a session the server dropped.
FaultyExitFailedHangs(c) ==
  /\ Move(c, "failed", "out")
  /\ connection[conn[c]] = "usable"
  /\ conn' = [conn EXCEPT ![c] = NoSession]
  /\ reuse' = [reuse EXCEPT ![c] = FALSE]
  /\ CloseConnection(conn[c])
  /\ UNCHANGED <<settings, pool, closing, process, tainted>>

\* __exit__ with an exception drops the reuse flag before close_connection.
ExitFailed(c) ==
  /\ Move(c, "failed", "out")
  /\ conn' = [conn EXCEPT ![c] = NoSession]
  /\ reuse' = [reuse EXCEPT ![c] = FALSE]
  /\ CloseConnection(conn[c])
  /\ UNCHANGED <<settings, pool, closing, process, tainted>>

-----------------------------------------------------------------------------
\* Does not clear the pool.
FaultyTakeAllIdle(x) ==
  /\ closing' = [closing EXCEPT ![x] = {s \in Sessions : Pooled(s)}]
  /\ UNCHANGED pool

\* close_idle_sessions, up to the end of its locked region.
TakeAllIdle(x) ==
  /\ closing' = [closing EXCEPT ![x] = {s \in Sessions : Pooled(s)}]
  /\ pool' = [k \in Keys |-> <<>>]

\* ... and then one close at a time, each error swallowed.
CloseIdle(x, s) ==
  /\ s \in closing[x]
  /\ closing' = [closing EXCEPT ![x] = @ \ {s}]
  /\ CloseConnection(s)
  /\ UNCHANGED <<settings, conn, reuse, phase, pool, process, tainted>>

\* complete_load, once its own statement ran.  dlt completes a package with a
\* client of its own, which runs no load job.
CompleteLoad(c) ==
  /\ Move(c, "in", "completing")
  /\ ~reuse[c]
  /\ TakeAllIdle(c)
  /\ UNCHANGED <<server, connection, settings, conn, reuse, process, tainted>>

\* The main thread ends: no client enters any more, the worker threads finish.
StopLoading ==
  /\ process = "loading"
  /\ process' = "stopping"
  /\ UNCHANGED <<server, connection, settings, conn, reuse, phase, pool,
                 closing, tainted>>

\* The exit handler is not registered.
FaultyRunAtExit ==
  /\ process = "stopping"
  /\ \A c \in Clients : phase[c] = "out"
  /\ process' = "atexit"
  /\ UNCHANGED <<server, connection, settings, conn, reuse, phase, pool,
                 closing, tainted>>

\* The interpreter joins the worker threads before it runs the exit handlers.
RunAtExit ==
  /\ process = "stopping"
  /\ \A c \in Clients : phase[c] = "out"
  /\ process' = "atexit"
  /\ TakeAllIdle(AtExit)
  /\ UNCHANGED <<server, connection, settings, conn, reuse, phase, tainted>>

Exit ==
  /\ process = "atexit"
  /\ closing[AtExit] = {}
  /\ process' = "exited"
  /\ UNCHANGED <<server, connection, settings, conn, reuse, phase, pool,
                 closing, tainted>>

\* The server drops a session: idle or lifetime limit, or its agent went away.
Reap(s) ==
  /\ server[s] = "open"
  /\ server' = [server EXCEPT ![s] = "gone"]
  /\ UNCHANGED <<connection, settings, conn, reuse, phase, pool, closing,
                 process, tainted>>

ClientNext(c) ==
  \/ TakePooled(c) \/ StartConnect(c) \/ ConnectRaises(c)
  \/ \E s \in Sessions : ConnectReturns(c, s)
  \/ Prepare(c) \/ LostReconnect(c) \/ LostRaises(c) \/ Resent(c) \/ CallRaises(c)
  \/ HandBack(c) \/ CloseOwn(c) \/ ExitFailed(c)
  \/ CompleteLoad(c)

Next ==
  \/ \E c \in Clients : ClientNext(c)
  \/ \E x \in Closers, s \in Sessions : CloseIdle(x, s)
  \/ StopLoading \/ RunAtExit \/ Exit
  \/ \E s \in Sessions : Reap(s)

Spec == Init /\ [][Next]_vars

(***************************************************************************)
(* Fairness.  A worker thread that is inside the destination's code gets   *)
(* on with it: every request has a timeout and every retry loop a bound,   *)
(* so a connect returns or raises, and a job ends one way or the other.    *)
(* Nothing obliges a client to enter, the server to drop a session, or the *)
(* main thread to end.                                                     *)
(***************************************************************************)
Proceed(c) ==
  \/ ConnectRaises(c) \/ \E s \in Sessions : ConnectReturns(c, s)
  \/ LostRaises(c) \/ Resent(c)
  \/ HandBack(c) \/ CloseOwn(c) \/ ExitFailed(c)

Fairness ==
  /\ \A c \in Clients : WF_vars(Proceed(c))
  /\ \A x \in Closers : WF_vars(\E s \in Sessions : CloseIdle(x, s))
  /\ WF_vars(RunAtExit)
  /\ WF_vars(Exit)

FairSpec == Spec /\ Fairness

-----------------------------------------------------------------------------
\* A session has one user at a time: at most one client's _conn, or one place
\* in one pool list, or one thread that took it to close it.  This is what the
\* pop and the append under _IDLE_LOCK and the swap in close_connection are for
\* (sql_client.py 226-268, 115-124): two jobs on one session would interleave
\* their statements and delete it under each other.
HeldByOne == \A c, d \in Clients : conn[c] = conn[d] /\ conn[c] # NoSession => c = d

PooledOnce == \A k, l \in Keys : \A i \in 1..Len(pool[k]), j \in 1..Len(pool[l]) :
                 pool[k][i] = pool[l][j] => k = l /\ i = j

HeldNotPooled == \A c \in Clients : ~Pooled(conn[c])

ClosingAlone == \A x \in Closers : \A s \in closing[x] :
                   /\ ~Pooled(s)
                   /\ \A c \in Clients : conn[c] # s
                   /\ \A y \in Closers : s \in closing[y] => x = y

OneUserPerSession == HeldByOne /\ PooledOnce /\ HeldNotPooled /\ ClosingAlone

\* The Connection a client works with, or will get from the pool, is neither
\* closed nor marked dead: the next cursor() or stage_files() passes
\* _ensure_usable.  A reconnect that fails leaves a closed Connection in _conn
\* (sql_client.py 235-243), which must never reach the pool.
Working == {"in", "resending", "completing"}

NoDeadHandle ==
  /\ \A c \in Clients : phase[c] \in Working => /\ conn[c] # NoSession
                                                /\ connection[conn[c]] = "usable"
  /\ \A s \in Sessions : Pooled(s) => connection[s] = "usable"

\* A session on which some client's work failed is never worked on again, by
\* any client (client.py 84-86: "A failed job may have left its session in any
\* state; do not pass it on").
FailedNotPassedOn ==
  \A s \in tainted : /\ ~Pooled(s)
                     /\ \A c \in Clients : conn[c] = s => phase[c] = "failed"

\* A client only ever works on a session opened with its own host, workspace,
\* token, agent and catalog (sql_client.py 108-109), whoever opened it.
OwnSettings == \A c \in Clients : conn[c] # NoSession => settings[conn[c]] = Key[c]

\* A session that is handed on is fit for whoever gets it: nobody failed on it, and
\* it was opened with the settings of the one who works on it.
SessionFits == FailedNotPassedOn /\ OwnSettings

\* When the process is gone it has closed every Connection that connect() ever
\* returned to it: none was dropped by a failed reconnect, a pool list that
\* nobody emptied, or a job that ended after the package was completed.
NothingLeftAtExit ==
  process = "exited" => \A s \in Sessions : connection[s] \in {"none", "closed"}

\* Every session a client takes is given up again, whatever its calls answer.
LeaseEnds == \A c \in Clients, s \in Sessions : conn[c] = s ~> conn[c] # s

-----------------------------------------------------------------------------
\* What the repository says and the code does not do: TLC finds it violated
\* (README.md, Divergences).

\* "Whether the server no longer holds the session" (sql_client.py 98): a 409 says
\* so, and what is marked dead is gone.
LostMeansGone == \A s \in Sessions : connection[s] = "dead" => server[s] # "open"
=============================================================================
