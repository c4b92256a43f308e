------------------------- MODULE StatementLifecycle -------------------------
(***************************************************************************)
(* One DB-API Connection of the SQL connector (connection.py, cursor.py):  *)
(* a worker thread executes statements through the connection's cursors,   *)
(* another thread may call Connection.cancel() at any moment, and the      *)
(* server runs, finishes or loses what it accepted.                        *)
(*                                                                         *)
(* A POST is one attempt; its request or its response may be lost.  A GET  *)
(* or a DELETE is retried by the transport and here either gets through or *)
(* raises (TransportRetry models the attempts).  The server holds the      *)
(* response of a submitted statement until it finishes or the wait it was  *)
(* asked for is over, so a cancel can arrive while the submit is held.     *)
(*                                                                         *)
(* An operator named Faulty... is its neighbour with one plausible bug; no  *)
(* action uses it.  It shows that a property would notice the bug.         *)
(***************************************************************************)
EXTENDS Naturals, FiniteSets

CONSTANTS Cursors,      \* the cursors of the connection
          Statements,   \* bound: the statements the server can accept, numbered
                        \* in the order it accepts them
          None,         \* no statement: _query_id or _result is None
          MaxExecutes,  \* bound: how often execute is called
          MaxPolls      \* the polls that fit before the deadline of execute

ASSUME StatementsAssumption == Statements \subseteq Nat
ASSUME NoneAssumption == None \notin Statements
ASSUME BoundsAssumption == MaxExecutes \in Nat \ {0} /\ MaxPolls \in Nat \ {0}

VARIABLES
  \* the server
  session,   \* "open" | "gone"
  status,    \* [Statements -> "none" | "pending" | "done" | "failed" | "cancelled"]
  call,      \* [Statements -> 0..MaxExecutes]: the execute that submitted it
  \* the connection and its cursors
  live,      \* the cursors that are not closed
  closed,    \* Connection._closed
  dead,      \* Connection._dead
  queryId,   \* [Cursors -> Statements \cup {None}]: Cursor._query_id
  result,    \* [Cursors -> Statements \cup {None}]: whose rows _result serves
  \* the worker thread
  pc,        \* "idle" | "posting" | "held" | "following"
  cursor,    \* the cursor in execute, or of the last one
  stmt,      \* the statement execute follows
  seen,      \* the status in the last response
  polls,     \* polls made since the submit was answered
  executes,  \* bound counter: calls of execute so far
  outcome,   \* how the last execute ended: "none" | "returned" | "raised"
  \* the thread in Connection.cancel()
  cancelPc,  \* "idle" | "cancelling" | "done"
  todo,      \* the cursors it has not looked at
  target,    \* history: the statement in flight when cancel was called ...
  recorded,  \* ... and whether its id was in _query_id by then
  \* history
  lost,      \* statements that a request or response failed to reach or show
  unreleased \* an open session was refused with a 409, or its DELETE was lost

server == <<session, status, call>>
connection == <<live, closed, dead>>
rows == <<queryId, result>>
worker == <<pc, cursor, stmt, seen, polls, executes, outcome>>
canceller == <<cancelPc, todo, target, recorded>>
history == <<lost, unreleased>>
vars == <<server, connection, rows, worker, canceller, history>>

Statuses == {"none", "pending", "done", "failed", "cancelled"}

TypeOK ==
  /\ session \in {"open", "gone"}
  /\ status \in [Statements -> Statuses]
  /\ call \in [Statements -> 0..MaxExecutes]
  /\ live \in SUBSET Cursors
  /\ closed \in BOOLEAN /\ dead \in BOOLEAN
  /\ queryId \in [Cursors -> Statements \cup {None}]
  /\ result \in [Cursors -> Statements \cup {None}]
  /\ pc \in {"idle", "posting", "held", "following"}
  /\ cursor \in Cursors
  /\ stmt \in Statements \cup {None}
  /\ seen \in Statuses
  /\ polls \in 0..MaxPolls
  /\ executes \in 0..MaxExecutes
  /\ outcome \in {"none", "returned", "raised"}
  /\ cancelPc \in {"idle", "cancelling", "done"}
  /\ todo \in SUBSET Cursors
  /\ target \in Statements \cup {None}
  /\ recorded \in BOOLEAN
  /\ lost \in SUBSET Statements
  /\ unreleased \in BOOLEAN

Init ==
  /\ session = "open"
  /\ status = [q \in Statements |-> "none"]
  /\ call = [q \in Statements |-> 0]
  /\ live = Cursors /\ closed = FALSE /\ dead = FALSE
  /\ queryId = [u \in Cursors |-> None]
  /\ result = [u \in Cursors |-> None]
  /\ pc = "idle" /\ cursor \in Cursors /\ stmt = None /\ seen = "none"
  /\ polls = 0 /\ executes = 0 /\ outcome = "none"
  /\ cancelPc = "idle" /\ todo = {} /\ target = None /\ recorded = FALSE
  /\ lost = {} /\ unreleased = FALSE

-----------------------------------------------------------------------------
\* What the server makes of a statement it is asked to cancel: a finished one
\* stays as it is.
Cancelled(q) == [status EXCEPT ![q] = IF @ = "pending" THEN "cancelled" ELSE @]

\* A best-effort DELETE of a statement: delivered, or lost and swallowed.
TryCancel(q) ==
  \/ status' = Cancelled(q) /\ UNCHANGED lost
  \/ lost' = lost \cup {q} /\ UNCHANGED status

\* _ensure_open and _ensure_usable.
Usable(u) == u \in live /\ ~closed /\ ~dead

\* execute is over; what it kept of the statement goes with it.
Leave == pc' = "idle" /\ seen' = "none" /\ polls' = 0
Raise == Leave /\ outcome' = "raised" /\ stmt' = None

\* execute of a cursor submits the statement: one POST, whatever happens to it.
Execute(u) ==
  /\ pc = "idle" /\ Usable(u) /\ executes < MaxExecutes
  /\ pc' = "posting" /\ cursor' = u /\ executes' = executes + 1
  /\ stmt' = None /\ seen' = "none" /\ polls' = 0 /\ outcome' = "none"
  /\ UNCHANGED <<server, connection, rows, canceller, history>>

\* BEGIN, COMMIT or ROLLBACK, which submit nothing, and the catalog listings,
\* whose rows the client assembles: no statement stands behind the rows.
ExecuteLocally(u) ==
  /\ pc = "idle" /\ Usable(u)
  /\ queryId' = [queryId EXCEPT ![u] = None]
  /\ result' = [result EXCEPT ![u] = None]
  /\ cursor' = u /\ stmt' = None /\ outcome' = "returned"
  /\ UNCHANGED <<server, connection, pc, seen, polls, executes, canceller, history>>

\* The server accepts the POST and holds the response.
Accept(q) ==
  /\ pc = "posting" /\ session = "open"
  /\ \A r \in Statements : status[r] = "none" <=> q <= r
  /\ status' = [status EXCEPT ![q] = "pending"]
  /\ call' = [call EXCEPT ![q] = executes]
  /\ pc' = "held" /\ stmt' = q
  /\ UNCHANGED <<session, connection, rows, cursor, seen, polls, executes,
                 outcome, canceller, history>>

\* 409: the session is gone, or the server refuses the statement for another
\* conflict (catalog_read_only, runtime_retired).  Either way the connection
\* is marked dead.
RefuseConflict ==
  /\ pc = "posting"
  /\ dead' = TRUE
  /\ unreleased' = (unreleased \/ session = "open")
  /\ Raise
  /\ UNCHANGED <<server, live, closed, rows, cursor, executes,
                 canceller, lost>>

\* Any other refusal, or a request that never reached the server.
RefuseOther ==
  /\ pc = "posting"
  /\ Raise
  /\ UNCHANGED <<server, connection, rows, cursor, executes,
                 canceller, history>>

\* The response of the POST never arrives: execute raises without an id.
AnswerLost ==
  /\ pc = "held"
  /\ lost' = lost \cup {stmt}
  /\ Raise
  /\ UNCHANGED <<server, connection, rows, cursor, executes,
                 canceller, unreleased>>

\* execute assigns _result as soon as it has an id.
FaultyAnswer ==
  /\ pc = "held"
  /\ pc' = "following"
  /\ queryId' = [queryId EXCEPT ![cursor] = stmt]
  /\ result' = [result EXCEPT ![cursor] = stmt]
  /\ seen' = status[stmt]
  /\ UNCHANGED <<server, connection, cursor, stmt, polls, executes, outcome,
                 canceller, history>>

\* The submit is answered, with the status the statement has by then.
Answer ==
  /\ pc = "held"
  /\ pc' = "following"
  /\ queryId' = [queryId EXCEPT ![cursor] = stmt]
  /\ seen' = status[stmt]
  /\ UNCHANGED <<server, connection, result, cursor, stmt, polls, executes,
                 outcome, canceller, history>>

\* The deadline is computed anew in every round of the loop.
FaultyPoll ==
  /\ pc = "following" /\ seen = "pending" /\ polls < MaxPolls
  /\ polls' = IF polls + 1 = MaxPolls THEN 0 ELSE polls + 1
  /\ seen' = status[stmt]
  /\ UNCHANGED <<server, connection, rows, pc, cursor, stmt, executes, outcome,
                 canceller, history>>

\* _poll_to_completion: sleep, then one GET.
Poll ==
  /\ pc = "following" /\ seen = "pending" /\ polls < MaxPolls
  /\ polls' = polls + 1
  /\ seen' = status[stmt]
  /\ UNCHANGED <<server, connection, rows, pc, cursor, stmt, executes, outcome,
                 canceller, history>>

\* The GET raises: the statement goes on, and nothing cancels it.
PollRaises ==
  /\ pc = "following" /\ seen = "pending" /\ polls < MaxPolls
  /\ lost' = lost \cup {stmt}
  /\ Raise
  /\ UNCHANGED <<server, connection, rows, cursor, executes,
                 canceller, unreleased>>

\* Gives up without the DELETE.
FaultyTimeUp ==
  /\ pc = "following" /\ seen = "pending" /\ polls > 0
  /\ Raise
  /\ UNCHANGED <<server, connection, rows, cursor, executes,
                 canceller, history>>

\* The deadline has passed before the next GET: cancel, then raise.
TimeUp ==
  /\ pc = "following" /\ seen = "pending" /\ polls > 0
  /\ TryCancel(stmt)
  /\ Raise
  /\ UNCHANGED <<session, call, connection, rows, cursor, executes, canceller, unreleased>>

\* A terminal status other than done.
StatementFailed ==
  /\ pc = "following" /\ seen \in {"failed", "cancelled"}
  /\ Raise
  /\ UNCHANGED <<server, connection, rows, cursor, executes,
                 canceller, history>>

\* done: _result is replaced, then its first page is read, which may raise.
Return ==
  /\ pc = "following" /\ seen = "done"
  /\ result' = [result EXCEPT ![cursor] = stmt]
  /\ \/ Leave /\ outcome' = "returned" /\ UNCHANGED stmt
     \/ Raise
  /\ UNCHANGED <<server, connection, queryId, cursor, executes,
                 canceller, history>>

\* Cursor.close forgets the rows, not the id.
CloseCursor(u) ==
  /\ pc = "idle" /\ u \in live
  /\ live' = live \ {u}
  /\ result' = [result EXCEPT ![u] = None]
  /\ UNCHANGED <<server, closed, dead, queryId, worker, canceller, history>>

\* Connection.close: once, with a DELETE unless the connection is dead.
Close ==
  /\ pc = "idle" /\ ~closed
  /\ closed' = TRUE
  /\ \/ dead /\ UNCHANGED <<session, unreleased>>
     \/ ~dead /\ session' = "gone" /\ UNCHANGED unreleased
     \/ ~dead /\ unreleased' = TRUE /\ UNCHANGED session
  /\ UNCHANGED <<status, call, live, dead, rows, worker, canceller, lost>>

-----------------------------------------------------------------------------
\* Connection.cancel, from another thread: every cursor it knows, one by one.
BeginCancel ==
  /\ cancelPc = "idle"
  /\ cancelPc' = "cancelling" /\ todo' = Cursors
  /\ target' = IF pc \in {"held", "following"} /\ status[stmt] = "pending"
                 THEN stmt ELSE None
  /\ recorded' = (pc = "following")
  /\ UNCHANGED <<server, connection, rows, worker, history>>

\* Looks at the cursor that executed last only.
FaultyCancelCursor(u) ==
  /\ cancelPc = "cancelling" /\ u \in todo
  /\ todo' = {}
  /\ IF queryId[u] = None THEN UNCHANGED <<status, lost>> ELSE TryCancel(queryId[u])
  /\ UNCHANGED <<session, call, connection, rows, worker, cancelPc, target, recorded, unreleased>>

CancelCursor(u) ==
  /\ cancelPc = "cancelling" /\ u \in todo
  /\ todo' = todo \ {u}
  /\ IF queryId[u] = None THEN UNCHANGED <<status, lost>> ELSE TryCancel(queryId[u])
  /\ UNCHANGED <<session, call, connection, rows, worker, cancelPc, target, recorded, unreleased>>

EndCancel ==
  /\ cancelPc = "cancelling" /\ todo = {}
  /\ cancelPc' = "done"
  /\ UNCHANGED <<server, connection, rows, worker, todo, target, recorded, history>>

-----------------------------------------------------------------------------
\* The server finishes a statement, or drops the session.
Finish(q) ==
  /\ status[q] = "pending"
  /\ \E end \in {"done", "failed"} : status' = [status EXCEPT ![q] = end]
  /\ UNCHANGED <<session, call, connection, rows, worker, canceller, history>>

Reap ==
  /\ session = "open"
  /\ session' = "gone"
  /\ UNCHANGED <<status, call, connection, rows, worker, canceller, history>>

WorkerStep ==
  \/ \E q \in Statements : Accept(q)
  \/ RefuseConflict \/ RefuseOther \/ AnswerLost \/ Answer
  \/ Poll \/ PollRaises \/ TimeUp \/ StatementFailed \/ Return

CancelStep == (\E u \in Cursors : CancelCursor(u)) \/ EndCancel

Next ==
  \/ \E u \in Cursors : Execute(u) \/ ExecuteLocally(u) \/ CloseCursor(u)
  \/ WorkerStep
  \/ Close
  \/ BeginCancel
  \/ CancelStep
  \/ \E q \in Statements : Finish(q)
  \/ Reap

Spec == Init /\ [][Next]_vars

\* Both threads go on: each request ends within http_timeout, each sleep within
\* its interval, and the deadline passes.  The server owes nothing: it may let
\* a statement run for ever.
FairSpec == Spec /\ WF_vars(WorkerStep) /\ WF_vars(CancelStep)

-----------------------------------------------------------------------------
\* No cursor serves rows of a statement that did not finish, and when execute
\* has returned they are those of its own statement, although that may have been
\* cancelled from the other thread at any moment before.  Rows of an earlier
\* statement stay when execute raises (cursor.py 160-209).
RowsAreFinished ==
  /\ \A u \in Cursors : result[u] # None => status[result[u]] = "done"
  /\ pc = "idle" /\ outcome = "returned" /\ stmt # None =>
        /\ status[stmt] = "done"
        /\ queryId[cursor] = stmt
        /\ cursor \in live => result[cursor] = stmt

\* While no execute is running, the only statements still running on the server
\* are those whose submit, poll or cancel a network failure hid: execute never
\* walks away from a running statement otherwise (cursor.py 253-273).
NoSilentOrphan ==
  pc = "idle" => \A q \in Statements : status[q] = "pending" => q \in lost

\* After close() the server no longer holds the session, unless the DELETE was
\* lost or a 409 of another kind had marked an open session's connection dead
\* (connection.py 314-322; cursor.py 154-158).
CloseReleases == closed /\ session = "open" => unreleased

\* A cancel that finds the statement's id recorded stops the statement, however
\* the worker goes on meanwhile (cursor.py 161-164, connection.py 226-235).
CancelStopsRecorded ==
  cancelPc = "done" /\ target # None /\ recorded /\ target \notin lost
     => status[target] # "pending"

\* execute always comes back, even if the server never finishes the statement:
\* the poll loop has a deadline (cursor.py 248-256).
ExecuteEnds == pc # "idle" ~> pc = "idle"

-----------------------------------------------------------------------------
\* What the repository says and the code does not do: TLC finds each of these
\* violated (README.md, Divergences).

\* "Statements run serially per session, so at most one cursor has a live
\* statement; cancelling each known cursor covers it" (connection.py 231-232).
CancelCoversInFlight ==
  cancelPc = "done" /\ target # None /\ target \notin lost => status[target] # "pending"
=============================================================================
