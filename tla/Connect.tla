------------------------------ MODULE Connect ------------------------------
(***************************************************************************)
(* connect() and close() of the SQL connector over its transport: each      *)
(* request of SessionOpen, and the DELETE of close(), is one call of        *)
(* TransportRetry, which takes the time its attempts and its sleeps take    *)
(* and which may be carried out although it raises.                        *)
(*                                                                         *)
(* SessionOpen assumes that a poll takes at most GetTime; here GetTime is    *)
(* what the retry loop allows.                                             *)
(***************************************************************************)
EXTENDS SessionOpen, TransportPolicy

ASSUME GetTimeAssumption ==
  RequestTime = HttpTimeout /\ GetTime = MaxElapsed + RequestTime

VARIABLES
  call,     \* the state of the call under way, or "idle"
  method, answer, attempt, pause, took, why, sent, effects,
  closing   \* "open" | "deleting" | "closed" | "failed": Connection.close

callVars == <<call, method, answer, attempt, pause, took, why, sent, effects>>
connectVars == <<vars, callVars, closing>>

T == INSTANCE TransportRetry WITH pc <- call, delay <- pause, now <- took, error <- why

\* The transport's state at the start of a call.
Fresh(c, m) ==
  /\ call' = c /\ method' = m /\ answer' = "none" /\ attempt' = 0
  /\ pause' = 0 /\ took' = 0 /\ why' = "none" /\ sent' = 0 /\ effects' = 0

HangUp == Fresh("idle", "GET")

ConnectInit ==
  /\ Init
  /\ call = "idle" /\ method = "GET" /\ answer = "none" /\ attempt = 0
  /\ pause = 0 /\ took = 0 /\ why = "none" /\ sent = 0 /\ effects = 0
  /\ closing = "open"

-----------------------------------------------------------------------------
\* Transport.post and Transport.get, as _open_session and _await_open call them.
BeginOpen ==
  /\ call = "idle"
  /\ \/ pc = "post" /\ Fresh("sending", "POST")
     \/ pc = "get" /\ Fresh("sending", "GET")
  /\ UNCHANGED <<vars, closing>>

\* An attempt takes some time; the DELETE that arrives ends the session.
Attempt ==
  /\ T!Send
  /\ took' > took
  /\ rows' = IF method = "DELETE" /\ effects' > effects
               THEN [rows EXCEPT ![id] = "gone"] ELSE rows
  /\ UNCHANGED <<pc, id, seen, delay, now, error, timeUp, closing>>

Retry ==
  /\ T!PlanRetry \/ T!Wake \/ T!Finish
  /\ UNCHANGED <<vars, closing>>

\* The POST answers with the session it made.
PostReturns ==
  /\ call = "returned" /\ method = "POST"
  /\ \E s \in Ids : Opened(s, took)
  /\ HangUp /\ UNCHANGED closing

\* The POST raises, and no session was made.  A 503 may say that compute starts.
PostRefused ==
  /\ call = "raised" /\ method = "POST" /\ effects = 0
  /\ \/ answer # "error" /\ Refused(took)
     \/ answer = "retryable" /\ Starting(took)
  /\ HangUp /\ UNCHANGED closing

\* The POST raises, and nothing tells whether a session was made.
PostLost ==
  /\ call = "raised" /\ method = "POST"
  /\ \E s \in Ids :
       /\ \/ Lost(s, took)
          \/ answer = "error" /\ took = HttpTimeout /\ Aborted(s)
       /\ rows'[s] # "none" <=> effects > 0
       /\ answer = "error" \/ effects > 0
  /\ HangUp /\ UNCHANGED closing

GetReturns ==
  /\ call = "returned" /\ method = "GET"
  /\ Get(took)
  /\ HangUp /\ UNCHANGED closing

GetFails ==
  /\ call = "raised" /\ method = "GET"
  /\ GetRaises(took)
  /\ HangUp /\ UNCHANGED closing

\* What the connect does between two requests.
Decide ==
  /\ call = "idle"
  /\ IsOpen \/ IsTerminal \/ Wait \/ Use
  /\ UNCHANGED <<callVars, closing>>

-----------------------------------------------------------------------------
\* Connection.close: once, with a DELETE.
Close ==
  /\ pc = "returned" /\ closing = "open"
  /\ closing' = "deleting" /\ Fresh("sending", "DELETE")
  /\ UNCHANGED vars

\* Its error is the caller's, and the connection is closed all the same.
Closed ==
  /\ closing = "deleting" /\ call \in {"returned", "raised"}
  /\ closing' = (IF call = "returned" THEN "closed" ELSE "failed")
  /\ HangUp /\ UNCHANGED vars

ServerStep == (\E s \in Ids : Progress(s)) /\ UNCHANGED <<callVars, closing>>

ConnectStep ==
  \/ BeginOpen \/ Attempt \/ Retry
  \/ PostReturns \/ PostRefused \/ PostLost \/ GetReturns \/ GetFails
  \/ Decide \/ Close \/ Closed

ConnectNext == ConnectStep \/ ServerStep

ConnectSpec == ConnectInit /\ [][ConnectNext]_connectVars

-----------------------------------------------------------------------------
\* close() that raises nothing has ended the session on the server, whichever of
\* its attempts did (connection.py 314-322, client.py 121-157).
ClosedIsGone == closing = "closed" => rows[id] = "gone"

\* Neither a connect that the server refused nor a close() that raised nothing leaves
\* a session.
NoSessionLeft == RefusedLeavesNothing /\ ClosedIsGone

\* Over the real retry loop, connect() still is the one of SessionOpen: a poll
\* takes at most max_elapsed and one request more (connection.py 216, client.py
\* 159-168).
OpensAsSpecified == Spec
=============================================================================
