---------------------------- MODULE SessionOpen ----------------------------
(***************************************************************************)
(* Connection.open of the SQL connector (connection.py): one POST opens a   *)
(* session; on elastic compute the server may say that compute is starting  *)
(* (503), in which case the POST is made again, or hand back a session that *)
(* is not open yet (202), which is then polled.  With a default schema the  *)
(* new connection first runs USE.                                           *)
(*                                                                         *)
(* Time counts seconds of the client's clock.  A request takes at least a   *)
(* second and at most HttpTimeout; a GET may take longer than one request   *)
(* since the transport retries it, GetTime in all.  The server holds the    *)
(* POST as long as it was asked to, and the socket deadline HttpTimeout may  *)
(* come first.                                                              *)
(*                                                                         *)
(* An operator named Faulty... is its neighbour with one plausible bug; no  *)
(* action uses it.  It shows that a property would notice the bug.         *)
(***************************************************************************)
EXTENDS Naturals, FiniteSets

CONSTANTS Ids,            \* bound: the sessions the server can create
          NoId,           \* no session yet
          ComputeWait,    \* ClientConfig.compute_wait
          HttpTimeout,    \* ClientConfig.http_timeout
          OpenWait,       \* _OPEN_WAIT_TIMEOUT_S: how long the POST may be held
          PollStart,      \* _SESSION_POLL_START
          PollMax,        \* _SESSION_POLL_MAX
          RetryDelays,    \* Retry-After of a 503, or _COMPUTE_RETRY_DELAY_S
          GetTime         \* bound: the longest a GET takes, its retries included

ASSUME NoIdAssumption == NoId \notin Ids
ASSUME TimesAssumption ==
  /\ {ComputeWait, HttpTimeout, OpenWait, PollStart, PollMax, GetTime} \subseteq Nat
  /\ RetryDelays \subseteq Nat
  /\ HttpTimeout > 0 /\ OpenWait > 0 /\ GetTime > 0
  /\ 0 < PollStart /\ PollStart <= PollMax

VARIABLES
  rows,      \* [Ids -> RowStatus]: the server's sessions
  pc,        \* "post" | "decide" | "get" | "use" | "returned" | "raised"
  id,        \* the session the client was handed
  seen,      \* the status in the last response
  delay,     \* the poll delay
  now,       \* the client's clock
  error,     \* why it raised
  timeUp     \* history: it raised because the budget did not allow a wait

vars == <<rows, pc, id, seen, delay, now, error, timeUp>>

NotReady == {"pending", "opening"}
RowStatus == {"none", "open", "failed", "gone"} \cup NotReady

\* A session somebody has to close, or the server has to reap.
Live(s) == rows[s] \in NotReady \cup {"open"}

Errors == {"none",       \* no error
           "refused",    \* the POST was refused, no session was created
           "starting",   \* compute_starting, OperationalError
           "budget",     \* MaxRetryDurationError
           "terminal",   \* the session will never open
           "lost",       \* the response of the POST never came
           "aborted",    \* the socket deadline passed while the POST was held
           "get",        \* a poll raised
           "use"}        \* USE failed, or its submit did

TypeOK ==
  /\ rows \in [Ids -> RowStatus]
  /\ pc \in {"post", "decide", "get", "use", "returned", "raised"}
  /\ id \in Ids \cup {NoId}
  /\ seen \in RowStatus
  /\ delay \in PollStart..PollMax
  /\ now \in Nat
  /\ error \in Errors
  /\ timeUp \in BOOLEAN

Init ==
  /\ rows = [s \in Ids |-> "none"]
  /\ pc = "post" /\ id = NoId /\ seen = "none" /\ delay = PollStart /\ now = 0
  /\ error = "none" /\ timeUp = FALSE

-----------------------------------------------------------------------------
Raise(e) == pc' = "raised" /\ error' = e

\* Each request takes t seconds.

\* The POST creates a session and answers before either deadline: open (201),
\* or handed back while compute starts (202).
Opened(s, t) ==
  /\ pc = "post" /\ rows[s] = "none"
  /\ \E status \in NotReady \cup {"open", "failed"} :
       /\ rows' = [rows EXCEPT ![s] = status]
       /\ seen' = status
  /\ id' = s
  /\ pc' = "decide"
  /\ now' = now + t
  /\ UNCHANGED <<delay, error, timeUp>>

\* Refused for good, without a session: any error but compute_starting.
Refused(t) ==
  /\ pc = "post"
  /\ Raise("refused")
  /\ now' = now + t
  /\ UNCHANGED <<rows, id, seen, delay, timeUp>>

\* The response is lost, and the session is there or is not.
Lost(s, t) ==
  /\ pc = "post" /\ rows[s] = "none"
  /\ \E status \in {"none", "pending", "open"} : rows' = [rows EXCEPT ![s] = status]
  /\ Raise("lost")
  /\ now' = now + t
  /\ UNCHANGED <<id, seen, delay, timeUp>>

\* The server holds the POST for longer than the socket waits.
Aborted(s) ==
  /\ pc = "post" /\ rows[s] = "none"
  /\ HttpTimeout < OpenWait
  /\ \E status \in {"pending", "open"} : rows' = [rows EXCEPT ![s] = status]
  /\ Raise("aborted")
  /\ now' = now + HttpTimeout
  /\ UNCHANGED <<id, seen, delay, timeUp>>

\* The wait is not added in.
FaultyStarting(t) ==
  /\ pc = "post"
  /\ \E d \in RetryDelays :
       IF now + t > ComputeWait
         THEN Raise("starting") /\ timeUp' = TRUE /\ now' = now + t
         ELSE now' = now + t + d /\ UNCHANGED <<pc, error, timeUp>>
  /\ UNCHANGED <<rows, id, seen, delay>>

\* compute_starting: the server keeps the compute, not the request.  The POST is
\* made again after a wait, if the wait ends within the budget.
Starting(t) ==
  /\ pc = "post"
  /\ \E d \in RetryDelays :
       IF now + t + d > ComputeWait
         THEN Raise("starting") /\ timeUp' = TRUE /\ now' = now + t
         ELSE now' = now + t + d /\ UNCHANGED <<pc, error, timeUp>>
  /\ UNCHANGED <<rows, id, seen, delay>>

-----------------------------------------------------------------------------
\* _await_open: what the last response says.

\* Anything but a failure is as good as open.
FaultyIsOpen ==
  /\ pc = "decide" /\ seen # "failed"
  /\ pc' \in {"use", "returned"}
  /\ UNCHANGED <<rows, id, seen, delay, now, error, timeUp>>

\* A default schema is configured, or is not.
IsOpen ==
  /\ pc = "decide" /\ seen = "open"
  /\ pc' \in {"use", "returned"}
  /\ UNCHANGED <<rows, id, seen, delay, now, error, timeUp>>

\* Only pending sessions are waited for.
FaultyIsTerminal ==
  /\ pc = "decide" /\ seen \notin {"pending", "open"}
  /\ Raise("terminal")
  /\ UNCHANGED <<rows, id, seen, delay, now, timeUp>>

\* It will never open.
IsTerminal ==
  /\ pc = "decide" /\ seen \notin NotReady \cup {"open"}
  /\ Raise("terminal")
  /\ UNCHANGED <<rows, id, seen, delay, now, timeUp>>

\* Sleeps before the next poll, unless the sleep would end after the deadline.
Wait ==
  /\ pc = "decide" /\ seen \in NotReady
  /\ IF now + delay > ComputeWait
       THEN Raise("budget") /\ timeUp' = TRUE /\ UNCHANGED <<now, delay>>
       ELSE /\ pc' = "get" /\ now' = now + delay
            /\ delay' = IF delay * 2 < PollMax THEN delay * 2 ELSE PollMax
            /\ UNCHANGED <<error, timeUp>>
  /\ UNCHANGED <<rows, id, seen>>

Get(t) ==
  /\ pc = "get"
  /\ seen' = rows[id]
  /\ pc' = "decide"
  /\ now' = now + t
  /\ UNCHANGED <<rows, id, delay, error, timeUp>>

\* The poll raises, its retries included.
GetRaises(t) ==
  /\ pc = "get"
  /\ Raise("get")
  /\ now' = now + t
  /\ UNCHANGED <<rows, id, seen, delay, timeUp>>

\* _apply_defaults: a statement of its own, with the statement's own deadline.
Use ==
  /\ pc = "use"
  /\ \/ pc' = "returned" /\ rows[id] = "open" /\ UNCHANGED error
     \/ Raise("use")
  /\ UNCHANGED <<rows, id, seen, delay, now, timeUp>>

-----------------------------------------------------------------------------
\* The server moves a session on: it starts, opens or fails, and is reaped.
Progress(s) ==
  /\ \/ rows[s] = "pending" /\ \E n \in {"opening", "failed"} : rows' = [rows EXCEPT ![s] = n]
     \/ rows[s] = "opening" /\ \E n \in {"open", "failed"} : rows' = [rows EXCEPT ![s] = n]
     \/ rows[s] = "open" /\ rows' = [rows EXCEPT ![s] = "gone"]
  /\ UNCHANGED <<pc, id, seen, delay, now, error, timeUp>>

OpenStep ==
  \/ \E s \in Ids : Aborted(s) \/ \E t \in 1..HttpTimeout : Opened(s, t) \/ Lost(s, t)
  \/ \E t \in 1..HttpTimeout : Refused(t) \/ Starting(t)
  \/ \E t \in 1..GetTime : Get(t) \/ GetRaises(t)
  \/ IsOpen \/ IsTerminal \/ Wait \/ Use

Next == OpenStep \/ \E s \in Ids : Progress(s)

Spec == Init /\ [][Next]_vars

-----------------------------------------------------------------------------
\* The connection that is returned runs on a session that the server has opened,
\* and no other session is left behind (connection.py 116-131, 183-205).
ReturnedIsOpen ==
  pc = "returned" => /\ id # NoId /\ rows[id] \in {"open", "gone"}
                     /\ \A s \in Ids : Live(s) => s = id

\* A connect that fails because the server said so leaves no live session; only
\* a lost response, an exhausted budget, a failed poll or a failed USE do.
RefusedLeavesNothing ==
  pc = "raised" /\ error \in {"refused", "starting", "terminal"}
     => \A s \in Ids : ~Live(s)

\* connect() is over, but for USE, once compute_wait and one request more have
\* passed: no sleep ends after the deadline (connection.py 157, 176, 211).
WaitBounded == now <= ComputeWait + (IF GetTime > HttpTimeout THEN GetTime ELSE HttpTimeout)

-----------------------------------------------------------------------------
\* What the repository says and the code does not do: TLC finds each of these
\* violated (README.md, Divergences).

\* "A block longer than http_timeout would abort the request socket-side while
\* the server went on to open the session - orphaning one nobody holds. Bounding
\* it here removes that entirely" (connection.py 29-31).
HoldNotAborted == error # "aborted"

\* "Exhausting the budget raises MaxRetryDurationError" (README.md of the
\* connector, 110).
BudgetRaisesItsError == timeUp => error = "budget"
=============================================================================
