--------------------------- MODULE TransportRetry ---------------------------
(***************************************************************************)
(* One call of Transport.request (client.py of the SQL connector): a GET or *)
(* a DELETE is sent again after a transport error or a retryable status, a *)
(* POST is not, within a count of retries and a budget of time.            *)
(*                                                                         *)
(* A request, or its response, may be lost.  Time passes while a request   *)
(* is out, at most RequestTime (http_timeout), and while the call sleeps.  *)
(*                                                                         *)
(* An operator named Faulty... is its neighbour with one plausible bug; no  *)
(* action uses it.  It shows that a property would notice the bug.         *)
(***************************************************************************)
EXTENDS TransportPolicy

VARIABLES
  method,   \* "GET" | "DELETE" | "POST"
  pc,       \* "sending" | "answered" | "sleeping" | "returned" | "raised"
  answer,   \* "none" | "ok" | "retryable" | "refused" | "error": the attempt's
            \* response, by its status, or a transport error
  attempt,  \* retries made
  delay,    \* what the call sleeps next
  now,      \* time since the call began
  error,    \* why it raised: "none" | "budget" | "answer"
  sent,     \* history: requests that left, counted up to SentCap
  effects   \* history: requests the server carried out

vars == <<method, pc, answer, attempt, delay, now, error, sent, effects>>

Methods == {"GET", "DELETE", "POST"}
Idempotent == {"GET", "DELETE"}
Answers == {"ok", "retryable", "refused", "error"}
Ended == {"returned", "raised"}

\* Bound: requests are counted one past what a call may send.
SentCap == MaxRetries + 2

TypeOK ==
  /\ method \in Methods
  /\ pc \in {"sending", "answered", "sleeping"} \cup Ended
  /\ answer \in Answers \cup {"none"}
  /\ attempt \in 0..MaxRetries
  /\ delay \in Nat /\ now \in Nat
  /\ error \in {"none", "budget", "answer"}
  /\ sent \in 0..SentCap /\ effects \in 0..sent

Init ==
  /\ method \in Methods
  /\ pc = "sending" /\ answer = "none" /\ error = "none"
  /\ attempt = 0 /\ delay = 0 /\ now = 0 /\ sent = 0 /\ effects = 0

-----------------------------------------------------------------------------
\* The longest backoff before retry n: 2 ** n steps of the base, capped.
Ceiling(n) == IF BackoffBase * 2^n < BackoffMax THEN BackoffBase * 2^n ELSE BackoffMax

Count(n) == IF n < SentCap THEN n + 1 ELSE n

\* One attempt.  A 2xx tells that the server carried the request out; a transport
\* error, or an error status of a gateway in front of it, tells nothing.
Send ==
  /\ pc = "sending"
  /\ pc' = "answered" /\ answer' \in Answers
  /\ sent' = Count(sent)
  /\ effects' \in {Count(effects)} \cup IF answer' = "ok" THEN {} ELSE {effects}
  /\ \E t \in 0..RequestTime : now' = now + t
  /\ UNCHANGED <<method, attempt, delay, error>>

Retries ==
  /\ method \in Idempotent
  /\ answer \in {"retryable", "error"}
  /\ attempt < MaxRetries

\* The delay of the next retry: backoff with full jitter, or the Retry-After of
\* the response in its place.
Delays ==
  0..Ceiling(attempt) \cup IF answer = "retryable" THEN RetryAfters ELSE {}

\* The delay is not part of the test.
FaultyPlanRetry ==
  /\ pc = "answered" /\ Retries
  /\ delay' \in Delays
  /\ IF now > MaxElapsed
       THEN pc' = "raised" /\ error' = "budget"
       ELSE pc' = "sleeping" /\ UNCHANGED error
  /\ UNCHANGED <<method, answer, attempt, now, sent, effects>>

\* _sleep_before_retry, up to its sleep: a retry that would start after the
\* deadline is given up.
PlanRetry ==
  /\ pc = "answered" /\ Retries
  /\ delay' \in Delays
  /\ IF now + delay' > MaxElapsed
       THEN pc' = "raised" /\ error' = "budget"
       ELSE pc' = "sleeping" /\ UNCHANGED error
  /\ UNCHANGED <<method, answer, attempt, now, sent, effects>>

Wake ==
  /\ pc = "sleeping"
  /\ now' = now + delay
  /\ attempt' = attempt + 1
  /\ pc' = "sending" /\ answer' = "none"
  /\ UNCHANGED <<method, delay, error, sent, effects>>

\* The response is returned, or raised as map_http_error, map_transport_error
\* translate it.
Finish ==
  /\ pc = "answered" /\ ~Retries
  /\ IF answer = "ok"
       THEN pc' = "returned" /\ UNCHANGED error
       ELSE pc' = "raised" /\ error' = "answer"
  /\ UNCHANGED <<method, answer, attempt, delay, now, sent, effects>>

Next == Send \/ PlanRetry \/ Wake \/ Finish

Spec == Init /\ [][Next]_vars

-----------------------------------------------------------------------------
\* A submit is carried out at most once by one call, whatever is lost: the
\* caller that gets an exception may submit again, this loop does not
\* (client.py 26, 114, 130, 142; README.md of the connector, 94).
PostOnce == method = "POST" => effects <= 1 /\ sent <= 1

\* However the responses turn out, a call sends at most 1 + max_retries requests.
SentBounded == sent <= MaxRetries + 1

\* A call lasts at most the budget and one request more: "exceeding it raises
\* MaxRetryDurationError rather than sleeping past it (e.g. on a large
\* Retry-After)" (config.py 25-26, client.py 159-168).
EndsInTime == now <= MaxElapsed + RequestTime

\* What the caller takes for done is done on the server, whichever attempt did it
\* (client.py 121-157).
ReturnedIsCarriedOut == pc = "returned" => effects >= 1 /\ answer = "ok"

\* A call gives up on a GET or DELETE that could still succeed only when its
\* retries or its budget are used up (client.py 130, 142-146, 163).
GivesUpLate ==
  pc = "raised" /\ method \in Idempotent /\ answer # "refused"
     => attempt = MaxRetries \/ (error = "budget" /\ now + delay > MaxElapsed)
=============================================================================
