---------------------------- MODULE QueryCommand ----------------------------
(***************************************************************************)
(* `dh sql` with a query given: the one-shot path of the command line tool  *)
(* (execute.py, commands/query.py).  The SQL is submitted, the query polled *)
(* to a terminal status, cancelled on Ctrl-C or when the budget is over,    *)
(* and its rows fetched page by page.  The client retries no request.       *)
(*                                                                         *)
(* Time counts from the start of wait().  A request takes what the server   *)
(* was asked to hold it for, at most, and Latency more.                     *)
(*                                                                         *)
(* An operator named Faulty... is its neighbour with one plausible bug; no  *)
(* action uses it.  It shows that a property would notice the bug.         *)
(***************************************************************************)
EXTENDS Naturals

CONSTANTS Budget,        \* --timeout
          Hold,          \* _HOLD_S: how long a poll asks to be held
          Delays,        \* the poll delays, _FIRST_DELAY to _MAX_DELAY
          Latency,       \* bound: what a request takes over its hold
          MaxPresses,    \* bound: Ctrl-C's
          PageSize,      \* _MAX_PAGE
          Limits,        \* the values of --limit, as the instance chooses them
          NoLimit,       \* --all, or no --limit
          MaxRows        \* bound: the rows of a result

ASSUME TimesAssumption ==
  /\ Budget \in Nat /\ Hold \in Nat /\ Latency \in Nat
  /\ Delays \subseteq Nat \ {0} /\ Delays # {}
ASSUME PagesAssumption ==
  /\ PageSize \in Nat \ {0} /\ MaxRows \in Nat
  /\ Limits \subseteq Nat /\ NoLimit \notin Nat
ASSUME PressesAssumption == MaxPresses \in Nat

VARIABLES
  query,      \* its status on the server
  rows,       \* the rows of its result
  pc,         \* "submit" | "poll" | "sleep" | "cancel" | "report" | "fetch" | "ended"
  exit,       \* how the command ends
  seen,       \* the status in the last response
  now,        \* time since the wait began
  limit,      \* --limit
  got, total, \* fetch_rows: rows read, and the total the last page gave
  presses,    \* Ctrl-C's so far
  inWait,     \* history: the last of them came while wait() ran
  tried,      \* history: a DELETE was sent
  blank       \* history: a page came without rows, and with a cursor

vars == <<query, rows, pc, exit, seen, now, limit, got, total, presses, inWait, tried, blank>>

Terminal == {"done", "failed", "cancelled"}
Exits == {"none", "submitted", "rows", "failed", "cancelled", "timeout", "interrupted", "error"}

TypeOK ==
  /\ query \in {"none", "running"} \cup Terminal
  /\ rows \in 0..MaxRows /\ limit \in Limits \cup {NoLimit}
  /\ pc \in {"submit", "poll", "sleep", "cancel", "report", "fetch", "ended"}
  /\ exit \in Exits
  /\ seen \in {"none", "running"} \cup Terminal
  /\ now \in Nat
  /\ got \in 0..rows /\ total \in {0, rows}
  /\ presses \in 0..MaxPresses
  /\ inWait \in BOOLEAN /\ tried \in BOOLEAN /\ blank \in BOOLEAN

Init ==
  /\ query = "none" /\ rows \in 0..MaxRows /\ limit \in Limits \cup {NoLimit}
  /\ pc = "submit" /\ exit = "none" /\ seen = "none" /\ now = 0
  /\ got = 0 /\ total = 0 /\ presses = 0
  /\ inWait = FALSE /\ tried = FALSE /\ blank = FALSE

Lower(m, n) == IF m < n THEN m ELSE n

Left == IF now < Budget THEN Budget - now ELSE 0

End(e) == pc' = "ended" /\ exit' = e

-----------------------------------------------------------------------------
\* submit(): the server accepts the query, and may hold the call for its end.
\* With --no-wait the command is over.
Submit ==
  /\ pc = "submit"
  /\ \E s \in {"running"} \cup Terminal :
       /\ query' = s /\ seen' = s
       /\ \/ End("submitted")
          \/ pc' = (IF s \in Terminal THEN "report" ELSE "poll") /\ UNCHANGED exit
  /\ UNCHANGED <<rows, now, limit, got, total, presses, inWait, tried, blank>>

\* The submit raises; the query may be there all the same.
SubmitRaises ==
  /\ pc = "submit"
  /\ query' \in {"none", "running"}
  /\ End("error")
  /\ UNCHANGED <<rows, seen, now, limit, got, total, presses, inWait, tried, blank>>

\* Ctrl-C before the response of the submit: the query's id is not known.
InterruptSubmit ==
  /\ pc = "submit" /\ presses < MaxPresses
  /\ query' \in {"none", "running"}
  /\ End("interrupted") /\ presses' = presses + 1
  /\ UNCHANGED <<rows, seen, now, limit, got, total, inWait, tried, blank>>

-----------------------------------------------------------------------------

\* A poll is held to the end of the budget at most; its answer goes before the
\* deadline.
Poll ==
  /\ pc = "poll"
  /\ \E t \in 0..Lower(Hold, Left) + Latency : now' = now + t
  /\ seen' = query
  /\ IF query \in Terminal THEN pc' = "report" /\ UNCHANGED exit
     ELSE IF now' >= Budget THEN pc' = "cancel" /\ exit' = "timeout"
     ELSE pc' = "sleep" /\ UNCHANGED exit
  /\ UNCHANGED <<query, rows, limit, got, total, presses, inWait, tried, blank>>

\* Any DhError of a poll leaves wait(), without a cancel.
PollRaises ==
  /\ pc = "poll"
  /\ End("error")
  /\ UNCHANGED <<query, rows, seen, now, limit, got, total, presses, inWait, tried, blank>>

Sleep ==
  /\ pc = "sleep"
  /\ \E d \in Delays : now' = now + Lower(d, Left)
  /\ pc' = "poll"
  /\ UNCHANGED <<query, rows, exit, seen, limit, got, total, presses, inWait, tried, blank>>

\* The exception is let through.
FaultyInterruptWait ==
  /\ pc \in {"poll", "sleep", "cancel"} /\ presses < MaxPresses
  /\ End("interrupted")
  /\ presses' = presses + 1 /\ inWait' = TRUE
  /\ UNCHANGED <<query, rows, seen, now, limit, got, total, tried, blank>>

\* Ctrl-C in the loop is caught, and the query cancelled; a second one leaves the
\* cancel undone, unless it was the one of the timeout.
InterruptWait ==
  /\ pc \in {"poll", "sleep", "cancel"} /\ presses < MaxPresses
  /\ pc' = IF exit = "interrupted" THEN "ended" ELSE "cancel"
  /\ exit' = "interrupted"
  /\ presses' = presses + 1 /\ inWait' = TRUE
  /\ UNCHANGED <<query, rows, seen, now, limit, got, total, tried, blank>>

\* cancel(): a DELETE that arrives or does not; it never raises a DhError.  The
\* exception of the caller then leaves wait().
Cancel ==
  /\ pc = "cancel"
  /\ query' \in {query, IF query = "running" THEN "cancelled" ELSE query}
  /\ tried' = TRUE
  /\ pc' = "ended"
  /\ UNCHANGED <<rows, exit, seen, now, limit, got, total, presses, inWait, blank>>

\* raise_for_status.
Report ==
  /\ pc = "report"
  /\ IF seen = "done" THEN pc' = "fetch" /\ UNCHANGED exit ELSE End(seen)
  /\ UNCHANGED <<query, rows, seen, now, limit, got, total, presses, inWait, tried, blank>>

\* The rows the next page is asked for.
Want == IF limit = NoLimit THEN PageSize
        ELSE IF limit > got THEN Lower(PageSize, limit - got) ELSE 0

\* What a page of n rows leaves: the rows read, and the total it names.  Before
\* the last row it has a cursor, with rows or without.
Page(n) ==
  /\ got' = got + n
  /\ total' = rows
  /\ blank' = (n = 0 /\ got < rows)
  /\ UNCHANGED <<query, rows, seen, now, limit, presses, inWait, tried>>

\* The first page is taken for the whole result.
FaultyFetchPage ==
  /\ pc = "fetch" /\ Want > 0
  /\ \E n \in 0..Lower(Want, rows - got) : Page(n) /\ End("rows")

\* One page: the server sends some of the rows asked for, or none.  No cursor, or
\* no row, ends the reading.
FetchPage ==
  /\ pc = "fetch" /\ Want > 0
  /\ \E n \in 0..Lower(Want, rows - got) :
       /\ Page(n)
       /\ IF got + n = rows \/ n = 0 THEN End("rows") ELSE UNCHANGED <<pc, exit>>

\* The limit is reached, without a look at what is left.
StopFetch ==
  /\ pc = "fetch" /\ Want = 0
  /\ End("rows")
  /\ UNCHANGED <<query, rows, seen, now, limit, got, total, presses, inWait, tried, blank>>

FetchRaises ==
  /\ pc = "fetch"
  /\ End("error")
  /\ UNCHANGED <<query, rows, seen, now, limit, got, total, presses, inWait, tried, blank>>

\* Ctrl-C once the query is over.
InterruptFetch ==
  /\ pc \in {"report", "fetch"} /\ presses < MaxPresses
  /\ End("interrupted") /\ presses' = presses + 1
  /\ UNCHANGED <<query, rows, seen, now, limit, got, total, inWait, tried, blank>>

\* fetch_rows: whether rows were left unread.
Truncated == limit # NoLimit /\ total > got

\* The query ends on the server, or somebody else cancels it.
Finish ==
  /\ query = "running"
  /\ query' \in Terminal
  /\ UNCHANGED <<rows, pc, exit, seen, now, limit, got, total, presses, inWait, tried, blank>>

CommandStep ==
  \/ Submit \/ SubmitRaises
  \/ Poll \/ PollRaises \/ Sleep \/ Cancel
  \/ Report \/ FetchPage \/ StopFetch \/ FetchRaises

Next ==
  \/ CommandStep
  \/ InterruptSubmit \/ InterruptWait \/ InterruptFetch
  \/ Finish

Spec == Init /\ [][Next]_vars

-----------------------------------------------------------------------------
\* A single Ctrl-C while the query is waited for ends the command only after a
\* DELETE was sent (execute.py 119-135).
InterruptInWaitCancels ==
  pc = "ended" /\ exit = "interrupted" /\ inWait /\ presses = 1 => tried

\* The command gives up on a query only when its budget is over and the last
\* answer still said that it runs, and then with a DELETE: an answer that arrives
\* late counts (execute.py 122-130).
TimeoutOnlyUnfinished ==
  exit = "timeout" => seen = "running" /\ now >= Budget /\ (pc = "ended" => tried)

\* Each way to leave a query that runs and was sent no DELETE: the user wants it so
\* (--no-wait), its id never came (the submit failed or was interrupted), one poll
\* failed, or a second Ctrl-C stopped the cancel of the first (execute.py 95, 122,
\* 133; query.py 69-72).
LeavesRunning ==
  pc = "ended" /\ query = "running" /\ ~tried =>
    \/ exit = "submitted"
    \/ exit \in {"error", "interrupted"} /\ seen = "none"
    \/ exit = "error" /\ seen = "running"
    \/ exit = "interrupted" /\ inWait /\ presses > 1

\* How the command walks away from a query: with a DELETE on the first Ctrl-C of
\* the wait and at the end of the budget, and without one, while the query runs,
\* only in the ways of LeavesRunning.
GivesUpRightly == InterruptInWaitCancels /\ TimeoutOnlyUnfinished /\ LeavesRunning

\* The rows are all of the result, or as many as --limit allows and said to be
\* truncated, unless a page came without rows before the end; and the total that
\* is printed with them is the whole result's even then, so that what is missing
\* can be told (execute.py 163-191, query.py 80-82).  --limit 0 reads no page and
\* knows no total.
RowsAsAsked ==
  exit = "rows" /\ limit # 0 =>
    /\ total = rows
    /\ limit # NoLimit => got <= limit
    /\ got < rows => blank \/ (got = limit /\ Truncated)

-----------------------------------------------------------------------------
\* What the repository says and the code does not do: TLC finds each of these
\* violated (README.md, Divergences).

\* "Ctrl-C cancels the query on the server rather than orphaning it" (query.py
\* 115-116): a single Ctrl-C while a query runs sends a DELETE.
CtrlCCancels ==
  pc = "ended" /\ exit = "interrupted" /\ presses = 1 => tried \/ query # "running"

\* "Query ... did not finish within the timeout; it was cancelled." (execute.py
\* 129): it does not run on.
TimeoutMeansCancelled == pc = "ended" /\ exit = "timeout" => query # "running"

\* "Every row of a finished query, following the cursor to the end" (execute.py
\* 157): without --limit the rows are all there are.
EveryRow == exit = "rows" /\ limit = NoLimit => got = rows
=============================================================================
