--------------------------- MODULE SessionCommand ---------------------------
(***************************************************************************)
(* `dh session open` (commands/session.py): one POST, which the server is   *)
(* asked to hold for a while, then polls until the session has settled or   *)
(* --wait is over.  The client retries no request.  The other commands of    *)
(* a session are rows of CommandTable, but for `dh session exec`, which      *)
(* SqlCommand has.                                                         *)
(*                                                                         *)
(* The clock starts with the command.  A request takes what the server was   *)
(* asked to hold it for, at most, and OpenLatency more.                      *)
(***************************************************************************)
EXTENDS Naturals

CONSTANTS Waits,        \* the values of --wait, as the instance chooses them
          NoWait,       \* --no-wait
          ServerHold,   \* _SERVER_HOLD_S
          OpenDelays,   \* the poll delays, at most two seconds
          LongestDelay, \* the last of them
          OpenLatency   \* bound: what a request takes over its hold

ASSUME WaitsAssumption ==
  /\ Waits \subseteq Nat /\ NoWait \notin Nat
  /\ {ServerHold, OpenLatency, LongestDelay} \subseteq Nat
  /\ OpenDelays \subseteq 1..LongestDelay

VARIABLES
  wait,      \* --wait, or --no-wait
  row,       \* the session's status on the server
  step,      \* "post" | "decide" | "get" | "ended"
  shown,     \* the status in the last response
  began,     \* when _await_open started to wait
  clock,     \* time since the command began
  outcome    \* "none" | "printed" | "error" | "interrupted"

openVars == <<wait, row, step, shown, began, clock, outcome>>

Unready == {"pending", "opening"}

OpenInit ==
  /\ wait \in Waits \cup {NoWait}
  /\ row = "none" /\ step = "post" /\ shown = "none"
  /\ began = 0 /\ clock = 0 /\ outcome = "none"

\* A session somebody has to close.
Held == row \in Unready \cup {"open"}

Conclude(o) == step' = "ended" /\ outcome' = o

\* What the POST asks the server to hold it for.
OpenHold == IF wait = NoWait THEN 0 ELSE IF wait < ServerHold THEN wait ELSE ServerHold

-----------------------------------------------------------------------------
\* The POST answers with the session, settled or not; with --no-wait the command
\* is over.
PostOpen ==
  /\ step = "post"
  /\ row' \in Unready \cup {"open", "failed"} /\ shown' = row'
  /\ \E t \in 0..OpenHold + OpenLatency : clock' = clock + t
  /\ began' = clock'
  /\ IF wait = NoWait THEN Conclude("printed") ELSE step' = "decide" /\ UNCHANGED outcome
  /\ UNCHANGED wait

\* It raises, or Ctrl-C comes first; the session may be there all the same.
PostOpenFails ==
  /\ step = "post"
  /\ row' \in {"none", "pending", "open"}
  /\ Conclude("error") \/ Conclude("interrupted")
  /\ UNCHANGED <<wait, shown, began, clock>>

Settled ==
  /\ step = "decide" /\ shown \notin Unready
  /\ Conclude("printed")
  /\ UNCHANGED <<wait, row, shown, began, clock>>

\* The wait is over: the session is handed back as it is.
GiveUp ==
  /\ step = "decide" /\ shown \in Unready
  /\ clock - began >= wait
  /\ Conclude("printed")
  /\ UNCHANGED <<wait, row, shown, began, clock>>

\* Each poll starts the wait anew.
FaultyPause ==
  /\ step = "decide" /\ shown \in Unready
  /\ clock - began < wait
  /\ \E d \in OpenDelays : clock' = clock + d
  /\ began' = clock' /\ step' = "get"
  /\ UNCHANGED <<wait, row, shown, outcome>>

\* A full delay, however little of the wait is left.
Pause ==
  /\ step = "decide" /\ shown \in Unready
  /\ clock - began < wait
  /\ \E d \in OpenDelays : clock' = clock + d
  /\ step' = "get"
  /\ UNCHANGED <<wait, row, shown, began, outcome>>

PollOpen ==
  /\ step = "get"
  /\ shown' = row
  /\ \E t \in 0..OpenLatency : clock' = clock + t
  /\ step' = "decide"
  /\ UNCHANGED <<wait, row, began, outcome>>

\* A poll that raises, or Ctrl-C at any time of the wait, leaves the command.
PollOpenFails ==
  /\ \/ step = "get" /\ Conclude("error")
     \/ step \in {"decide", "get"} /\ Conclude("interrupted")
  /\ UNCHANGED <<wait, row, shown, began, clock>>

\* The server moves the session on.
RowMoves ==
  /\ \/ row = "pending" /\ row' \in {"opening", "failed"}
     \/ row = "opening" /\ row' \in {"open", "failed"}
     \/ row = "open" /\ row' = "gone"
  /\ UNCHANGED <<wait, step, shown, began, clock, outcome>>

OpenNext ==
  \/ PostOpen \/ PostOpenFails
  \/ Settled \/ GiveUp \/ Pause \/ PollOpen \/ PollOpenFails
  \/ RowMoves

-----------------------------------------------------------------------------
\* However slowly compute starts, the command is over once the held POST, the
\* wait, one delay and one poll have passed: the delays do not add up beyond it
\* (session.py 85-105, 114-126).
OpenBounded ==
  outcome = "printed" /\ wait # NoWait
     => clock <= OpenHold + wait + LongestDelay + 2 * OpenLatency

-----------------------------------------------------------------------------
\* What the repository says and the code does not do: TLC finds each of these
\* violated (README.md, Divergences).

\* "Any remaining wait is spent polling instead" (session.py 37-39): what the POST
\* was held for is part of --wait.
WaitIsWhole ==
  outcome = "printed" /\ wait # NoWait => clock <= wait + LongestDelay + 2 * OpenLatency

\* "The id is already in hand -- an interrupt or a timeout here leaves something
\* the caller can close, not an orphan" (session.py 111-112): once the POST has
\* answered, the id of a session that is there is printed.
OpenedIsNamed == step = "ended" /\ shown # "none" /\ Held => outcome = "printed"
=============================================================================
