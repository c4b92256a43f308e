------------------------------ MODULE SqlShell ------------------------------
(***************************************************************************)
(* The interactive shell of the command line tool (repl.py) on a session:   *)
(* lines are gathered into statements, each run on the one connection the   *)
(* shell holds.  What the connector does with a statement is abstracted to  *)
(* its outcomes; StatementLifecycle has the detail.  The shell without a    *)
(* session runs each statement as QueryCommand does.                       *)
(*                                                                         *)
(* An operator named Faulty... is its neighbour with one plausible bug; no  *)
(* action uses it.  It shows that a property would notice the bug.         *)
(***************************************************************************)
EXTENDS Sequences, FiniteSets

CONSTANTS Statements,   \* bound: what the user types
          None          \* no statement: none of Statements

VARIABLES
  line,     \* the statements the session has to run, the running one first
  session,  \* "open" | "gone", on the server
  result,   \* [Statements -> Results]: what became of each on the server
  pc,       \* "prompt" | "cursor" | "submit" | "wait" | "fetch" | "closing" | "ended"
  partial,  \* a statement is half typed
  input,    \* "open", or how the input came to its end
  current,  \* the statement being run
  dead,     \* the connection's _dead
  told,     \* [Statements -> what the user was told]
  crashed,  \* an exception nobody translated ends the shell
  deleted,  \* history: a DELETE of the session was sent
  torn      \* history: Ctrl-C cut the closing of the session short

server == <<line, session, result>>
shell == <<pc, partial, input, current, dead, told, crashed, deleted, torn>>
vars == <<server, shell>>

Results == {"none", "waiting", "done", "failed"}
Told == {"nothing", "rows", "error", "cancelled"}

TypeOK ==
  /\ line \in Seq({s \in Statements : result[s] = "waiting"})
  /\ session \in {"open", "gone"}
  /\ result \in [Statements -> Results]
  /\ pc \in {"prompt", "cursor", "submit", "wait", "fetch", "closing", "ended"}
  /\ partial \in BOOLEAN
  /\ input \in {"open", "end", "quit", "interrupt"}
  /\ current \in Statements \cup {None}
  /\ dead \in BOOLEAN /\ crashed \in BOOLEAN /\ deleted \in BOOLEAN /\ torn \in BOOLEAN
  /\ told \in [Statements -> Told]

Init ==
  /\ line = <<>> /\ session = "open" /\ result = [s \in Statements |-> "none"]
  /\ pc = "prompt" /\ partial = FALSE /\ input = "open" /\ current = None
  /\ dead = FALSE /\ told = [s \in Statements |-> "nothing"]
  /\ crashed = FALSE /\ deleted = FALSE /\ torn = FALSE

-----------------------------------------------------------------------------
\* read_statements.

Typed(s) == told[s] # "nothing" \/ s = current

\* A line that does not end a statement.
TypeLine ==
  /\ pc = "prompt" /\ \E s \in Statements : ~Typed(s)
  /\ partial' = TRUE
  /\ UNCHANGED <<server, pc, input, current, dead, told, crashed, deleted, torn>>

\* A line that ends with ';'.
TypeStatement(s) ==
  /\ pc = "prompt" /\ ~Typed(s)
  /\ partial' = FALSE /\ current' = s /\ pc' = "cursor"
  /\ UNCHANGED <<server, input, dead, told, crashed, deleted, torn>>

\* The quit words leave by sys.exit, before run has closed anything.
FaultyQuit ==
  /\ pc = "prompt" /\ ~partial
  /\ input' = "quit" /\ pc' = "ended"
  /\ UNCHANGED <<server, partial, current, dead, told, crashed, deleted, torn>>

Quit ==
  /\ pc = "prompt" /\ ~partial
  /\ input' = "quit" /\ pc' = "closing"
  /\ UNCHANGED <<server, partial, current, dead, told, crashed, deleted, torn>>

\* What is half typed is dropped.
FaultyEndInput ==
  /\ pc = "prompt"
  /\ input' \in {"end", "interrupt"}
  /\ pc' = "closing"
  /\ UNCHANGED <<server, partial, current, dead, told, crashed, deleted, torn>>

\* Ctrl-D raises Abort or EOFError out of the prompt, and Ctrl-C raises Abort too:
\* what is half typed is run, and the shell ends.
EndInput ==
  /\ pc = "prompt"
  /\ input' \in {"end", "interrupt"}
  /\ IF partial
       THEN \E s \in Statements : ~Typed(s) /\ current' = s /\ pc' = "cursor" /\ partial' = FALSE
       ELSE pc' = "closing" /\ UNCHANGED <<current, partial>>
  /\ UNCHANGED <<server, dead, told, crashed, deleted, torn>>

-----------------------------------------------------------------------------
\* _loop and _run_on_session.

Tell(what) ==
  /\ told' = [told EXCEPT ![current] = what]
  /\ current' = None
  /\ pc' = IF input = "open" THEN "prompt" ELSE "closing"

\* connection.cursor() is called outside the try: the OperationalError of a dead
\* connection is not a DhError, and leaves the loop.
OpenCursor ==
  /\ pc = "cursor"
  /\ IF dead
       THEN pc' = "closing" /\ crashed' = TRUE /\ UNCHANGED current
       ELSE pc' = "submit" /\ UNCHANGED <<crashed, current>>
  /\ UNCHANGED <<server, partial, input, dead, told, deleted, torn>>

\* A statement of the session, to be run after those before it.
Accept ==
  /\ line' = Append(line, current)
  /\ result' = [result EXCEPT ![current] = "waiting"]
  /\ UNCHANGED session

Submit ==
  /\ pc = "submit" /\ session = "open"
  /\ Accept
  /\ pc' = "wait"
  /\ UNCHANGED <<partial, input, current, dead, told, crashed, deleted, torn>>

\* Refused: with a 409 the connection is dead, its session gone or not.
SubmitRefused ==
  /\ pc = "submit"
  /\ \/ dead' = TRUE
     \/ session = "open" /\ UNCHANGED dead
  /\ Tell("error")
  /\ UNCHANGED <<server, partial, input, crashed, deleted, torn>>

\* The response is lost, or a poll raises, or the statement's deadline passes.
Unfollowed ==
  /\ \/ pc = "submit" /\ session = "open" /\ Accept
     \/ pc \in {"submit", "wait"} /\ UNCHANGED server
  /\ Tell("error")
  /\ UNCHANGED <<partial, input, dead, crashed, deleted, torn>>

\* execute sees how the statement ended.
See ==
  /\ pc = "wait" /\ result[current] \in {"done", "failed"}
  /\ IF result[current] = "done" THEN pc' = "fetch" /\ UNCHANGED <<told, current>>
                                 ELSE Tell("error")
  /\ UNCHANGED <<server, partial, input, dead, crashed, deleted, torn>>

\* The rows are shown, or reading them raises.
Fetch ==
  /\ pc = "fetch"
  /\ Tell("rows") \/ Tell("error")
  /\ UNCHANGED <<server, partial, input, dead, crashed, deleted, torn>>

\* Ctrl-C while a statement runs: cursor.close() sends nothing, "Cancelled." is
\* printed, and the loop goes on.  The POST may have arrived.
Interrupt ==
  /\ \/ pc = "submit" /\ session = "open" /\ Accept
     \/ pc \in {"submit", "wait", "fetch"} /\ UNCHANGED server
  /\ Tell("cancelled")
  /\ UNCHANGED <<partial, input, dead, crashed, deleted, torn>>

\* The session ends, and what it had to run with it.
EndSession ==
  /\ session' = "gone" /\ line' = <<>>
  /\ result' = [s \in Statements |-> IF result[s] = "waiting" THEN "failed" ELSE result[s]]

\* run's finally: connection.close(), whose DELETE may be lost.
Close ==
  /\ pc = "closing"
  /\ deleted' = ~dead
  /\ (~dead /\ EndSession) \/ UNCHANGED server
  /\ pc' = "ended"
  /\ UNCHANGED <<partial, input, current, dead, told, crashed, torn>>

\* Ctrl-C while it closes is no Exception: it leaves run, and the DELETE may have
\* gone out by then, and taken effect, or not.
InterruptClose ==
  /\ pc = "closing"
  /\ \/ UNCHANGED <<server, deleted>>
     \/ ~dead /\ deleted' = TRUE /\ (EndSession \/ UNCHANGED server)
  /\ torn' = TRUE
  /\ pc' = "ended"
  /\ UNCHANGED <<partial, input, current, dead, told, crashed>>

-----------------------------------------------------------------------------
\* The session runs its statements one after the other.
RunStatement ==
  /\ line # <<>>
  /\ \E r \in {"done", "failed"} : result' = [result EXCEPT ![Head(line)] = r]
  /\ line' = Tail(line)
  /\ UNCHANGED <<session, shell>>

\* The server reaps the session, or its agent goes away.
Reap ==
  /\ session = "open"
  /\ EndSession
  /\ UNCHANGED shell

ShellStep == OpenCursor \/ Submit \/ SubmitRefused \/ Unfollowed \/ See \/ Fetch \/ Close

Next ==
  \/ ShellStep
  \/ TypeLine \/ (\E s \in Statements : TypeStatement(s)) \/ Quit \/ EndInput
  \/ Interrupt \/ InterruptClose
  \/ RunStatement \/ Reap

Spec == Init /\ [][Next]_vars

-----------------------------------------------------------------------------
\* Nothing typed is dropped: back at the prompt, or at the end of the input, each
\* statement has an answer or an error, and rows are shown only of one that was
\* done, whatever the session still has to run of interrupted ones before it
\* (repl.py 38-59, 101-130).
AllAnswered ==
  /\ \A s \in Statements : told[s] = "rows" => result[s] = "done"
  /\ pc \in {"prompt", "closing", "ended"} /\ ~crashed => current = None
  /\ pc = "ended" => ~partial

\* However the shell ends, by the end of its input, a quit word, Ctrl-C at the
\* prompt or a crash, it asks the server to close its session; only a dead
\* connection, or a Ctrl-C during the closing itself, keeps it from that (repl.py
\* 67-76).
SessionReleased == pc = "ended" => deleted \/ dead \/ torn

-----------------------------------------------------------------------------
\* What the repository says and the code does not do: TLC finds each of these
\* violated (README.md, Divergences).

\* "A failed statement is a normal event in a shell, so report it and keep the
\* session" (repl.py 112-114): no statement ends the shell by an exception.
FailureKeepsShell == ~crashed

\* "Cancelled." (repl.py 110): what the user is told was cancelled is not done.
CancelledIsNotDone == \A s \in Statements : told[s] = "cancelled" => result[s] # "done"

\* "The shell itself ends at end of input" (repl.py 108-109), not by Ctrl-C.
EndsAtEndOfInput == pc = "ended" => input # "interrupt"

\* "Always, including on interrupt" (repl.py 71): the session is closed.
AlwaysClosed == pc = "ended" => deleted \/ dead
=============================================================================
