----------------------------- MODULE SqlCommand -----------------------------
(***************************************************************************)
(* The commands that run SQL.  `dh sql` with a query, and `dh session exec`, *)
(* are QueryCommand.  `dh sql` at a terminal is the shell: SqlShell on a     *)
(* session, or, when the session cannot be opened, a prompt that runs each   *)
(* statement by itself as QueryCommand does (repl.py).  `dh session open`    *)
(* is SessionCommand.                                                       *)
(***************************************************************************)
EXTENDS QueryCommand, SessionCommand, Sequences

CONSTANTS Statements,   \* bound: what the user types into the shell
          None          \* no statement

ASSUME NoneAssumption == None \notin Statements

VARIABLES
  mode,      \* "sql" | "exec" | "open", or what the shell does: "connect" | "session" | "plain"
  line, session, result, prompt,                            \* SqlShell
  partial, input, current, dead, told, crashed, deleted, torn

shellVars ==
  <<line, session, result, prompt, partial, input, current, dead, told, crashed, deleted,
    torn>>
commandVars == <<mode, vars, openVars, shellVars>>

S == INSTANCE SqlShell WITH pc <- prompt

\* A query not begun yet: the limit of the command, or none in the shell.
Unasked(lim) ==
  /\ query' = "none" /\ rows' = 0 /\ limit' = lim
  /\ pc' = "submit" /\ exit' = "none" /\ seen' = "none" /\ now' = 0
  /\ got' = 0 /\ total' = 0 /\ presses' = 0
  /\ inWait' = FALSE /\ tried' = FALSE /\ blank' = FALSE

CommandInit ==
  /\ mode \in {"sql", "exec", "open", "connect"}
  /\ Init /\ (mode \notin {"sql", "exec"} => rows = 0 /\ limit = NoLimit)
  /\ OpenInit /\ (mode # "open" => wait = NoWait)
  /\ S!Init

-----------------------------------------------------------------------------
\* dh sql and dh session exec.  A statement of a session is waited for as a query
\* is; exec has no --no-wait.
RunQuery ==
  /\ mode \in {"sql", "exec"}
  /\ Next
  /\ mode = "exec" => exit' # "submitted"
  /\ UNCHANGED <<mode, openVars, shellVars>>

OpenSession ==
  /\ mode = "open"
  /\ OpenNext
  /\ UNCHANGED <<mode, vars, shellVars>>

-----------------------------------------------------------------------------
\* _open_session.

Connected ==
  /\ mode = "connect" /\ prompt = "prompt"
  /\ mode' = "session"
  /\ UNCHANGED <<vars, openVars, shellVars>>

\* Any exception of connect() means that there is no session to use; there may be
\* one on the server.
FallBack ==
  /\ mode = "connect" /\ prompt = "prompt"
  /\ mode' = "plain" /\ session' \in {"open", "gone"}
  /\ UNCHANGED <<vars, openVars, line, result, prompt, partial, input, current, dead,
                 told, crashed, deleted, torn>>

\* Ctrl-C is not an Exception: it ends the command.
InterruptConnect ==
  /\ mode = "connect" /\ prompt = "prompt"
  /\ prompt' = "ended" /\ session' \in {"open", "gone"}
  /\ UNCHANGED <<mode, vars, openVars, line, result, partial, input, current, dead,
                 told, crashed, deleted, torn>>

OnSession ==
  /\ mode = "session"
  /\ S!Next
  /\ UNCHANGED <<mode, vars, openVars>>

-----------------------------------------------------------------------------
\* The shell without a session.

PlainPrompt ==
  /\ mode = "plain"
  /\ S!TypeLine \/ (\E s \in Statements : S!TypeStatement(s)) \/ S!Quit \/ S!EndInput
  /\ UNCHANGED <<mode, vars, openVars>>

\* _run_one_shot: every row, and twenty minutes.
PlainBegin ==
  /\ mode = "plain" /\ prompt = "cursor"
  /\ prompt' = "submit"
  /\ \E n \in 0..MaxRows : rows' = n
  /\ UNCHANGED <<mode, openVars, query, pc, exit, seen, now, limit, got, total, presses,
                 inWait, tried, blank, line, session, result, partial, input, current, dead,
                 told, crashed, deleted, torn>>

PlainRun ==
  /\ mode = "plain" /\ prompt = "submit" /\ pc # "ended"
  /\ Next /\ exit' # "submitted"
  /\ UNCHANGED <<mode, openVars, shellVars>>

\* What _loop makes of the end of the query: Ctrl-C and every DhError lead back to
\* the prompt.
Outcome == CASE exit = "rows" -> "rows"
             [] exit = "interrupted" -> "cancelled"
             [] OTHER -> "error"

PlainEnd ==
  /\ mode = "plain" /\ prompt = "submit" /\ pc = "ended"
  /\ S!Tell(Outcome)
  /\ result' = [result EXCEPT ![current] = IF query = "done" THEN "done" ELSE "failed"]
  /\ Unasked(NoLimit)
  /\ UNCHANGED <<mode, openVars, line, session, partial, input, dead, crashed, deleted,
                 torn>>

PlainClose ==
  /\ mode = "plain" /\ prompt = "closing"
  /\ prompt' = "ended"
  /\ UNCHANGED <<mode, vars, openVars, line, session, result, partial, input, current,
                 dead, told, crashed, deleted, torn>>

ShellStep ==
  \/ Connected \/ FallBack \/ InterruptConnect \/ OnSession
  \/ PlainPrompt \/ PlainBegin \/ PlainRun \/ PlainEnd \/ PlainClose

CommandNext == RunQuery \/ OpenSession \/ ShellStep

CommandSpec == CommandInit /\ [][CommandNext]_commandVars

-----------------------------------------------------------------------------
\* Nothing typed into the shell is dropped, on a session or without one: each
\* statement is answered before the next is read, and rows are shown only of one
\* that was done (repl.py 38-59, 101-150).
AllAnswered == S!AllAnswered

\* However the shell on a session ends, it asks the server to close that session,
\* unless the connection is dead or Ctrl-C cuts the closing short (repl.py 67-76).
SessionReleased == mode = "session" => S!SessionReleased
=============================================================================
