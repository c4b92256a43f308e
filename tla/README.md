# duckhaven-clients: a TLA+ model

This directory models the behaviour of the DuckHaven client packages (`src/packages`): the DB-API
connector, the dlt destination, the dbt adapter and the `dh` command line tool. The server is not in
the repository; it appears as what the clients' code, docs and tests say of it: it holds requests,
drops sessions, loses nothing it has committed, and its answers may be lost on the way.

Each module models one part. TLC checks it on a small instance, and TLAPS proves the safety of all of
them, and one refinement each of the pool, of connect and of a result, for every instance. `PROJECT.json`
maps each definition to the lines it models.

## The system

| part | state | operations | interacts with |
|---|---|---|---|
| connector transport (`client.py`) | per call: attempt, deadline | `request` with its retry loop, `stream` | httpx, the server |
| connector session (`connection.py`) | session id, `_dead`, `_closed`, cursors | open (POST, re-POST, poll), `USE`, `cancel`, `close` | transport; cancel comes from another thread |
| connector statement (`cursor.py`) | `_query_id`, `_result` | `execute`, poll, `cancel`, `close` | session, results |
| connector results (`result.py`, `_arrow_result.py`) | buffer, cursor, exhausted / reader | `fetchone`, `fetchmany`, `fetchall`, `fetch_arrow_table` | transport |
| dlt session pool (`sql_client.py`, `client.py`) | `_IDLE_SESSIONS`, each client's `_conn` and `reuse_session` | open, reconnect, close or hand back, close all idle (package complete, `atexit`) | connector; many worker threads |
| dlt load job (`load_jobs.py`, `_staging.py`, `sql_client.py`) | staged file, session, attempts | stage, insert, retry a lost commit race, reopen a lost session | pool; dlt runs a failed job again |
| dbt connection manager (`connections.py`, `impl.py`) | one connection per thread, transaction flag | open, `add_query` with one reopening, release, cleanup, catalog query | connector; dbt-core's threads |
| CLI query (`execute.py`, `commands/query.py`) | query id, deadline, rows | submit, wait, cancel on Ctrl-C and time-out, fetch | REST client |
| CLI shell (`repl.py`) | lines so far, one connection | read, run, Ctrl-C, end of input, close | connector |
| CLI profiles (`config.py`, `auth.py`, `profile.py`) | the profile file, its copy | login, logout, use, remove | other invocations of `dh`, through the file |
| CLI session commands (`commands/session.py`) | none (session ids belong to the user) | open with a wait, exec, get, close | REST client |
| CLI resource commands (`commands/*.py`, `context.py`, `resolve.py`) | none | confirm, resolve settings, look up, one request, print, exit status | profiles, REST client, other users of the server |
| CLI REST client (`rest.py`) | none | `request`, `collect`, `walk` | httpx, the server |
| CLI command line (`main.py`) | the tokens | `hoist_global_options` | Click |
| connector parameters (`_params.py`) | the scanner's place | `render_qmark`, `render_literal` | `execute` |
| connector metadata (`_metadata.py`) | none | a listing by several requests, filtered here | transport, others who create and drop |
| types, errors, configuration | none | pure functions | their callers |

What makes these parts hard is what they share: a server that drops a session at any moment, which a
client learns only from the 409 of its next call; a POST whose answer may be lost, which may not be
sent again; threads (dlt's workers, dbt's nodes, a canceller) that share sessions and a pool; time
budgets that meet holds, retries and polls; Ctrl-C, which may come between any two steps; several
`dh` processes that edit one file. `PROJECT.json` lists the hazards line by line, with the properties
that would notice each one going wrong.

What makes each part correct, in a sentence:

- transport: a POST is sent once; a retry loop ends within its budget and does not give up early;
- session: one connect makes at most one session, and comes back within its budget;
- statement: a call of `execute` runs its statement at most once, returns only what finished, and
  does not walk away from a statement that runs; a cancel that finds its id stops it;
- results: every row once, in order, and a short answer only when there are no more;
- pool: a session has one user; no failed session is passed on; none outlives the process;
- load job: nothing is loaded twice by a re-send, nothing is reported loaded that is not;
- dbt: a thread keeps its own session, a lost one is replaced and no statement runs twice;
- query: an interrupted wait and a spent budget send a cancel, rows shown are in order and
  what `--limit` leaves out is said, and the command ends;
- shell: every accepted statement is answered, and the session is released at the end unless
  Ctrl-C cuts the closing;
- profiles: the file is whole at every moment, and an edit changes only its own profile;
- resource commands: nothing is sent before it is agreed to, a change goes where one profile says, the
  exit status tells whether it was made, and no save replaces a version its user has not seen;
- text: a parameter is read as the value it was, a listing has what was there, an option does what it
  would have done in front of the subcommand.

## The modules

A definition is named for the function or step it models, and its comment names what it stands for.
An action is the code between two points where another actor can come in: a request, a lock, a
sleep, a file operation. Operators named `Faulty...` are neighbours of a definition with one
plausible bug; no action uses them, and `PROJECT.json` names the property each one breaks.

### SessionPool, SessionLease, SessionPoolRefinement

`SessionPool` has each client's `conn` and `reuse`, the `pool` lists by settings, the lists that
`close_idle_sessions` took and still has to close (`closing`), the `Connection` objects by their two
flags, and the server's rows. Any 409 of a call is taken for a lost session, whether the session is
gone or not. `phase` is the place of a client's worker thread. `TakePooled` and
`HandBack` are the regions under `_IDLE_LOCK`; `Lost...` and `Reconnect...` are
`execute_query`'s reopening; `ExitFailed` is `__exit__` on an exception; `CompleteLoad`, `RunAtExit`
and `CloseIdle` are the two users of `close_idle_sessions`, which closes outside the lock.
`SessionLease` is the promise: a session is unopened, leased to one client, idle, or retired, and goes
from one client to the next only by being idle. `SessionPoolRefinement` maps the pool to it.

Taken from the callers: an exception of a failed job passes through `__exit__` (dlt;
`tests/unit/test_session_reuse.py` 56-61), `complete_load` runs in a client that ran no load job, and
dlt's worker threads have ended when `atexit` runs. A killed process is left to the server's reaper.

### StatementLifecycle

One connection with its cursors, a worker thread in `execute`, and one call of `Connection.cancel`
from another thread. The server holds the answer of a submit until the statement ends, so the worker
has a state `held` between the acceptance and the answer. A lost answer, a failed poll, a lost DELETE
put the statement in the history `lost`; `target` and `recorded` remember what the canceller could
see when it began. Any 409 on a submit marks the connection dead although the session may be open
(`unreleased`).

### ResultPaging, RowCursor, ResultPagingRefinement

The rows of one statement, as numbers, on their way to the caller: JSON pages behind a cursor, the
first page inlined in the answer or not, one Arrow stream read batch by batch, or rows the client
assembled itself. A fetch loads pages until it has what it wants. A request may fail, a stream may
break (and may then look finished: pyarrow and httpx are external), and at most one row cannot be
decoded. `dropped` are rows lost with a call that raised, `skipped` those behind an undecodable one.

`RowCursor` is what the caller may rely on, without pages, batches, buffers and requests: an answer is
the rows that come next, in order, as many as asked for or all there are; a call that raises loses rows
for good. Two things weaken it, and each is a divergence listed below: after a failed request for the
stream a short answer may leave rows behind (`cut`), and after an undecodable last page reading starts
over (`again`). `ResultPagingRefinement` maps the result set onto it: a row is left until it is in `got`,
`dropped` or `skipped`, so rows in the buffer, or taken by the call that runs, are still to come.

### TransportPolicy, TransportRetry, SessionOpen, Connect

`TransportRetry` is one `Transport.request` with integer time: send, answer or loss, plan a retry
(backoff or Retry-After against the elapsed budget), sleep. Counters saturate at `SentCap` so that a
wrong loop still has finitely many states. `SessionOpen` is one connect: POST with a hold, re-POST
after `compute_starting`, polls with a doubling delay, `USE`. Requests take at least a second; the
time of `USE` is not counted, and a poll takes at most `GetTime`. `Connect` removes that assumption:
each request of the connect, and the DELETE of `close`, is one call of `TransportRetry` (an instance
over `Connect`'s variables), with `GetTime` what the retry loop's budget allows. `OpensAsSpecified` says
that the composition is the connect of `SessionOpen`, `NoSessionLeft` that a `close` that raised nothing
has ended the session whichever of its DELETEs was lost. `TransportPolicy` holds the constants of
`ClientConfig` that both modules share.

### LoadJob

One load job and dlt around it: stage (for a managed file), then `execute_sql` over the parts of the
string, each submitted, watched, and its first page read. A conflict repeats the string up to
`Attempts` times; a 409 reopens the session once, unless the job reads its own staged file; other
exceptions end the run, and dlt (external) runs the job again unless the exception is terminal.
`commits` counts commits per part, and `hidden` those the client did not see.

### QueryCommand, SqlShell, SessionCommand, SqlCommand

`QueryCommand` is one `dh sql`: the held submit, `wait` with its budget, Ctrl-C at any point, rows by
pages with `--limit`. A page may be of any size, empty too, and an empty one ends the reading as it
does in `fetch_rows`, with a cursor or without. A poll takes from nothing to its hold plus a latency;
the growing delay is any of `Delays`. `inWait`, `tried` and `blank` are history: the last Ctrl-C came
while `wait` ran, a DELETE went out, a page was empty before the end. `SqlShell` is the loop of `repl.py` with a session: statements gathered line by line, the
session's own order of running them, the three ways the input ends, and the closing, which Ctrl-C may
cut short (`torn`). `SessionCommand` is `dh session
open`: one held POST, then polls with a full delay each, which is why `OpenBounded` allows
the hold and one delay over `--wait`. `SqlCommand` puts them together: `dh sql` and `dh session exec` are a query, the shell is
`SqlShell` on a session, and a shell that could not open one runs each statement as a query of its own.

### DbtSession

Two layers, the manager's handle and state per thread and dbt-core's use of it (external, from
`tests/unit/test_connections.py`): open for a node, run statements, release, and `cleanup_all`.
`Reopens` is the second half of `add_query`. `orphaned` collects the sessions that nobody will close.
A session's name is used again when nothing refers to it.

### ProfileStore

`Procs` are invocations of `dh` (login, logout, use, remove) that load the file, write a copy and
rename it, with no lock; each can be interrupted (the copy is unlinked) or killed (it is not) at every
step. `login` first signs in, mints and verifies a token. A profile is its host and token. The rename
is atomic, as POSIX has it. The initial files are ones that `dh` itself wrote.

### CommandTable, ResourceCommand

Some hundred commands of `dh` differ only in what they do before their one request. `CommandTable` has
what each does, in the order of its function: whether it asks, the steps that may fail (reading the
settings, requiring host, workspace or catalog, a local check of its options, a lookup), the method, and
whether it prints. One of them waits for a person though it does not ask: `dh admin user create`
without `--password` prompts for it before anything else, at a terminal or not. `ResourceCommand` runs
such records: `Calls` are invocations side by side, each
confirming, resolving its settings from one read of the profile file (or two, in the lists of
`saved.py`), sending, retrying nothing, and ending with an exit status; a page walk goes on while there
are pages. Another terminal may switch the default profile; the answer of a change may be lost after it
was made; a host that has moved to https answers 301, after which httpx sends a POST as a GET
(`downgraded`). A worksheet has a version on the server, and `dh worksheet update` sends the version
that its user had read. An input that a user names as such (`--file -`, `--data @-`) is taken for a
file, which ends.

### ParameterBinding, MetadataListing, OptionHoist

Three parts that read and write text, each a machine whose step is one round of the code's loop or one
request, checked against a reference that reads the result back: `ParameterBinding` scans a statement
for the `?` that are placeholders, and its reference tokenises what comes out (`ReadsAlike`).
`MetadataListing` collects catalogs, schemas and tables request by request while others create and drop
them, and filters them by the glob of a LIKE pattern; the reference is LIKE itself. `OptionHoist` is the
walk over the tokens and then Click, external, reading first dh's options and then the subcommand's; the
reference is what the line's pieces were meant to be, told by their positions: an option typed behind
the subcommand is the subcommand's if it has one of that name, every other one is dh's. The lines on
which the loop cannot tell are named and left out (`SharesOption`, `MasksOption`: the subcommand is given
an option that dh has too, or the value of its option is typed like an option of dh's or is `--`). They
share nothing, so `MCText` checks the three
side by side in one run: a behaviour is of one of them.

## The runs

| run | instance | what it shows |
|---|---|---|
| `pool` | 3 clients, 2 settings, 2 sessions | the safety of the pool, its refinement of `SessionLease`, and that every lease ends |
| `statement` | 2 cursors, 2 statements, 2 executes, 2 polls | what a returned execute and a cancel guarantee; `execute` ends |
| `job` | managed, reference and SQL jobs, 2 parts, 5 attempts, 2 runs | nothing loaded twice by a re-send, nothing reported that is not committed; a run ends |
| `connect` | budget 12, time-out 3, hold 4, 3 retries in 5, Retry-After 0, 5, 9 or 20 | one session, nothing left by a refusal or a close, a bounded wait, over the real retry loop the specified connect |
| `cli` | budget 6, hold 2, 2 presses of Ctrl-C, limits 0 to 3, 5 rows; waits 0, 2, 8; 3 statements | in which ways a running query is left, what is printed and that what is missing shows, every statement of the shell answered, the session released, the wait of an open bounded |
| `dbt` | 2 threads, 3 sessions | own sessions and a fresh transaction flag, none lost or left open, no statement twice |
| `paging` | 5 rows, pages and batches of 2, inline limit 1, 3 calls, 2 faults | rows in order and none left out, on every path; the refinement of `RowCursor`, and with it that a short answer is the end |
| `profile` | 2 invocations, 2 names, 2 hosts, 2 tokens, 3 initial files | the file whole and its default one of its profiles, edits kept apart, nothing left behind |
| `resource` | any command at a terminal, a save, a delete or a new user in a script, 2 profiles, 2 pages | confirmed before sent, honest exit statuses, one profile per change, no unseen save; in a script only the password prompt of `dh admin user create` waits for anyone |
| `text` | every text of 4 characters from 8, some to 7; two catalogs and 2 changes; lines of 3 pieces | parameters, listings and options are read as meant |
| `profile_forget` | as `profile` | a divergence, below |
| `hoist` | as `text` | a divergence, below |

Why these bounds suffice. The pool's hazards take two clients that share settings, one that does not,
one session to lose and one to replace it; its safety is also proved for every number. Two statements
are a statement and its successor on the same or another cursor. Five rows are two full pages and a
short one, so that a page boundary, an empty rest and a last full page all occur. Two parts are a committed one
and a conflicting one; two runs are a job and its repetition by dlt, and the five attempts are the
code's. Two invocations make every race of a read-modify-write on one file; a third adds only
repetitions. In `connect` the retry budget of 5 ends before the retries with
Retry-After 5 and 20, and after them with 0; its hold is longer than its time-out so that a POST is also
given up while the server holds it; the repository's own values, 25 and 60, leave only fewer behaviours.
In `cli` the waits are none, one within the server's hold and one past it. In `resource` the second invocation
is what the first can collide with, and one switch of the default is the only one that can fall between
two reads. In `text` a string, a quoted identifier or a comment with its delimiters and a `?` inside
and behind takes up to seven characters, and three pieces of a command line are an option, its
neighbour and a word; one of the options is dh's and the subcommand's both. Sessions (in `dbt`) and
invocations (in `profile`) differ only in name, hence the symmetry sets there; the runs that check
liveness use none.

`CHECK_DEADLOCK FALSE` is in every cfg because every modelled thing may end: a call returns, a process
exits, a shell is left.

### Fairness

Four runs check liveness: that a lease of the pool ends, that `execute` ends, that a load job's run
ends, and that a `dh` nobody sits at ends or waits for the password of a user to create. They assume weak fairness of the client's own steps only: a thread inside the code goes on,
because each request ends within `http_timeout`, each sleep within its interval, and no lock is held for
good. No server step is fair: a statement may run for ever, a session may never be dropped. No entry of
a client and no new call is fair either. Liveness therefore says that the loops have an end of their
own, a deadline or a count of attempts. The waits of `TransportRetry`, `SessionOpen`
and `SessionCommand` are bounded in time by invariants (`EndsInTime`, `WaitBounded`, `OpenBounded`), which
says more than that they end.

## What is proved

TLAPS proves these for every value of the constants that satisfies the named assumptions. None of the
invariants is inductive alone; each module defines a stronger one and shows that every action keeps it.

- `SessionPoolProofs`: the type invariant, `OneUserPerSession`, `NoDeadHandle`, `SessionFits`,
  `NothingLeftAtExit`, and that the pool implements `SessionLease` (`PoolImplementsLease`). The invariant
  adds what ties the parts together: a handle that is held, pooled or being closed was opened, with
  which settings, that a reopening client holds a closed handle and nothing else does, that only a
  client that entered holds anything, and that once the process is at exit no client holds a session
  and the lists are empty or in the exit handler's hands. For the refinement, `Standing` and `Leasing`
  are the mapping of one session and one client; each action is shown to move one of them, or none, as
  the lease allows.
- `ConnectProofs`: `ReturnedIsOpen`, `WaitBounded`, `NoSessionLeft`, and that connect and close over the
  retry loop are those of `SessionOpen` (`OpensOverTransport`; the two share their variables, so the
  mapping is the identity). One half of the invariant is about `SessionOpen`'s own steps (`OInv`), the
  other about the call under way: which place of the connect it belongs to, how often it was carried
  out, and that the time it took fits in `GetTime`. It begins with the retry loop alone, for every retry
  policy: its type invariant, `PostOnce`, `SentBounded`, `EndsInTime`, `ReturnedIsCarriedOut` and
  `GivesUpLate`. Their invariant relates the requests sent to the attempt counter and the time passed to
  the deadline, place by place of the loop. These need no run beside the proof; in `connect` the loop
  runs as part of a connect.
- `CursorProofs`, two invariants of two modules that share nothing.
  - `StatementLifecycle`: the type invariant, `RowsAreFinished`, `NoSilentOrphan`,
    `CancelStopsRecorded`, and `CloseReleases`, which no run checks. A status only moves forward, whoever
    moves it, so what the worker has seen finished is finished; what still runs is followed or lost; a
    recorded target that runs is on a cursor the canceller has yet to visit.
  - `ResultPaging`: the type invariant, `RowsInOrder`, `EndMeansAll`, which no run checks because the
    refinement implies it, and that it implements `RowCursor` (`PagingImplementsCursor`), for any number of
    rows, any page, batch and fetch sizes and any failures (`PagingInv`). At any moment the rows are what
    was returned, what the calls that raised lost, what is in the buffer and what is still to be read:
    `Gapless` says that the buffer runs on from the rows known and the source from the buffer, `Ordered`
    that the caller's rows come before both and that a lost row is none of them, `Complete` that an
    exhausted source has nothing left, `PathKept` what each of the three paths leaves unused. For the
    refinement, `Answered` shows that a call that returns gives an answer of the abstract cursor, which is
    where the invariant is needed, `Raised` and `Unseen` that the other steps lose rows or show nothing.
- `TextProofs`, for texts of any length. The definitions are recursive functions, and the proofs have to go
  around the induction theorems, which take an operator: `LeastOf` and `CountUp` tell induction with a
  set, and `Upward`, `Downward` and `Concatenated` show that functions of these shapes exist, after which
  the definitions unfold to the equations they are written as (`ReadingUnfolds`, `LikeUnfolds`, ...).
  - `ParameterBinding`: `BoundAsWritten`. The invariant (`BindingInv`) says that whenever the scanner looks
    at a character SQL reads code there, or is at the end of a line comment (`Settled`), that what is
    written is what is expected up to there, and that the values used are the places passed. `Skips` says
    of each of the three things skipped, a quoted text, a line and a block comment, that it ends settled
    and that no place is in it. That the result is read alike (`ValuesLeaveReading`) then follows piece
    by piece: `ReadsOver` shows that SQL is back in code behind each literal, whatever is doubled in it,
    and a piece only looks at the first character of the next behind a minus or a slash.
  - `MetadataListing`: `ListingExact`, and `ListingWhole`, which says the same of any pattern as the code's
    own filter reads it. The invariant (`ListingInv`) says that a table that was there all along and
    matches is found already or its request is still to come. The rest is that the filter is LIKE:
    `SamePlaces` compares, from the end of the pattern on, the places of a name that fit it and that fit
    its glob.
  - `OptionHoist`: `HoistedAsMeant`, for any options of dh and of the subcommand and lines of any length.
    The invariant (`HoistInv`) says, of a line that is to be read as it is meant, that the tokens not read
    yet are what is typed from some piece on (`TypedFrom`), that what was moved is what is typed for the
    pieces of dh, or the others, before it (`TypedTo`), and what was heard is what those pieces mean
    (`HeardTo`). In one place the loop stands inside a piece: it takes the value of a subcommand's option
    for a token of its own (`Inside`), which is why that value must not look like dh's. `CommandIsFirst`
    shows that Click, after dh's options, meets the word that names the subcommand.
- `LoadJobProofs`: the type invariant, `NoDuplicates`, `LoadedIsCommitted`, `StagedOnOwnSession`, and
  `ConflictsExhausted`, which no run checks. All the ways a statement fails lead to one of the same few
  places (`Raised`), and the invariant survives any of them at once (`RaisedKeeps`).
- `DbtSessionProofs`: the type invariant, `OwnSession`, `NothingLost` and `RunsOnce`. A step is one
  thread's: the invariant says of each thread what its place implies, and of all that their sessions
  differ.
- `SqlCommandProofs`: `GivesUpRightly`, `RowsAsAsked`, `OpenBounded`, `AllAnswered`, `SessionReleased`, and
  the type invariant of a query, for any budget, page size, limit, wait and statements.
  `GivesUpRightly` is not that no query is left running: it is that the first Ctrl-C of the wait and the
  end of the budget send a DELETE, and that a query is left running without one in five ways only
  (`LeavesRunning`). `RowsAsAsked` lets rows be missing behind an empty page with a cursor, but not
  from the total. A query, the
  opening of a session and the shell have an invariant each (`QueryInv`, `OpenInv`, `ShellInv`): where the
  command is and what it has heard of the query, how many rows it has read of how many, how much of the
  wait is gone at each place, which statement is still without an answer. `Apart` says which of the
  three a mode leaves at rest, so that a step of one keeps the others.
- `InvocationProofs`, what invocations of `dh` that overlap keep of each other.
  - `ProfileStore`: the type invariant, `FileSound`, `StoredIsVerified`, `NothingLeftBehind`, and the
    action property `OthersUntouched`, for any number of invocations (`StoreInv`). It carries the same
    facts through the config an invocation has in memory and in its copy, since either may become the
    file. For the last two it adds at which places a sign-in session may be open (`SessionFits`), and
    that what an invocation is about to rename into place is the file as it is now, but for its own
    profile, unless another invocation came between (`EditFits`).
  - `ResourceCommand`: the type invariant, `NothingUnconfirmed`, `StatusTellsEffect`, `OneProfile` and
    `NothingOverwrittenUnseen`, for any commands the table allows. An invocation touches nothing of
    another but the worksheet's version, so the invariant is about one record (`Sound`), and `Frame`
    carries it from there to all of them. The exit status 0 of a POST that was redirected is left out of
    `StatusTellsEffect` (`ReportedIsDone`).

The assumptions are the ASSUMEs of the modules: sizes and times are natural numbers, a retry interval
starts above zero and below its maximum, the values that stand for "none" are none of the others, and
what `render_literal` makes of any value but a string is read as code to its end, does not begin with a
star and does not end with a minus or a slash (`StandsAlone`; a number may begin with a minus). Of a
command line they say that what looks like an option is no argument, since it has to be typed behind the
`--` to be one (`OptionsAssumption`).

Only model-checked: the four liveness properties (`LeaseEnds`, `ExecuteEnds`, `RunEnds`,
`UnattendedEnds`), since fairness and ENABLED are out of the prover's reach. The `TypeOK` of a module
says what its variables range over; TLC was run on those that are not proved.

## Divergences

What the repository says and the code does not do. The two with a run are in `PROJECT.json`; for the
others, adding the name to the INVARIANTS of a cfg that checks the module (`ScriptsEnd` to its
PROPERTIES) makes TLC show the trace (for `SqlShell`, through the instance `S` of `SqlCommand`).

| module, definition | what the trace shows | what is said |
|---|---|---|
| `OptionHoist`, `OptionHeard` (run `hoist`) | an option of the subcommand with the name of one of dh's, typed behind it, is moved in front and becomes dh's (`main.py:192`): `dh worksheet create --catalog c` sets the default catalog of the invocation and leaves the worksheet without one | "Active catalog for unqualified names." (`saved.py:294`) |
| `ProfileStore`, `ForgottenStaysForgotten` (run `profile_forget`) | `dh profile use` that read the file before a logout writes the token back (`config.py:146`) | logout: "Forget the stored token" (`auth.py:239`) |
| `SessionPool`, `LostMeansGone` | any 409 marks the connection dead (`cursor.py:154`, `sql_client.py:103`), and a dead connection sends no DELETE | "Whether the server no longer holds the session" (`sql_client.py:98`) |
| `ResultPaging`, `ArrowEndMeansAll` | `_started` is set before the stream is open (`_arrow_result.py:89`); when the request fails, the next fetch reports an empty result | "a caller cannot tell which path ran except by speed" (`_arrow_result.py:6`) |
| `ResultPaging`, `StopsAtNull` | a last page that does not decode leaves the cursor null and the result not exhausted; the next fetch starts again at the first page (`result.py:92`, 108) | "until it is null" (`result.py:4`) |
| `StatementLifecycle`, `CancelCoversInFlight` | a cancel while the submit is held finds no id, or an earlier statement's (`cursor.py:164`) | "cancelling each known cursor covers it" (`connection.py:231`) |
| `LoadJob`, `PartsCommitOnce` | a conflict on a later part re-runs the earlier ones (`sql_client.py:327`); dlt itself sends single statements | "re-running the statement cannot duplicate them" (`sql_client.py:80`) |
| `LoadJob`, `LostSessionRanNothing` | a 409 of the rows request, after the statement ran, counts as a refused submit (`sql_client.py:103`); needs a server that inlines no first page | "before anything runs" (`sql_client.py:100`) |
| `SessionOpen`, `HoldNotAborted` | the hold is a constant, `http_timeout` may be shorter (`connection.py:158`) | "Bounding it here removes that entirely" (`connection.py:29`) |
| `SessionOpen`, `BudgetRaisesItsError` | the re-POST path re-raises the refusal (`connection.py:178`) | "Exhausting the budget raises `MaxRetryDurationError`" (connector `README.md:110`) |
| `QueryCommand`, `CtrlCCancels` | Ctrl-C during the held submit cancels nothing (`execute.py:95`) | "Ctrl-C cancels the query on the server" (`query.py:115`) |
| `QueryCommand`, `TimeoutMeansCancelled` | a DELETE that fails is swallowed (`execute.py:126`) | "it was cancelled" (`execute.py:129`) |
| `QueryCommand`, `EveryRow` | a page without rows ends the reading although it has a cursor, and without `--limit` the rows are not said to be truncated (`execute.py:183`, 190) | "Every row of a finished query, following the cursor to the end" (`execute.py:157`) |
| `SqlShell`, `AlwaysClosed` | Ctrl-C while the connection is closed is not caught (`repl.py:75`), and the DELETE may not have gone out | "Always, including on interrupt" (`repl.py:71`) |
| `SqlShell`, `FailureKeepsShell` | on a dead connection `cursor()` raises past the handler (`repl.py:120`) | "report it and keep the session" (`repl.py:112`) |
| `SqlShell`, `CancelledIsNotDone` | Ctrl-C cancels nothing on the server (`repl.py:107`) | "Cancelled." (`repl.py:110`) |
| `SqlShell`, `EndsAtEndOfInput` | Ctrl-C at the prompt counts as the end of input (`repl.py:42`) | "the shell itself ends at end of input" (`repl.py:108`) |
| `DbtSession`, `SessionsBounded` | a 409 of another kind makes the manager forget an open session (`connections.py:33`) | "at most N + 1 sessions" (adapter `README.md:135`) |
| `DbtSession`, `NoDeadHandle` | the catalog query goes past `add_query` (`impl.py:134`) and later statements meet the dead handle | "the adapter opens a new one" (adapter `README.md:142`) |
| `SessionCommand`, `WaitIsWhole` | the time the POST was held is not taken off `--wait` (`session.py:114`) | "Any remaining wait is spent polling instead" (`session.py:37`) |
| `SessionCommand`, `OpenedIsNamed` | a poll that fails, or Ctrl-C, ends the command before it prints the id | "an interrupt or a timeout here leaves something the caller can close, not an orphan" (`session.py:111`) |
| `ParameterBinding`, `ValuesStayValues` | a negative number behind a minus makes `--`, a comment (`_params.py`) | "values are turned into typed SQL literals with proper quoting/escaping" (`_params.py:6`) |
| `MetadataListing`, `ListingIsLike` | a literal `*` or `?` of a pattern becomes a wildcard of the glob (`_metadata.py:49`) | "`LIKE` patterns, matching the DB-API convention" (`_metadata.py:18`) |
| `OptionHoist`, `LackReported` | a dh option that ends the line without its value is moved in front of the subcommand, whose name becomes its value | "hand it to Click so it reports the real problem" (`main.py:200`) |
| `ResourceCommand`, `ScriptsEnd` | `dh admin user create` without `--password` prompts for it whether or not there is a terminal (`admin.py:149`) | "prompting hangs the job on a question no one will answer" (`context.py:136`), and so `confirm` refuses |
| `ResourceCommand`, `ReportedIsDone` | a 301 turns a POST into a GET, whose answer is printed with status 0 (`rest.py:62`) | Unfollowed, it "tripped over it rather than reaching the API" (`rest.py:61`) |

Met while modelling and left without a property, because each is a single step:

- `_paged` reads the profile file a second time (`saved.py:22`), where `context.settings` says "once per
  command"; a list may mix two profiles, a change may not (`OneProfile`).
- A page printed as a table or as CSV drops `has_more`; `walk` ends at an empty page although it has a
  cursor (`rest.py:181`).
- A poll that fails ends `dh sql` at once (`execute.py:122`): the query runs on without a DELETE, and the
  error does not name it. `GivesUpRightly` allows it, and the docstring of `wait` speaks of Ctrl-C only.
- `dh login` prompts for the host, the address and the password without asking for a terminal either
  (`auth.py:67`, 118, 119).
- `dh pat issue --output` to a file that cannot be written loses a token that is shown only once.
- The shell says that sessions are not enabled here whatever made `connect` fail (`repl.py:66`), and
  Ctrl-C during the connect leaves a session.

## Not modelled

- Formatting, logging, telemetry, configuration parsing, SQL generation and macros: what they compute
  goes into a request or to the screen and comes back to no decision of the client.
- Conversions of one value (type names and values in `_types.py`, the error tables, dlt's type mapper):
  where a module branches on the result, the result is a choice (a row decodes or does not, an answer
  is a refusal, a conflict, retryable).
- Dollar-quoted strings of `_params.py`; the order in which a listing asks, by name.
- The upload of a staged file's bytes; `executemany`, a loop of executes; the arithmetic of `rowcount`.
- Request bodies and paths of the resource commands, but for the version of a worksheet; `introspect.py`,
  which describes the commands.
- dbt's relation cache, and `get_catalog_rows` beyond its use of the handle.
- The server, beyond what the clients can see of it. Connections are not shared by two executing
  threads: `dbapi.py` declares that threads may share the module, not connections, and the one exception,
  `cancel`, is modelled.

## Status

All parts of the plan are done: the pool with its lease, the transport and the connect composed with it,
statements, results, load jobs, the dbt manager, the CLI's queries, shell, profiles and sessions; the
resource commands by one table; the three text machines; and the proofs above, which cover every safety
property of the runs. What would come next is the composition of a load job with the pool,
so that dlt's several workers race for the sessions and the table in one model.
