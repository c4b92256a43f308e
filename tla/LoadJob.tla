------------------------------ MODULE LoadJob ------------------------------
(***************************************************************************)
(* One dlt load job against a server that drops sessions, rejects commits  *)
(* and loses responses: DuckHavenCopyJob.run (load_jobs.py), which stages a *)
(* file and inserts it, and DuckHavenSqlClient.execute_sql/execute_query    *)
(* (sql_client.py), which retry a lost commit race and reopen a session    *)
(* once.  dlt itself runs a job again when it failed with anything but a   *)
(* terminal exception (external).                                          *)
(*                                                                         *)
(* A string of SQL is sent in parts, one statement each, and a part that    *)
(* runs commits.  The server commits a statement whole or not at all.       *)
(*                                                                         *)
(* An operator named Faulty... is its neighbour with one plausible bug; no  *)
(* action uses it.  It shows that a property would notice the bug.         *)
(***************************************************************************)
EXTENDS Naturals

CONSTANTS Kinds,        \* the kinds of job: a subset of AllKinds
          Parts,        \* the statements in the SQL of a "sql" job
          Attempts,     \* _COMMIT_CONFLICT_ATTEMPTS
          MaxRuns,      \* bound: how often dlt runs the job
          MaxSessions   \* bound: sessions the server opens

\* "managed": the file is staged through the session; "reference": it is in the
\* user's own storage; "sql": complete_load and schema updates, no file.
AllKinds == {"managed", "reference", "sql"}

ASSUME KindsAssumption == Kinds \subseteq AllKinds
ASSUME CountsAssumption ==
  /\ Parts \in Nat \ {0} /\ Attempts \in Nat \ {0}
  /\ MaxRuns \in Nat \ {0} /\ MaxSessions \in Nat \ {0}

VARIABLES
  \* the server
  session,   \* the number of the session of the client's connection
  alive,     \* the server still holds it
  commits,   \* [1..Parts -> Nat]: how often the part has committed
  running,   \* [1..Parts -> Nat]: accepted, unfinished and followed by nobody
  \* the job
  kind,
  runs,      \* times dlt has started it
  pc,        \* "idle" | "stage" | "restage" | "submit" | "read" | "fetch"
             \* | "loaded" | "failed"
  staged,    \* the session that staged the file, 0 before that
  part,      \* the statement being sent
  reopened,  \* execute_query has replaced the session
  attempt,   \* execute_sql's loop counter
  error,     \* the last exception raised, NoError after a success
  \* history
  hidden     \* [1..Parts -> Nat]: submits whose effect the client could not see

server == <<session, alive, commits, running>>
sql == <<staged, part, reopened, attempt>>
vars == <<server, kind, runs, pc, sql, error, hidden>>

\* A DB-API exception, by what the client looks at: its class, whether its
\* status is 409, what its text says; ran is history, whether the statement can have run.
Exceptions ==
  [type : {"none", "Programming", "Operational", "Database", "Interface"},
   conflict409 : BOOLEAN,       \* status_code = 409
   commitFailed : BOOLEAN,      \* the text holds _COMMIT_CONFLICT_MARKER
   notFound : BOOLEAN,          \* the text names a missing relation
   ran : BOOLEAN]

NoError == [type |-> "none", conflict409 |-> FALSE, commitFailed |-> FALSE,
            notFound |-> FALSE, ran |-> FALSE]

JobParts == IF kind = "sql" THEN Parts ELSE 1

\* A session of the pool was alive when the previous job returned it.
Init ==
  /\ kind \in Kinds
  /\ session = 1 /\ alive = TRUE
  /\ commits = [p \in 1..Parts |-> 0] /\ running = [p \in 1..Parts |-> 0]
  /\ runs = 0 /\ pc = "idle" /\ error = NoError
  /\ staged = 0 /\ part = 1 /\ reopened = FALSE /\ attempt = 0
  /\ hidden = [p \in 1..Parts |-> 0]

TypeOK ==
  /\ session \in 1..MaxSessions /\ alive \in BOOLEAN
  /\ commits \in [1..Parts -> Nat] /\ running \in [1..Parts -> Nat]
  /\ kind \in Kinds /\ runs \in 0..MaxRuns
  /\ pc \in {"idle", "stage", "restage", "submit", "read", "fetch", "loaded", "failed"}
  /\ staged \in 0..session
  /\ part \in 1..JobParts /\ reopened \in BOOLEAN /\ attempt \in 0..(Attempts - 1)
  /\ error \in Exceptions
  /\ hidden \in [1..Parts -> Nat]

-----------------------------------------------------------------------------
\* How the SQL client reads an exception.

IsSessionLost(e) == e.type = "Operational" /\ e.conflict409

\* _make_database_exception.  An undefined relation is terminal to dlt too.
Verdict(e) ==
  CASE e.type = "Programming" -> IF e.commitFailed THEN "transient" ELSE "terminal"
    [] e.type = "Operational" -> "transient"
    [] e.type = "Database" -> "terminal"
    [] e.type \in {"Interface", "none"} -> "raw"

-----------------------------------------------------------------------------
\* _connect opens a session, or raises and the run ends; what execute_query
\* raises may be terminal.
Connect(next) ==
  /\ session < MaxSessions
  /\ session' = session + 1 /\ alive' = TRUE
  /\ pc' = next

ConnectRaises(ends) == pc' \in ends /\ UNCHANGED <<session, alive>>

\* dlt runs the job with a client that takes an idle session or opens one.
Start ==
  /\ pc = "idle" /\ runs < MaxRuns
  /\ runs' = runs + 1
  /\ staged' = 0 /\ part' = 1 /\ reopened' = FALSE /\ attempt' = 0
  /\ error' = NoError
  /\ LET first == IF kind = "managed" THEN "stage" ELSE "submit"
     IN \/ runs = 0 /\ pc' = first /\ UNCHANGED <<session, alive>>
        \/ Connect(first)
        \/ ConnectRaises({"idle"})
  /\ UNCHANGED <<commits, running, kind, hidden>>

\* stage_file presigns and uploads; its format is then looked up, and an
\* unknown one raises.
Stage ==
  /\ pc \in {"stage", "restage"} /\ alive
  /\ staged' = session
  /\ pc' \in {"submit", "idle"}
  /\ UNCHANGED <<server, kind, runs, part, reopened, attempt, error, hidden>>

\* The session is gone (409): replaced once.
StageLost ==
  /\ pc = "stage"
  /\ Connect("restage") \/ ConnectRaises({"idle"})
  /\ UNCHANGED <<commits, running, kind, runs, staged, part, reopened, attempt,
                 error, hidden>>

\* Any other failure of staging, or a second 409, leaves run() as it is.
StageRaises ==
  /\ pc \in {"stage", "restage"}
  /\ pc' = "idle"
  /\ UNCHANGED <<server, kind, runs, sql, error, hidden>>

-----------------------------------------------------------------------------
\* The exception reaches execute_sql: a lost commit race is run again from the
\* first part, anything else leaves, for dlt to retry unless it is terminal.

\* The loop counter never moves.
FaultyLeave(e) ==
  /\ IF Verdict(e) = "transient" /\ e.commitFailed
       THEN /\ pc' = "submit" /\ part' = 1 /\ reopened' = FALSE
            /\ UNCHANGED attempt
       ELSE /\ pc' = IF Verdict(e) = "terminal" THEN "failed" ELSE "idle"
            /\ UNCHANGED <<part, reopened, attempt>>
  /\ UNCHANGED <<session, alive>>

Leave(e) ==
  /\ IF Verdict(e) = "transient" /\ e.commitFailed /\ attempt < Attempts - 1
       THEN /\ pc' = "submit" /\ part' = 1 /\ reopened' = FALSE
            /\ attempt' = attempt + 1
       ELSE /\ pc' = IF Verdict(e) = "terminal" THEN "failed" ELSE "idle"
            /\ UNCHANGED <<part, reopened, attempt>>
  /\ UNCHANGED <<session, alive>>

\* The session is reopened for every kind of job.
FaultySubmitRaises(e) ==
  /\ error' = e
  /\ IF ~reopened /\ IsSessionLost(e)
       THEN \/ /\ Connect("submit")
               /\ reopened' = TRUE /\ UNCHANGED <<part, attempt>>
            \/ /\ ConnectRaises({"idle", "failed"})
               /\ reopened' = TRUE /\ UNCHANGED <<part, attempt>>
       ELSE Leave(e)
  /\ UNCHANGED <<kind, runs, staged>>

\* An exception out of _submit: a lost session is reopened, once, and the same
\* part sent again, unless the job's file is bound to the session.
SubmitRaises(e) ==
  /\ error' = e
  /\ IF ~reopened /\ kind # "managed" /\ IsSessionLost(e)
       THEN \/ /\ Connect("submit")
               /\ reopened' = TRUE /\ UNCHANGED <<part, attempt>>
            \/ /\ ConnectRaises({"idle", "failed"})
               /\ reopened' = TRUE /\ UNCHANGED <<part, attempt>>
       ELSE Leave(e)
  /\ UNCHANGED <<kind, runs, staged>>

\* What a submit that ran nothing may answer: a dead session answers 409, and so
\* may a live one (catalog_read_only, runtime_retired).
Refusals ==
  {e \in Exceptions : /\ e.type # "none" /\ ~e.ran /\ ~e.commitFailed
                      /\ e.conflict409 => e.type = "Operational"
                      /\ e.notFound => e.type = "Programming"}

\* What a failed statement's text becomes.
Failures ==
  {e \in Exceptions : e.type = "Programming" /\ ~e.ran /\ ~e.conflict409}

\* The server refuses the statement.
Refused ==
  /\ pc = "submit"
  /\ \E e \in Refusals : (~alive => IsSessionLost(e)) /\ SubmitRaises(e)
  /\ UNCHANGED <<commits, running, hidden>>

\* The statement fails, its commit rejected by Polaris or for another reason: it
\* changed nothing, and its text becomes a ProgrammingError.
StatementFails ==
  /\ pc = "submit" /\ alive
  /\ \E e \in Failures : SubmitRaises(e)
  /\ UNCHANGED <<commits, running, hidden>>

\* What the client raises when it cannot see how a statement went: a transport
\* error, a deadline, a 500.
Unseen ==
  {e \in Exceptions : /\ e.type \in {"Operational", "Database"} /\ e.ran
                      /\ ~e.conflict409 /\ ~e.commitFailed /\ ~e.notFound}

\* The answer of a submit, or of a poll, never arrives: the statement committed,
\* still runs, or will not.
Hidden ==
  /\ pc = "submit" /\ alive
  /\ hidden' = [hidden EXCEPT ![part] = @ + 1]
  /\ \/ commits' = [commits EXCEPT ![part] = @ + 1] /\ UNCHANGED running
     \/ running' = [running EXCEPT ![part] = @ + 1] /\ UNCHANGED commits
     \/ UNCHANGED <<commits, running>>
  /\ \E e \in Unseen : SubmitRaises(e)

\* A statement nobody follows commits after all.
LateCommit ==
  \E p \in 1..Parts :
    /\ running[p] > 0
    /\ running' = [running EXCEPT ![p] = @ - 1]
    /\ commits' = [commits EXCEPT ![p] = @ + 1]
    /\ UNCHANGED <<session, alive, kind, runs, pc, sql, error, hidden>>

\* The statement is done, and what it wrote committed.
StatementDone ==
  /\ pc = "submit" /\ alive
  /\ commits' = [commits EXCEPT ![part] = @ + 1]
  /\ error' = NoError
  /\ pc' = "read"
  /\ UNCHANGED <<session, alive, running, kind, runs, sql, hidden>>

\* The first part's rows are taken for the whole string's.
FaultyFirstPage ==
  /\ pc = "read"
  /\ UNCHANGED part /\ pc' = "fetch"
  /\ UNCHANGED <<server, kind, runs, staged, reopened, attempt, error, hidden>>

\* execute reads the first page of the result, if the answer did not bring it or
\* say that there is none, and any part but the last is finished with.
FirstPage ==
  /\ pc = "read"
  /\ IF part < JobParts
       THEN part' = part + 1 /\ pc' = "submit"
       ELSE UNCHANGED part /\ pc' = "fetch"
  /\ UNCHANGED <<server, kind, runs, staged, reopened, attempt, error, hidden>>

\* Reading rows raises: a 409, another OperationalError, a malformed page.
RowErrors ==
  {e \in Exceptions : /\ e.type \in {"Operational", "Interface"} /\ e.ran
                      /\ ~e.commitFailed /\ ~e.notFound
                      /\ e.conflict409 => e.type = "Operational"}

\* The first page raises, inside _submit.
FirstPageRaises ==
  /\ pc = "read"
  /\ hidden' = [hidden EXCEPT ![part] = @ + 1]
  /\ \E e \in RowErrors : SubmitRaises(e)
  /\ UNCHANGED <<commits, running>>

\* The loop is not left after a success.
FaultyFetched ==
  /\ pc = "fetch"
  /\ IF attempt < Attempts - 1
       THEN pc' = "submit" /\ part' = 1 /\ attempt' = attempt + 1
       ELSE pc' = "loaded" /\ UNCHANGED <<part, attempt>>
  /\ UNCHANGED <<server, kind, runs, staged, reopened, error, hidden>>

\* execute_sql fetches the rows, if any, and returns: the job is done.
Fetched ==
  /\ pc = "fetch"
  /\ pc' = "loaded"
  /\ UNCHANGED <<server, kind, runs, sql, error, hidden>>

\* fetchall raises, outside _submit but inside execute_query.
FetchRaises ==
  /\ pc = "fetch"
  /\ hidden' = [hidden EXCEPT ![part] = @ + 1]
  /\ \E e \in RowErrors : error' = e /\ Leave(e)
  /\ UNCHANGED <<commits, running, kind, runs, staged>>

\* The server reaps the session, or its agent goes away.
Drop ==
  /\ alive
  /\ alive' = FALSE
  /\ UNCHANGED <<session, commits, running, kind, runs, pc, sql, error, hidden>>

JobStep ==
  \/ Stage \/ StageLost \/ StageRaises
  \/ Refused \/ StatementFails \/ Hidden \/ StatementDone
  \/ FirstPage \/ FirstPageRaises \/ Fetched \/ FetchRaises

Next ==
  \/ Start
  \/ JobStep
  \/ LateCommit
  \/ Drop

Spec == Init /\ [][Next]_vars

\* A run goes on: each request ends (http_timeout) and each wait is bounded.
FairSpec == Spec /\ WF_vars(JobStep)

-----------------------------------------------------------------------------
\* A job of one statement commits it at most once more than a response was
\* hidden from the client: neither the conflict retry nor the reopened session
\* duplicates rows by itself (sql_client.py 77-82, 97-103, 325-366).
NoDuplicates ==
  JobParts = 1 => commits[1] + running[1] <= 1 + hidden[1]

\* A job that dlt sees loaded has committed all of its parts (sql_client.py
\* 325-330, 353-367).
LoadedIsCommitted ==
  pc = "loaded" => \A p \in 1..JobParts : commits[p] > 0

\* A managed job's statement only ever goes to the session that staged its file,
\* whatever has been reopened on the way (load_jobs.py 57-83; sql_client.py 340-362).
StagedOnOwnSession == kind = "managed" /\ pc = "submit" => staged = session

\* A run ends with a lost commit race only after every attempt was used, and
\* never for good: not even when the text also names a missing relation
\* (sql_client.py 325-334, 374-378).
ConflictsExhausted ==
  pc \in {"idle", "failed"} /\ error.type = "Programming" /\ error.commitFailed
     => pc = "idle" /\ attempt = Attempts - 1

\* Every run ends: no failure makes the job retry for ever (sql_client.py 325).
RunEnds == pc \notin {"idle", "loaded", "failed"} ~> pc \in {"idle", "loaded", "failed"}

-----------------------------------------------------------------------------
\* What the repository says and the code does not do: TLC finds each of these
\* violated (README.md, Divergences).

\* "A rejected commit publishes no metadata, so none of its rows become visible
\* and re-running the statement cannot duplicate them" (sql_client.py 80-81): no
\* part commits twice while every response is seen.
PartsCommitOnce == \A p \in 1..JobParts : hidden[p] = 0 => commits[p] <= 1

\* "The connector raises this 409 when a statement or staging request is
\* *submitted*, before anything runs, so re-sending it on a fresh session cannot
\* run it twice" (sql_client.py 100-101): what is sent again had not run.
LostSessionRanNothing == pc = "submit" => ~error.ran
=============================================================================
