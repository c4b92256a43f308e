--------------------------- MODULE LoadJobProofs ----------------------------
(***************************************************************************)
(* The safety properties of LoadJob, proved for any number of parts,        *)
(* attempts, runs and sessions.                                            *)
(*                                                                         *)
(* The ways a run loses a statement differ in what they say of its effect;  *)
(* they agree on where the job goes next (Raised), and the invariant is     *)
(* shown to survive any of them at once (RaisedKeeps).                      *)
(***************************************************************************)
EXTENDS LoadJob, TLAPS

Counters == [1..Parts -> Nat]

Types ==
  /\ session \in Nat /\ 1 <= session /\ session <= MaxSessions /\ alive \in BOOLEAN
  /\ commits \in Counters /\ running \in Counters /\ hidden \in Counters
  /\ kind \in Kinds /\ runs \in 0..MaxRuns
  /\ pc \in {"idle", "stage", "restage", "submit", "read", "fetch", "loaded", "failed"}
  /\ staged \in Nat /\ staged <= session
  /\ part \in 1..JobParts /\ reopened \in BOOLEAN /\ attempt \in 0..(Attempts - 1)
  /\ error \in Exceptions

\* A one-statement job has committed what was hidden, and what it has just seen.
Counted ==
  JobParts = 1 =>
    /\ commits[1] + running[1] <= 1 + hidden[1]
    /\ pc \notin {"read", "fetch", "loaded"} => commits[1] + running[1] <= hidden[1]

\* The parts before the one being sent have committed.
Committed ==
  /\ pc \in {"stage", "restage"} => part = 1
  /\ pc = "submit" => \A p \in 1..JobParts : p < part => commits[p] > 0
  /\ pc = "read" => \A p \in 1..JobParts : p <= part => commits[p] > 0
  /\ pc \in {"fetch", "loaded"} => \A p \in 1..JobParts : commits[p] > 0

Bound == kind = "managed" /\ pc \in {"submit", "read", "fetch"} => staged = session

Exhausted == (pc \in {"stage", "restage"} => error = NoError) /\ ConflictsExhausted

IInv == Types /\ Counted /\ Committed /\ Bound /\ Exhausted

LEMMA Numbers ==
  /\ Parts \in Nat /\ 1 <= Parts /\ Attempts \in Nat /\ 1 <= Attempts
  /\ MaxRuns \in Nat /\ 1 <= MaxRuns /\ MaxSessions \in Nat /\ 1 <= MaxSessions
  BY CountsAssumption

LEMMA PartsType == JobParts \in 1..Parts
  BY Numbers DEF JobParts

LEMMA NoErrorType == NoError \in Exceptions
  BY DEF NoError, Exceptions

LEMMA InitHolds == Init => IInv
<1> SUFFICES ASSUME Init PROVE IInv
  OBVIOUS
<1>1. Types
  <2>1. commits \in Counters /\ running \in Counters /\ hidden \in Counters
    BY DEF Init, Counters
  <2>2. part \in 1..JobParts /\ attempt \in 0..(Attempts - 1) /\ runs \in 0..MaxRuns
    BY Numbers, PartsType DEF Init
  <2>3. session \in Nat /\ 1 <= session /\ session <= MaxSessions /\ staged \in Nat
        /\ staged <= session
    BY Numbers DEF Init
  <2> QED
    BY <2>1, <2>2, <2>3, NoErrorType DEF Init, Types
<1>2. Counted /\ Committed /\ Bound
  BY Numbers, PartsType DEF Init, Counted, Committed, Bound
<1>3. Exhausted
  BY DEF Init, Exhausted, ConflictsExhausted, NoError
<1> QED
  BY <1>1, <1>2, <1>3 DEF IInv

-----------------------------------------------------------------------------
LEMMA ConnectOpens ==
  ASSUME Types, NEW next, Connect(next)
  PROVE  /\ session' \in Nat /\ session <= session' /\ 1 <= session'
         /\ session' <= MaxSessions /\ alive' = TRUE /\ pc' = next
  BY Numbers DEF Types, Connect

\* What an exception does to the job, whichever it is.
Raised ==
  /\ pc' \in {"submit", "idle", "failed"}
  /\ kind' = kind /\ runs' = runs /\ staged' = staged
  /\ session' \in Nat /\ session <= session' /\ session' <= MaxSessions
  /\ alive' \in BOOLEAN
  /\ session' = session \/ kind # "managed"
  /\ part' = part \/ (part' = 1 /\ pc' = "submit")
  /\ reopened' \in BOOLEAN /\ attempt' \in 0..(Attempts - 1)
  /\ error' \in Exceptions
  /\ ConflictsExhausted'

\* The loop of execute_sql ends a lost commit race only at its last attempt.
LEMMA LeaveRaises ==
  ASSUME IInv, NEW e \in Exceptions, Leave(e), error' = e, e.type # "none",
         UNCHANGED <<kind, runs, staged>>
  PROVE  Raised
<1>0. /\ attempt \in Nat /\ attempt <= Attempts - 1 /\ reopened \in BOOLEAN
      /\ session \in Nat /\ session <= MaxSessions /\ alive \in BOOLEAN
  BY Numbers DEF IInv, Types
<1>1. UNCHANGED <<session, alive>>
  BY DEF Leave
<1> DEFINE again == Verdict(e) = "transient" /\ e.commitFailed /\ attempt < Attempts - 1
<1>2. /\ pc' \in {"submit", "idle", "failed"} /\ reopened' \in BOOLEAN
      /\ part' = part \/ (part' = 1 /\ pc' = "submit")
      /\ attempt' \in 0..(Attempts - 1)
  <2>1. CASE again
    <3>1. pc' = "submit" /\ part' = 1 /\ reopened' = FALSE /\ attempt' = attempt + 1
      BY <2>1 DEF Leave
    <3>2. attempt' \in 0..(Attempts - 1)
      BY <1>0, <2>1, <3>1, Numbers
    <3>3. reopened' \in BOOLEAN
      BY <3>1
    <3> QED
      BY <3>1, <3>2, <3>3
  <2>2. CASE ~again
    <3>1. pc' \in {"submit", "idle", "failed"} /\ part' = part
      BY <2>2 DEF Leave
    <3>2. attempt' \in 0..(Attempts - 1)
      <4>1. attempt' = attempt
        BY <2>2 DEF Leave
      <4> QED
        BY <1>0, <4>1, Numbers
    <3>3. reopened' \in BOOLEAN
      <4>1. reopened' = reopened
        BY <2>2 DEF Leave
      <4> QED
        BY <1>0, <4>1
    <3> QED
      BY <3>1, <3>2, <3>3
  <2> QED
    BY <2>1, <2>2
<1>3. ASSUME pc' \in {"idle", "failed"}, e.type = "Programming", e.commitFailed
      PROVE  pc' = "idle" /\ attempt' = Attempts - 1
  <2>1. Verdict(e) = "transient"
    BY <1>3 DEF Verdict
  <2>2. ~(attempt < Attempts - 1)
    BY <1>3, <2>1 DEF Leave
  <2>3. pc' = "idle" /\ attempt' = attempt
    BY <2>1, <2>2 DEF Leave
  <2> QED
    BY <1>0, <2>2, <2>3, Numbers
<1>4. ConflictsExhausted'
  BY <1>3 DEF ConflictsExhausted
<1> QED
  BY <1>0, <1>1, <1>2, <1>4 DEF Raised

LEMMA SubmitRaisesShape ==
  ASSUME IInv, NEW e \in Exceptions, SubmitRaises(e), e.type # "none"
  PROVE  Raised
<1>0. /\ attempt \in 0..(Attempts - 1) /\ session \in Nat /\ session <= MaxSessions
      /\ alive \in BOOLEAN /\ Types
  BY DEF IInv, Types
<1>1. error' = e /\ kind' = kind /\ runs' = runs /\ staged' = staged
  BY DEF SubmitRaises
<1>2. CASE ~reopened /\ kind # "managed" /\ IsSessionLost(e)
  <2>1. /\ pc' \in {"submit", "idle", "failed"} /\ part' = part /\ attempt' = attempt
        /\ reopened' = TRUE
    BY <1>2 DEF SubmitRaises, Connect, ConnectRaises
  <2>2. /\ session' \in Nat /\ session <= session' /\ session' <= MaxSessions
        /\ alive' \in BOOLEAN
    <3>1. CASE Connect("submit")
      BY <1>0, <3>1, ConnectOpens
    <3>2. CASE ConnectRaises({"idle", "failed"})
      BY <1>0, <3>2 DEF ConnectRaises
    <3> QED
      BY <1>2, <3>1, <3>2 DEF SubmitRaises
  <2>3. ConflictsExhausted'
    BY <1>1, <1>2 DEF ConflictsExhausted, IsSessionLost
  <2>4. attempt' \in 0..(Attempts - 1)
    BY <1>0, <2>1
  <2>5. reopened' \in BOOLEAN /\ error' \in Exceptions
    BY <1>1, <2>1
  <2>6. part' = part /\ kind # "managed" /\ pc' \in {"submit", "idle", "failed"}
    BY <1>2, <2>1
  <2> QED
    BY <1>1, <2>2, <2>3, <2>4, <2>5, <2>6 DEF Raised
<1>3. CASE ~(~reopened /\ kind # "managed" /\ IsSessionLost(e))
  BY <1>1, <1>3, LeaveRaises DEF SubmitRaises
<1> QED
  BY <1>2, <1>3

\* Whatever the server made of it, if what it made is seen or counted as hidden.
LEMMA RaisedKeeps ==
  ASSUME IInv, Raised, pc \in {"submit", "read", "fetch"},
         commits' \in Counters, running' \in Counters, hidden' \in Counters,
         \A p \in 1..Parts : commits'[p] >= commits[p],
         JobParts = 1 => commits'[1] + running'[1] <= hidden'[1]
  PROVE  IInv'
<1> USE Numbers, PartsType DEF IInv, Raised
<1>1. JobParts' = JobParts /\ (JobParts = 1 => 1 \in 1..Parts)
  BY DEF JobParts
<1>2. Types'
  BY <1>1 DEF Types
<1>3. Counted'
  <2> SUFFICES ASSUME JobParts = 1
               PROVE  /\ commits'[1] + running'[1] <= 1 + hidden'[1]
                      /\ commits'[1] + running'[1] <= hidden'[1]
    BY <1>1 DEF Counted
  <2>1. commits'[1] \in Nat /\ running'[1] \in Nat /\ hidden'[1] \in Nat
    BY <1>1 DEF Counters
  <2> QED
    BY <2>1
<1>4. Committed'
  <2> SUFFICES ASSUME pc' = "submit", NEW p \in 1..JobParts, p < part' PROVE commits'[p] > 0
    BY <1>1 DEF Committed
  <2>1. part' = part /\ part \in 1..JobParts
    BY DEF Types
  <2>2. commits[p] > 0
    BY <2>1 DEF Committed
  <2>3. p \in 1..Parts
    OBVIOUS
  <2>4. commits[p] \in Nat /\ commits'[p] \in Nat /\ commits'[p] >= commits[p]
    BY <2>3 DEF Types, Counters
  <2> QED
    BY <2>2, <2>4
<1>5. Bound'
  BY DEF Bound
<1>6. Exhausted'
  BY DEF Exhausted
<1> QED
  BY <1>2, <1>3, <1>4, <1>5, <1>6

-----------------------------------------------------------------------------
LEMMA StartKeeps == ASSUME IInv, Start PROVE IInv'
<1> USE Numbers, PartsType DEF IInv
<1>1. /\ pc = "idle" /\ runs' = runs + 1 /\ runs < MaxRuns
      /\ staged' = 0 /\ part' = 1 /\ reopened' = FALSE /\ attempt' = 0 /\ error' = NoError
      /\ UNCHANGED <<commits, running, kind, hidden>>
      /\ pc' \in {"idle", "stage", "submit"} /\ (kind = "managed" => pc' # "submit")
  BY DEF Start, Connect, ConnectRaises
<1>2. session' \in Nat /\ 1 <= session' /\ session' <= MaxSessions /\ alive' \in BOOLEAN
  <2>1. CASE UNCHANGED <<session, alive>>
    BY <2>1 DEF Types
  <2>2. CASE \E next \in {"stage", "submit"} : Connect(next)
    BY <2>2, ConnectOpens
  <2> QED
    BY <2>1, <2>2 DEF Start, ConnectRaises
<1>3. JobParts' = JobParts
  BY <1>1 DEF JobParts
<1>4. Types'
  <2>1. runs' \in 0..MaxRuns /\ part' \in 1..JobParts' /\ attempt' \in 0..(Attempts - 1)
    BY <1>1, <1>3 DEF Types
  <2>2. staged' \in Nat /\ staged' <= session'
    BY <1>1, <1>2
  <2>4. reopened' \in BOOLEAN /\ error' \in Exceptions
    BY <1>1, NoErrorType
  <2>3. commits' \in Counters /\ running' \in Counters /\ hidden' \in Counters /\ kind' \in Kinds
    BY <1>1 DEF Types
  <2> QED
    BY <1>1, <1>2, <2>1, <2>2, <2>3, <2>4 DEF Types
<1>5. Counted' /\ Committed' /\ Bound'
  BY <1>1, <1>3 DEF Counted, Committed, Bound
<1>6. Exhausted'
  BY <1>1 DEF Exhausted, ConflictsExhausted, NoError
<1> QED
  BY <1>4, <1>5, <1>6

LEMMA StageKeeps == ASSUME IInv, Stage \/ StageLost \/ StageRaises PROVE IInv'
<1> USE Numbers, PartsType DEF IInv
<1>1. /\ pc \in {"stage", "restage"} /\ pc' \in {"idle", "restage", "submit"}
      /\ pc' = "submit" => staged' = session'
      /\ UNCHANGED <<commits, running, kind, runs, part, reopened, attempt, error, hidden>>
  BY DEF Stage, StageLost, StageRaises, Connect, ConnectRaises, server, sql
<1>2. /\ session' \in Nat /\ 1 <= session' /\ session' <= MaxSessions /\ alive' \in BOOLEAN
      /\ staged' \in Nat /\ staged' <= session'
  <2>1. CASE Stage \/ StageRaises
    BY <2>1 DEF Stage, StageRaises, server, sql, Types
  <2>2. CASE StageLost /\ Connect("restage")
    <3>1. /\ session' \in Nat /\ session <= session' /\ 1 <= session'
          /\ session' <= MaxSessions /\ alive' = TRUE /\ staged' = staged
      BY <2>2, ConnectOpens DEF StageLost
    <3> QED
      BY <3>1 DEF Types
  <2>3. CASE StageLost /\ ConnectRaises({"idle"})
    BY <2>3 DEF StageLost, ConnectRaises, Types
  <2> QED
    BY <2>1, <2>2, <2>3 DEF StageLost
<1>3. JobParts' = JobParts
  BY <1>1 DEF JobParts
<1>4. Types'
  BY <1>1, <1>2, <1>3 DEF Types
<1>5. Counted' /\ Committed' /\ Bound'
  BY <1>1, <1>3 DEF Counted, Committed, Bound
<1>6. Exhausted'
  BY <1>1 DEF Exhausted, ConflictsExhausted, NoError
<1> QED
  BY <1>4, <1>5, <1>6

\* A statement that was refused, or failed, changed nothing.
LEMMA RefusedKeeps == ASSUME IInv, Refused \/ StatementFails PROVE IInv'
<1>1. PICK e \in Refusals \cup Failures : SubmitRaises(e)
  BY DEF Refused, StatementFails
<1>2. e \in Exceptions /\ e.type # "none"
  BY DEF Refusals, Failures
<1>3. Raised
  BY <1>1, <1>2, SubmitRaisesShape
<1>4. pc = "submit" /\ UNCHANGED <<commits, running, hidden>>
  BY DEF Refused, StatementFails
<1>5. /\ commits' \in Counters /\ running' \in Counters /\ hidden' \in Counters
      /\ \A p \in 1..Parts : commits'[p] >= commits[p]
  BY <1>4 DEF IInv, Types, Counters
<1>6. JobParts = 1 => commits'[1] + running'[1] <= hidden'[1]
  BY <1>4 DEF IInv, Counted
<1> QED
  BY <1>3, <1>4, <1>5, <1>6, RaisedKeeps

LEMMA Bump ==
  ASSUME NEW f \in Counters, NEW p \in 1..Parts
  PROVE  /\ [f EXCEPT ![p] = @ + 1] \in Counters
         /\ [f EXCEPT ![p] = @ + 1][p] = f[p] + 1
         /\ \A q \in 1..Parts : [f EXCEPT ![p] = @ + 1][q] >= f[q]
  BY DEF Counters

\* A statement whose answer is lost counts once as hidden, and commits once at most.
LEMMA HiddenKeeps == ASSUME IInv, Hidden PROVE IInv'
<1> USE Numbers, PartsType
<1>1. PICK e \in Unseen : SubmitRaises(e)
  BY DEF Hidden
<1>2. Raised
  BY <1>1, SubmitRaisesShape DEF Unseen
<1>3. pc = "submit" /\ part \in 1..Parts /\ hidden' = [hidden EXCEPT ![part] = @ + 1]
  BY DEF Hidden, IInv, Types
<1>4. commits \in Counters /\ running \in Counters /\ hidden \in Counters
  BY DEF IInv, Types
<1>5. \/ commits' = [commits EXCEPT ![part] = @ + 1] /\ UNCHANGED running
      \/ running' = [running EXCEPT ![part] = @ + 1] /\ UNCHANGED commits
      \/ UNCHANGED <<commits, running>>
  BY DEF Hidden
<1>6. /\ commits' \in Counters /\ running' \in Counters /\ hidden' \in Counters
      /\ \A p \in 1..Parts : commits'[p] >= commits[p]
  <2>1. commits' \in Counters /\ running' \in Counters /\ hidden' \in Counters
    BY <1>3, <1>4, <1>5, Bump
  <2>2. ASSUME NEW p \in 1..Parts PROVE commits'[p] >= commits[p]
    <3>1. commits[p] \in Nat
      BY <1>4 DEF Counters
    <3>2. commits'[p] = commits[p] \/ commits'[p] = commits[p] + 1
      BY <1>3, <1>4, <1>5 DEF Counters
    <3> QED
      BY <3>1, <3>2
  <2> QED
    BY <2>1, <2>2
<1>7. ASSUME JobParts = 1 PROVE commits'[1] + running'[1] <= hidden'[1]
  <2>1. part = 1 /\ commits[1] + running[1] <= hidden[1]
    BY <1>3, <1>7 DEF IInv, Types, Counted
  <2>2. hidden'[1] = hidden[1] + 1
    BY <1>3, <1>4, <2>1, Bump
  <2>3. \/ commits'[1] = commits[1] + 1 /\ running'[1] = running[1]
        \/ commits'[1] = commits[1] /\ running'[1] = running[1] + 1
        \/ commits'[1] = commits[1] /\ running'[1] = running[1]
    BY <1>3, <1>4, <1>5, <2>1, Bump
  <2> QED
    BY <1>3, <1>4, <2>1, <2>2, <2>3 DEF Counters
<1> QED
  BY <1>2, <1>3, <1>6, <1>7, RaisedKeeps

\* Rows that cannot be read hide that their statement ran.
LEMMA RowsRaiseKeeps == ASSUME IInv, FirstPageRaises \/ FetchRaises PROVE IInv'
<1> USE Numbers, PartsType
<1>1. Raised
  <2>1. CASE FirstPageRaises
    BY <2>1, SubmitRaisesShape DEF FirstPageRaises, RowErrors
  <2>2. CASE FetchRaises
    BY <2>2, LeaveRaises DEF FetchRaises, RowErrors
  <2> QED
    BY <2>1, <2>2
<1>2. /\ pc \in {"read", "fetch"} /\ UNCHANGED <<commits, running>>
      /\ hidden' = [hidden EXCEPT ![part] = @ + 1]
  BY DEF FirstPageRaises, FetchRaises
<1>3. /\ commits \in Counters /\ running \in Counters /\ hidden \in Counters
      /\ part \in 1..Parts /\ (JobParts = 1 => part = 1)
  BY DEF IInv, Types
<1>4. /\ commits' \in Counters /\ running' \in Counters /\ hidden' \in Counters
      /\ \A p \in 1..Parts : commits'[p] >= commits[p]
  BY <1>2, <1>3, Bump DEF Counters
<1>5. JobParts = 1 => commits'[1] + running'[1] <= hidden'[1]
  BY <1>2, <1>3, Bump DEF IInv, Counted, Counters
<1> QED
  BY <1>1, <1>2, <1>4, <1>5, RaisedKeeps

-----------------------------------------------------------------------------
LEMMA DoneKeeps == ASSUME IInv, StatementDone PROVE IInv'
<1> USE Numbers, PartsType DEF IInv
<1>1. /\ pc = "submit" /\ pc' = "read" /\ error' = NoError
      /\ commits' = [commits EXCEPT ![part] = @ + 1]
      /\ UNCHANGED <<session, alive, running, kind, runs, staged, part, reopened, attempt, hidden>>
  BY DEF StatementDone, sql
<1>2. part \in 1..JobParts /\ part \in 1..Parts /\ commits \in Counters
  BY DEF Types
<1>3. JobParts' = JobParts
  BY <1>1 DEF JobParts
<1>4. Types'
  BY <1>1, <1>2, <1>3, NoErrorType, Bump DEF Types
<1>5. Counted'
  BY <1>1, <1>2, <1>3, Bump DEF Counted, Types, Counters
<1>6. Committed'
  <2> SUFFICES ASSUME NEW p \in 1..JobParts, p <= part PROVE commits'[p] > 0
    BY <1>1, <1>3 DEF Committed
  <2>1. CASE p = part
    BY <1>1, <1>2, <2>1, Bump DEF Counters
  <2>2. CASE p < part
    BY <1>1, <1>2, <2>2 DEF Committed, Counters
  <2> QED
    BY <1>2, <2>1, <2>2
<1>7. Bound' /\ Exhausted'
  BY <1>1 DEF Bound, Exhausted, ConflictsExhausted
<1> QED
  BY <1>4, <1>5, <1>6, <1>7

LEMMA FirstPageKeeps == ASSUME IInv, FirstPage \/ Fetched PROVE IInv'
<1> USE Numbers, PartsType DEF IInv
<1>1. /\ pc \in {"read", "fetch"} /\ pc' \in {"submit", "fetch", "loaded"}
      /\ UNCHANGED <<session, alive, commits, running, kind, runs, staged, reopened, attempt,
                     error, hidden>>
  BY DEF FirstPage, Fetched, server, sql
<1>2. JobParts' = JobParts
  BY <1>1 DEF JobParts
<1>3. /\ pc' = "submit" => pc = "read" /\ part < JobParts /\ part' = part + 1
      /\ pc' = "fetch" => pc = "read" /\ ~(part < JobParts) /\ part' = part
      /\ pc' = "loaded" => pc = "fetch" /\ part' = part
  BY DEF FirstPage, Fetched, sql
<1>4. part \in 1..JobParts
  BY DEF Types
<1>5. Types'
  BY <1>1, <1>2, <1>3, <1>4 DEF Types
<1>6. Counted'
  BY <1>1, <1>2, <1>3, <1>4 DEF Counted
<1>7. Committed'
  BY <1>1, <1>2, <1>3, <1>4 DEF Committed
<1>8. Bound' /\ Exhausted'
  BY <1>1 DEF Bound, Exhausted, ConflictsExhausted
<1> QED
  BY <1>5, <1>6, <1>7, <1>8

\* A statement that nobody follows was counted when it was hidden.
LEMMA LateKeeps == ASSUME IInv, LateCommit PROVE IInv'
<1> USE Numbers, PartsType DEF IInv
<1>1. PICK p \in 1..Parts :
        /\ running[p] > 0
        /\ running' = [running EXCEPT ![p] = @ - 1]
        /\ commits' = [commits EXCEPT ![p] = @ + 1]
        /\ UNCHANGED <<session, alive, kind, runs, pc, sql, error, hidden>>
  BY DEF LateCommit
<1>2. JobParts' = JobParts
  BY <1>1 DEF JobParts
<1>3. commits \in Counters /\ running \in Counters
  BY DEF Types
<1>4. commits' \in Counters /\ running' \in Counters
  BY <1>1, <1>3, Bump DEF Counters
<1>5. ASSUME NEW q \in 1..Parts
      PROVE  /\ commits'[q] >= commits[q]
             /\ commits'[q] + running'[q] = commits[q] + running[q]
  <2>1. commits[q] \in Nat /\ running[q] \in Nat
    BY <1>3 DEF Counters
  <2>2. q = p => commits'[q] = commits[q] + 1 /\ running'[q] = running[q] - 1
    BY <1>1, <1>3 DEF Counters
  <2>3. q # p => commits'[q] = commits[q] /\ running'[q] = running[q]
    BY <1>1, <1>3 DEF Counters
  <2> QED
    BY <2>1, <2>2, <2>3
<1>6. Types'
  BY <1>1, <1>2, <1>4 DEF Types, sql
<1>7. Counted'
  BY <1>1, <1>2, <1>5 DEF Counted
<1>8. Committed'
  <2>1. pc' = pc /\ part' = part
    BY <1>1 DEF sql
  <2>2. ASSUME NEW q \in 1..JobParts, commits[q] > 0 PROVE commits'[q] > 0
    <3>1. q \in 1..Parts
      OBVIOUS
    <3>2. commits[q] \in Nat /\ commits'[q] = IF q = p THEN commits[q] + 1 ELSE commits[q]
      BY <1>1, <3>1 DEF Types, Counters
    <3> QED
      BY <2>2, <3>2
  <2> QED
    BY <1>2, <2>1, <2>2 DEF Committed
<1>9. Bound' /\ Exhausted'
  BY <1>1 DEF Bound, Exhausted, ConflictsExhausted, sql
<1> QED
  BY <1>6, <1>7, <1>8, <1>9

LEMMA DropKeeps == ASSUME IInv, Drop PROVE IInv'
<1>1. JobParts' = JobParts
  BY DEF Drop, JobParts
<1>2. Types'
  BY <1>1 DEF Drop, sql, IInv, Types
<1>3. Counted' /\ Committed'
  BY <1>1 DEF Drop, sql, IInv, Counted, Committed
<1>4. Bound' /\ Exhausted'
  BY DEF Drop, sql, IInv, Bound, Exhausted, ConflictsExhausted
<1> QED
  BY <1>2, <1>3, <1>4 DEF IInv

LEMMA Inductive == Spec => []IInv
<1>1. IInv /\ [Next]_vars => IInv'
  <2> SUFFICES ASSUME IInv, [Next]_vars PROVE IInv'
    OBVIOUS
  <2>1. CASE UNCHANGED vars
    <3>1. JobParts' = JobParts
      BY <2>1 DEF vars, JobParts
    <3>2. Types'
      BY <2>1, <3>1 DEF vars, server, sql, IInv, Types
    <3>3. Counted' /\ Committed'
      BY <2>1, <3>1 DEF vars, server, sql, IInv, Counted, Committed
    <3>4. Bound' /\ Exhausted'
      BY <2>1 DEF vars, server, sql, IInv, Bound, Exhausted, ConflictsExhausted
    <3> QED
      BY <3>2, <3>3, <3>4 DEF IInv
  <2>2. CASE Next
    BY <2>2, StartKeeps, StageKeeps, RefusedKeeps, HiddenKeeps, RowsRaiseKeeps, DoneKeeps,
       FirstPageKeeps, LateKeeps, DropKeeps DEF Next, JobStep
  <2> QED
    BY <2>1, <2>2
<1> QED
  BY <1>1, InitHolds, PTL DEF Spec

-----------------------------------------------------------------------------
\* The type invariant, for any number of parts and runs.
THEOREM JobTypes == Spec => []TypeOK
<1>1. IInv => TypeOK
  BY DEF IInv, Types, TypeOK, Counters
<1> QED
  BY <1>1, Inductive, PTL

\* The client's retries duplicate nothing by themselves (sql_client.py 77-82,
\* 97-103, 325-366).
THEOREM JobDuplicatesNothing == Spec => []NoDuplicates
<1>1. IInv => NoDuplicates
  BY DEF IInv, Counted, NoDuplicates
<1> QED
  BY <1>1, Inductive, PTL

\* A loaded job has committed all its parts (sql_client.py 325-330, 353-367).
THEOREM LoadedMeansCommitted == Spec => []LoadedIsCommitted
<1>1. IInv => LoadedIsCommitted
  BY DEF IInv, Committed, LoadedIsCommitted
<1> QED
  BY <1>1, Inductive, PTL

\* A staged file is read by the session that staged it (load_jobs.py 57-83).
THEOREM StagedWhereRead == Spec => []StagedOnOwnSession
<1>1. IInv => StagedOnOwnSession
  BY DEF IInv, Bound, StagedOnOwnSession
<1> QED
  BY <1>1, Inductive, PTL

\* A lost commit race uses up its attempts, and is never terminal (sql_client.py
\* 325-334, 374-378).
THEOREM RacesExhausted == Spec => []ConflictsExhausted
<1>1. IInv => ConflictsExhausted
  BY DEF IInv, Exhausted
<1> QED
  BY <1>1, Inductive, PTL
=============================================================================
