-------------------------- MODULE DbtSessionProofs --------------------------
(***************************************************************************)
(* The safety properties of DbtSession, proved for any number of threads    *)
(* and sessions.                                                           *)
(*                                                                         *)
(* A step of the manager is one thread's: the invariant says of each thread *)
(* what its place implies, and of the threads together that their sessions  *)
(* differ and that every open session is in somebody's hands.              *)
(***************************************************************************)
EXTENDS DbtSession, TLAPS

Types ==
  /\ alive \subseteq Sessions /\ orphaned \subseteq alive /\ dead \subseteq Sessions
  /\ state \in [Threads -> States]
  /\ handle \in [Threads -> Sessions \cup {None}]
  /\ tx \in [Threads -> BOOLEAN]
  /\ pc \in [Threads -> Places]
  /\ attempt \in [Threads -> {0, 1, 2}]
  /\ ran \in [Threads -> {0, 1, 2}] /\ late \in [Threads -> BOOLEAN]
  /\ lock \in Threads \cup {None}
  /\ phase \in {"run", "cleanup", "over"}

\* Where a thread has a session.
Handled(t) ==
  /\ state[t] = "open" <=> handle[t] # None
  /\ pc[t] \in {"submit", "direct"} => state[t] = "open"
  /\ pc[t] \in {"open", "opening"} => state[t] # "open"

\* What a thread that is about to send has sent: nothing the first time, and at
\* most the statement of a late 409 the second time.
Counted(t) ==
  /\ ~late[t] => ran[t] <= 1
  /\ pc[t] \in {"open", "opening", "submit"} =>
       \/ attempt[t] = 1 /\ ran[t] = 0 /\ ~late[t]
       \/ attempt[t] = 2 /\ ran[t] <= 1 /\ (ran[t] = 1 => late[t])

Rested(t) == pc[t] = "idle" => ~tx[t]

Apart == \A t, u \in Threads : t # u /\ handle[t] # None => handle[t] # handle[u]

Quiet == phase # "run" => \A t \in Threads : pc[t] = "idle"

IInv ==
  /\ Types /\ Apart /\ Quiet /\ NothingLost
  /\ \A t \in Threads : Handled(t) /\ Counted(t) /\ Rested(t)

LEMMA InitHolds == Init => IInv
  BY NoneAssumption
  DEF Init, IInv, Types, Apart, Quiet, NothingLost, Handled, Counted, Rested, States, Places

-----------------------------------------------------------------------------
\* A step of thread t leaves the other threads alone.
Others(t) ==
  \A u \in Threads \ {t} :
    /\ state'[u] = state[u] /\ handle'[u] = handle[u] /\ tx'[u] = tx[u]
    /\ pc'[u] = pc[u] /\ attempt'[u] = attempt[u] /\ ran'[u] = ran[u] /\ late'[u] = late[u]

LEMMA OwnStep ==
  ASSUME IInv, NEW t \in Threads, Others(t), Types', Handled(t)', Counted(t)', Rested(t)',
         Apart', NothingLost', phase' = phase, pc[t] = "idle" => phase = "run" \/ pc'[t] = "idle"
  PROVE  IInv'
<1>1. ASSUME NEW u \in Threads PROVE Handled(u)' /\ Counted(u)' /\ Rested(u)'
  <2>1. CASE u = t
    BY <2>1
  <2>2. CASE u # t
    BY <1>1, <2>2 DEF IInv, Others, Handled, Counted, Rested
  <2> QED
    BY <2>1, <2>2
<1>2. Quiet'
  BY DEF IInv, Quiet, Others
<1> QED
  BY <1>1, <1>2 DEF IInv

\* A step of t that keeps every handle and every session.
LEMMA PlainStep ==
  ASSUME IInv, NEW t \in Threads, Others(t), Types', Handled(t)', Counted(t)', Rested(t)',
         UNCHANGED <<alive, orphaned, handle, phase>>,
         pc[t] = "idle" => phase = "run"
  PROVE  IInv'
<1>1. Apart' /\ NothingLost'
  BY DEF IInv, Apart, NothingLost
<1> QED
  BY <1>1, OwnStep

LEMMA NodeKeeps ==
  ASSUME IInv, NEW t \in Threads, StartNode(t) \/ SetTransaction(t) \/ EndNode(t)
  PROVE  IInv'
<1> USE DEF IInv, StartNode, SetTransaction, EndNode, GoTo, server, connections, history
<1>1. Others(t) /\ UNCHANGED <<alive, orphaned, handle, phase>>
  BY DEF Others, Types
<1>2. Types'
  BY DEF Types, Places
<1>3. Handled(t)' /\ Counted(t)' /\ Rested(t)'
  BY DEF Types, Handled, Counted, Rested
<1>4. pc[t] = "idle" => phase = "run"
  OBVIOUS
<1> QED
  BY <1>1, <1>2, <1>3, <1>4, PlainStep

LEMMA AddQueryKeeps ==
  ASSUME IInv, NEW t \in Threads, AddQuery(t) \/ CatalogRows(t) \/ TakeLock(t)
  PROVE  IInv'
<1> USE DEF IInv, AddQuery, CatalogRows, TakeLock, GoTo, server, connections, history
<1>1. Others(t) /\ UNCHANGED <<alive, orphaned, handle, phase>>
  BY DEF Others, Types
<1>2. Types'
  BY DEF Types, Places
<1>3. Handled(t)' /\ Counted(t)' /\ Rested(t)'
  BY DEF Types, Handled, Counted, Rested
<1>4. pc[t] # "idle"
  OBVIOUS
<1> QED
  BY <1>1, <1>2, <1>3, <1>4, PlainStep

LEMMA SendKeeps ==
  ASSUME IInv, NEW t \in Threads, Runs(t) \/ Fails(t) \/ Describe(t)
  PROVE  IInv'
<1> USE DEF IInv, Runs, Fails, Describe, Ran, GoTo, server, connections, history
<1>1. Others(t) /\ UNCHANGED <<alive, orphaned, handle, phase>>
  BY DEF Others, Types
<1>2. Types'
  <2>1. CASE Describe(t)
    <3>1. handle[t] \in Sessions
      BY <2>1 DEF Types, Handled
    <3> QED
      BY <2>1, <3>1 DEF Types, Places
  <2>2. CASE Runs(t) \/ Fails(t)
    <3>1. pc[t] = "submit" /\ ran[t] \in {0, 1}
      BY <2>2 DEF Types, Counted
    <3>2. ran' \in [Threads -> {0, 1, 2}]
      BY <2>2, <3>1 DEF Types
    <3> QED
      BY <2>2, <3>2 DEF Types, Places
  <2> QED
    BY <2>1, <2>2
<1>3. Handled(t)' /\ Counted(t)' /\ Rested(t)'
  BY DEF Types, Handled, Counted, Rested
<1>4. pc[t] # "idle"
  OBVIOUS
<1> QED
  BY <1>1, <1>2, <1>3, <1>4, PlainStep

-----------------------------------------------------------------------------
\* A new session is nobody else's.
LEMMA OpenedKeeps ==
  ASSUME IInv, NEW t \in Threads, NEW s \in Sessions, Opened(t, s)
  PROVE  IInv'
<1> USE NoneAssumption DEF IInv, Opened, GoTo, history
<1>1. Others(t) /\ phase' = phase
  BY DEF Others, Types
<1>2. Types'
  BY DEF Types, Places, States
<1>3. Handled(t)' /\ Counted(t)' /\ Rested(t)'
  BY DEF Types, Handled, Counted, Rested
<1>4. Apart'
  BY DEF Apart, Free, Types
<1>5. NothingLost'
  BY DEF NothingLost, Types, Quiet, Free, Handled
<1> QED
  BY <1>1, <1>2, <1>3, <1>4, <1>5, OwnStep

LEMMA OpenFailsKeeps == ASSUME IInv, NEW t \in Threads, OpenFails(t) PROVE IInv'
<1> USE NoneAssumption DEF IInv, OpenFails, Drop, GoTo, history, server
<1>0. handle[t] = None /\ handle' = handle
  BY DEF Handled, Types
<1>1. Others(t) /\ phase' = phase
  BY DEF Others, Types
<1>2. Types'
  BY DEF Types, Places, States
<1>3. Handled(t)' /\ Counted(t)' /\ Rested(t)'
  BY <1>0 DEF Types, Handled, Counted, Rested
<1>4. Apart'
  BY <1>0 DEF Apart
<1>5. NothingLost'
  BY <1>0 DEF NothingLost
<1> QED
  BY <1>1, <1>2, <1>3, <1>4, <1>5, OwnStep

\* A session that is dropped was closed, or is orphaned if it is still open.
LEMMA DropKeeps ==
  ASSUME IInv, NEW t \in Threads, NEW st, Drop(t, st), phase # "over", phase' = phase,
         alive' \subseteq alive, handle[t] \notin alive' \ orphaned', orphaned \cap alive' \subseteq orphaned'
  PROVE  Apart' /\ NothingLost'
<1>1. Apart'
  BY DEF IInv, Apart, Drop, Types
<1>2. NothingLost'
  <2> SUFFICES ASSUME NEW s \in alive' \ orphaned' PROVE \E u \in Threads : handle'[u] = s
    BY DEF NothingLost
  <2>1. PICK u \in Threads : handle[u] = s
    BY DEF IInv, NothingLost
  <2>2. u # t
    BY <2>1
  <2> QED
    BY <2>1, <2>2 DEF IInv, Types, Drop
<1> QED
  BY <1>1, <1>2

LEMMA ReopensKeeps == ASSUME IInv, NEW t \in Threads, NEW n \in {0, 1}, Reopens(t, n) PROVE IInv'
<1> USE NoneAssumption DEF IInv, Reopens, GoTo
<1>1. Others(t) /\ phase' = phase
  BY DEF Others, Types, Drop
<1>2. Types'
  <2>1. ran[t] \in {0, 1} /\ late' \in [Threads -> BOOLEAN]
    BY DEF Types, Counted
  <2>2. ran' \in [Threads -> {0, 1, 2}] /\ attempt' \in [Threads -> {0, 1, 2}]
    BY <2>1 DEF Types
  <2>3. alive' \subseteq Sessions /\ orphaned' \subseteq alive' /\ dead' \subseteq Sessions
    BY DEF Types
  <2>4. state' \in [Threads -> States] /\ handle' \in [Threads -> Sessions \cup {None}]
        /\ pc' \in [Threads -> Places]
    BY DEF Types, Drop, States, Places
  <2> QED
    BY <2>1, <2>2, <2>3, <2>4 DEF Types
<1>3. Handled(t)' /\ Counted(t)' /\ Rested(t)'
  <2>1. Handled(t)' /\ Rested(t)'
    BY DEF Types, Handled, Rested, Drop
  <2>2. /\ pc[t] = "submit" /\ pc'[t] \in {"open", "release"}
        /\ pc'[t] = "open" => attempt[t] = 1
        /\ attempt'[t] = 2
    BY DEF Types
  <2>3. ran[t] \in {0, 1, 2} /\ Counted(t)
    BY DEF Types
  <2>4. n = 0 => ran'[t] = ran[t] /\ (late'[t] <=> late[t])
    BY DEF Types
  <2>5. n = 1 => ran'[t] = ran[t] + 1 /\ late'[t]
    BY DEF Types
  <2>6. Counted(t)'
    BY ONLY <2>2, <2>3, <2>4, <2>5, n \in {0, 1} DEF Counted
  <2> QED
    BY <2>1, <2>6
<1>4. phase # "over"
  BY DEF Quiet
<1>5. Apart' /\ NothingLost'
  BY <1>1, <1>4, DropKeeps
<1> QED
  BY <1>1, <1>2, <1>3, <1>5, OwnStep

LEMMA CloseTypes ==
  ASSUME IInv, NEW t \in Threads, handle[t] # None, CloseHandle(handle[t])
  PROVE  /\ alive' \subseteq alive /\ orphaned' \subseteq alive' /\ dead' \subseteq dead
         /\ handle[t] \notin alive' \ orphaned' /\ orphaned \cap alive' \subseteq orphaned'
  BY DEF IInv, Types, CloseHandle

LEMMA ReleaseKeeps == ASSUME IInv, NEW t \in Threads, Release(t) PROVE IInv'
<1> USE NoneAssumption DEF IInv, Release, GoTo, history
<1>1. Others(t) /\ phase' = phase /\ phase # "over"
  BY DEF Others, Types, Drop, Quiet
<1>2. CASE tx[t] /\ state[t] = "open"
  <2>1. Drop(t, "closed") /\ CloseHandle(handle[t]) /\ handle[t] # None
    BY <1>2 DEF Handled
  <2>2. Types'
    BY <1>2, <2>1, CloseTypes DEF Types, Places, States, Drop
  <2>3. Handled(t)' /\ Counted(t)' /\ Rested(t)'
    BY <2>1 DEF Types, Handled, Counted, Rested, Drop
  <2>4. Apart' /\ NothingLost'
    BY <1>1, <2>1, CloseTypes, DropKeeps
  <2> QED
    BY <1>1, <2>2, <2>3, <2>4, OwnStep
<1>3. CASE ~(tx[t] /\ state[t] = "open")
  <2>1. UNCHANGED <<state, handle, server>>
    BY <1>3
  <2>2. Types'
    BY <2>1 DEF Types, Places, server
  <2>3. Handled(t)' /\ Counted(t)' /\ Rested(t)'
    BY <2>1 DEF Types, Handled, Counted, Rested
  <2> QED
    BY <1>1, <2>1, <2>2, <2>3, PlainStep DEF server
<1> QED
  BY <1>2, <1>3

LEMMA CleanupKeeps == ASSUME IInv, NEW t \in Threads, Cleanup(t) PROVE IInv'
<1> USE NoneAssumption DEF IInv, Cleanup, history
<1>1. Others(t) /\ phase' = phase /\ phase # "over" /\ pc'[t] = pc[t]
  BY DEF Others, Types, Drop
<1>2. Types'
  BY CloseTypes DEF Types, States, Drop
<1>3. Handled(t)' /\ Counted(t)' /\ Rested(t)'
  BY DEF Types, Handled, Counted, Rested, Drop, Quiet
<1>4. Apart' /\ NothingLost'
  BY <1>1, CloseTypes, DropKeeps
<1> QED
  BY <1>1, <1>2, <1>3, <1>4, OwnStep

\* The phases, and the server.
LEMMA PhaseKeeps == ASSUME IInv, StartCleanup \/ EndCleanup PROVE IInv'
<1> USE NoneAssumption DEF IInv, StartCleanup, EndCleanup, server, connections, history
<1>1. Types' /\ Apart' /\ Quiet' /\ \A t \in Threads : Handled(t)' /\ Counted(t)' /\ Rested(t)'
  BY DEF Types, Apart, Quiet, Handled, Counted, Rested
<1>2. NothingLost'
  BY DEF NothingLost, Types
<1> QED
  BY <1>1, <1>2

LEMMA ReapKeeps == ASSUME IInv, NEW s \in Sessions, Reap(s) PROVE IInv'
<1> USE DEF IInv, Reap, connections, history
<1>1. Types' /\ Apart' /\ Quiet' /\ \A t \in Threads : Handled(t)' /\ Counted(t)' /\ Rested(t)'
  BY DEF Types, Apart, Quiet, Handled, Counted, Rested
<1>2. NothingLost'
  BY DEF NothingLost, Types
<1> QED
  BY <1>1, <1>2

LEMMA Inductive == Spec => []IInv
<1>1. IInv /\ [Next]_vars => IInv'
  <2> SUFFICES ASSUME IInv, [Next]_vars PROVE IInv'
    OBVIOUS
  <2>1. CASE UNCHANGED vars
    BY <2>1 DEF vars, server, connections, history, IInv, Types, Apart, Quiet, NothingLost,
                Handled, Counted, Rested
  <2>2. CASE Next
    BY <2>2, NodeKeeps, AddQueryKeeps, SendKeeps, OpenedKeeps, OpenFailsKeeps, ReopensKeeps,
       ReleaseKeeps, CleanupKeeps, PhaseKeeps, ReapKeeps DEF Next
  <2> QED
    BY <2>1, <2>2
<1> QED
  BY <1>1, InitHolds, PTL DEF Spec

-----------------------------------------------------------------------------
\* The type invariant, for any number of threads.
THEOREM ManagerTypes == Spec => []TypeOK
<1>1. IInv => TypeOK
  BY DEF IInv, Types, TypeOK, Handled
<1> QED
  BY <1>1, Inductive, PTL

\* A thread's session is its own, and an idle thread has no transaction open
\* (connections.py 51-62, 73-79).
THEOREM ThreadsApart == Spec => []OwnSession
<1>1. IInv => OwnSession
  BY DEF IInv, Apart, Rested, OwnSession
<1> QED
  BY <1>1, Inductive, PTL

\* The manager loses no session (connections.py 64-79, 102-116).
THEOREM SessionsKept == Spec => []NothingLost
<1>1. IInv => NothingLost
  BY DEF IInv
<1> QED
  BY <1>1, Inductive, PTL

\* What add_query sends again had not run, but for a late 409 (connections.py
\* 27-33, 96-116).
THEOREM SentAgainUnrun == Spec => []RunsOnce
<1>1. IInv => RunsOnce
  BY DEF IInv, Counted, RunsOnce
<1> QED
  BY <1>1, Inductive, PTL
=============================================================================
