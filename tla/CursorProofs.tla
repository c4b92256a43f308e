---------------------------- MODULE CursorProofs ----------------------------
(***************************************************************************)
(* What a cursor of the SQL connector promises, proved for any number of     *)
(* cursors, statements, rows and requests: the safety properties of          *)
(* StatementLifecycle (execute, cancel and close), then those of             *)
(* ResultPaging (the rows of its result), then that ResultPaging implements  *)
(* RowCursor.                                                                *)
(***************************************************************************)
EXTENDS StatementLifecycle, ResultPagingRefinement, SequenceTheorems, TLAPS

-----------------------------------------------------------------------------
(* Statements.  A status only moves forward, whoever moves it: the worker's     *)
(* time-out, the canceller and the server may do so between any two steps.     *)
(* The invariant says what each of them knows of a status that may have moved  *)
(* since.                                                                     *)


\* TypeOK, variable group by variable group.
ServerTypes ==
  /\ session \in {"open", "gone"}
  /\ status \in [Statements -> Statuses]
  /\ call \in [Statements -> 0..MaxExecutes]

CursorTypes ==
  /\ live \in SUBSET Cursors
  /\ closed \in BOOLEAN /\ dead \in BOOLEAN
  /\ queryId \in [Cursors -> Statements \cup {None}]
  /\ result \in [Cursors -> Statements \cup {None}]

WorkerTypes ==
  /\ pc \in {"idle", "posting", "held", "following"}
  /\ cursor \in Cursors
  /\ stmt \in Statements \cup {None}
  /\ seen \in Statuses
  /\ polls \in 0..MaxPolls
  /\ executes \in 0..MaxExecutes
  /\ outcome \in {"none", "returned", "raised"}

CancelTypes ==
  /\ cancelPc \in {"idle", "cancelling", "done"}
  /\ todo \in SUBSET Cursors
  /\ target \in Statements \cup {None}
  /\ recorded \in BOOLEAN

HistoryTypes == lost \in SUBSET Statements /\ unreleased \in BOOLEAN

LEMMA Bounds ==
  /\ MaxExecutes \in Nat /\ MaxPolls \in Nat
  /\ 0 \in 0..MaxExecutes /\ 0 \in 0..MaxPolls
  BY BoundsAssumption

LEMMA TypeParts ==
  TypeOK <=> ServerTypes /\ CursorTypes /\ WorkerTypes /\ CancelTypes /\ HistoryTypes
  BY DEF TypeOK, ServerTypes, CursorTypes, WorkerTypes, CancelTypes, HistoryTypes

LEMMA TypePartsNext ==
  ServerTypes' /\ CursorTypes' /\ WorkerTypes' /\ CancelTypes' /\ HistoryTypes' => TypeOK'
  BY DEF TypeOK, ServerTypes, CursorTypes, WorkerTypes, CancelTypes, HistoryTypes

\* What the cursors hold was accepted, and rows are of what finished.
Held ==
  \A u \in Cursors :
    /\ queryId[u] # None => status[queryId[u]] # "none"
    /\ result[u] # None => status[result[u]] = "done"

\* The worker's statement, and how far it knows it.
Followed ==
  /\ pc \in {"held", "following"} => stmt \in Statements /\ status[stmt] # "none"
  /\ pc = "following" =>
       /\ queryId[cursor] = stmt /\ seen # "none"
       /\ seen # "pending" => status[stmt] = seen

Served ==
  pc = "idle" /\ outcome = "returned" /\ stmt # None =>
    /\ status[stmt] = "done" /\ queryId[cursor] = stmt
    /\ cursor \in live => result[cursor] = stmt

\* What runs is followed, or lost.
Watched ==
  \A q \in Statements : status[q] = "pending" =>
    q \in lost \/ (pc \in {"held", "following"} /\ stmt = q)

\* A recorded target that still runs is yet to be cancelled, on the worker's cursor.
Sought ==
  /\ cancelPc = "idle" => target = None
  /\ target # None => status[target] # "none"
  /\ target # None /\ recorded /\ target \notin lost /\ status[target] = "pending"
       => cancelPc = "cancelling" /\ pc = "following" /\ stmt = target /\ cursor \in todo

IInv == TypeOK /\ Held /\ Followed /\ Served /\ Watched /\ Sought

LEMMA InitHolds == Init => IInv
<1> SUFFICES ASSUME Init PROVE IInv
  OBVIOUS
<1>1. TypeOK
  <2>1. ServerTypes
    BY Bounds DEF Init, ServerTypes, Statuses
  <2>2. CursorTypes /\ CancelTypes /\ HistoryTypes
    BY DEF Init, CursorTypes, CancelTypes, HistoryTypes
  <2>3. WorkerTypes
    BY Bounds DEF Init, WorkerTypes, Statuses
  <2> QED
    BY <2>1, <2>2, <2>3, TypeParts
<1> QED
  BY <1>1 DEF Init, IInv, Held, Followed, Served, Watched, Sought

\* A status moves from "none" to "pending" to an end, and stays there.
Forward ==
  \A q \in Statements :
    /\ status'[q] = "pending" => status[q] \in {"none", "pending"}
    /\ status[q] # "none" => status'[q] # "none"
    /\ status[q] \notin {"none", "pending"} => status'[q] = status[q]

\* A step that only moves statuses forward, accepting nothing.
LEMMA ForwardKeeps ==
  ASSUME IInv, TypeOK', Forward, \A q \in Statements : status'[q] = "pending" => status[q] = "pending",
         UNCHANGED <<rows, worker, live, lost, target, recorded>>,
         cancelPc' = cancelPc /\ todo' = todo
  PROVE  IInv'
<1> USE NoneAssumption DEF IInv, rows, worker
<1>1. Held' /\ Followed'
  BY DEF Held, Followed, Forward, TypeOK, Statuses
<1>2. Served'
  BY DEF Served, Forward, TypeOK
<1>3. Watched'
  BY DEF Watched
<1>4. Sought'
  BY DEF Sought, Forward, TypeOK
<1> QED
  BY <1>1, <1>2, <1>3, <1>4

-----------------------------------------------------------------------------
(* The worker.                                                             *)

LEMMA ExecuteKeeps == ASSUME IInv, NEW u \in Cursors, Execute(u) PROVE IInv'
<1> USE NoneAssumption, StatementsAssumption, Bounds
    DEF IInv, Execute, Leave, Raise, Usable, server, connection, rows, worker, canceller, history
<1>1. TypeOK'
  <2>1. ServerTypes' /\ CursorTypes'
    BY TypeParts DEF ServerTypes, CursorTypes, WorkerTypes, Statuses
  <2>2. WorkerTypes'
    BY TypeParts DEF ServerTypes, WorkerTypes, Statuses, Followed
  <2>3. CancelTypes' /\ HistoryTypes'
    BY TypeParts DEF CancelTypes, HistoryTypes, WorkerTypes, Followed
  <2> QED
    BY <2>1, <2>2, <2>3, TypePartsNext
<1>2. Held' /\ Followed'
  BY DEF Held, Followed, TypeOK, Statuses
<1>3. Served' /\ Watched'
  BY DEF Served, Watched, Followed, TypeOK, Statuses
<1>4. Sought'
  BY DEF Sought, Followed, TypeOK
<1> QED
  BY <1>1, <1>2, <1>3, <1>4

LEMMA LocallyKeeps == ASSUME IInv, NEW u \in Cursors, ExecuteLocally(u) PROVE IInv'
<1> USE NoneAssumption, StatementsAssumption, Bounds
    DEF IInv, ExecuteLocally, Leave, Raise, Usable, server, connection, rows, worker, canceller, history
<1>1. TypeOK'
  <2>1. ServerTypes' /\ CursorTypes'
    BY TypeParts DEF ServerTypes, CursorTypes, WorkerTypes, Statuses
  <2>2. WorkerTypes'
    BY TypeParts DEF ServerTypes, WorkerTypes, Statuses, Followed
  <2>3. CancelTypes' /\ HistoryTypes'
    BY TypeParts DEF CancelTypes, HistoryTypes, WorkerTypes, Followed
  <2> QED
    BY <2>1, <2>2, <2>3, TypePartsNext
<1>2. Held' /\ Followed'
  BY DEF Held, Followed, TypeOK, Statuses
<1>3. Served' /\ Watched'
  BY DEF Served, Watched, Followed, TypeOK, Statuses
<1>4. Sought'
  BY DEF Sought, Followed, TypeOK
<1> QED
  BY <1>1, <1>2, <1>3, <1>4

LEMMA AcceptKeeps == ASSUME IInv, NEW q \in Statements, Accept(q) PROVE IInv'
<1> USE NoneAssumption, StatementsAssumption, Bounds
    DEF IInv, Accept, Leave, Raise, Usable, server, connection, rows, worker, canceller, history
<1>1. TypeOK'
  <2>1. ServerTypes' /\ CursorTypes'
    BY TypeParts DEF ServerTypes, CursorTypes, WorkerTypes, Statuses
  <2>2. WorkerTypes'
    BY TypeParts DEF ServerTypes, WorkerTypes, Statuses, Followed
  <2>3. CancelTypes' /\ HistoryTypes'
    BY TypeParts DEF CancelTypes, HistoryTypes, WorkerTypes, Followed
  <2> QED
    BY <2>1, <2>2, <2>3, TypePartsNext
<1>2. Held' /\ Followed'
  BY DEF Held, Followed, TypeOK, Statuses
<1>3. Served' /\ Watched'
  BY DEF Served, Watched, Followed, TypeOK, Statuses
<1>4. Sought'
  BY DEF Sought, Followed, TypeOK
<1> QED
  BY <1>1, <1>2, <1>3, <1>4

LEMMA RefuseKeeps == ASSUME IInv, RefuseConflict \/ RefuseOther PROVE IInv'
<1> USE NoneAssumption, StatementsAssumption, Bounds
    DEF IInv, RefuseConflict, RefuseOther, Leave, Raise, Usable, server, connection, rows, worker, canceller, history
<1>1. TypeOK'
  <2>1. ServerTypes' /\ CursorTypes'
    BY TypeParts DEF ServerTypes, CursorTypes, WorkerTypes, Statuses
  <2>2. WorkerTypes'
    BY TypeParts DEF ServerTypes, WorkerTypes, Statuses, Followed
  <2>3. CancelTypes' /\ HistoryTypes'
    BY TypeParts DEF CancelTypes, HistoryTypes, WorkerTypes, Followed
  <2> QED
    BY <2>1, <2>2, <2>3, TypePartsNext
<1>2. Held' /\ Followed'
  BY DEF Held, Followed, TypeOK, Statuses
<1>3. Served' /\ Watched'
  BY DEF Served, Watched, Followed, TypeOK, Statuses
<1>4. Sought'
  BY DEF Sought, Followed, TypeOK
<1> QED
  BY <1>1, <1>2, <1>3, <1>4

LEMMA AnswerLostKeeps == ASSUME IInv, AnswerLost PROVE IInv'
<1> USE NoneAssumption, StatementsAssumption, Bounds
    DEF IInv, AnswerLost, Leave, Raise, Usable, server, connection, rows, worker, canceller, history
<1>1. TypeOK'
  <2>1. ServerTypes' /\ CursorTypes'
    BY TypeParts DEF ServerTypes, CursorTypes, WorkerTypes, Statuses
  <2>2. WorkerTypes'
    BY TypeParts DEF ServerTypes, WorkerTypes, Statuses, Followed
  <2>3. CancelTypes' /\ HistoryTypes'
    BY TypeParts DEF CancelTypes, HistoryTypes, WorkerTypes, Followed
  <2> QED
    BY <2>1, <2>2, <2>3, TypePartsNext
<1>2. Held' /\ Followed'
  BY DEF Held, Followed, TypeOK, Statuses
<1>3. Served' /\ Watched'
  BY DEF Served, Watched, Followed, TypeOK, Statuses
<1>4. Sought'
  BY DEF Sought, Followed, TypeOK
<1> QED
  BY <1>1, <1>2, <1>3, <1>4

LEMMA AnswerKeeps == ASSUME IInv, Answer PROVE IInv'
<1> USE NoneAssumption, StatementsAssumption, Bounds
    DEF IInv, Answer, Leave, Raise, Usable, server, connection, rows, worker, canceller, history
<1>1. TypeOK'
  <2>1. ServerTypes' /\ CursorTypes'
    BY TypeParts DEF ServerTypes, CursorTypes, WorkerTypes, Statuses
  <2>2. WorkerTypes'
    BY TypeParts DEF ServerTypes, WorkerTypes, Statuses, Followed
  <2>3. CancelTypes' /\ HistoryTypes'
    BY TypeParts DEF CancelTypes, HistoryTypes, WorkerTypes, Followed
  <2> QED
    BY <2>1, <2>2, <2>3, TypePartsNext
<1>2. Held' /\ Followed'
  BY DEF Held, Followed, TypeOK, Statuses
<1>3. Served' /\ Watched'
  BY DEF Served, Watched, Followed, TypeOK, Statuses
<1>4. Sought'
  BY DEF Sought, Followed, TypeOK
<1> QED
  BY <1>1, <1>2, <1>3, <1>4

LEMMA PollKeeps == ASSUME IInv, Poll PROVE IInv'
<1> USE NoneAssumption, StatementsAssumption, Bounds
    DEF IInv, Poll, Leave, Raise, Usable, server, connection, rows, worker, canceller, history
<1>1. TypeOK'
  <2>1. ServerTypes' /\ CursorTypes'
    BY TypeParts DEF ServerTypes, CursorTypes, WorkerTypes, Statuses
  <2>2. WorkerTypes'
    <3>1. polls' \in 0..MaxPolls
      BY TypeParts DEF WorkerTypes
    <3>2. seen' \in Statuses
      BY TypeParts DEF ServerTypes, Followed
    <3> QED
      BY <3>1, <3>2, TypeParts DEF WorkerTypes
  <2>3. CancelTypes' /\ HistoryTypes'
    BY TypeParts DEF CancelTypes, HistoryTypes, WorkerTypes, Followed
  <2> QED
    BY <2>1, <2>2, <2>3, TypePartsNext
<1>2. Held' /\ Followed'
  BY DEF Held, Followed, TypeOK, Statuses
<1>3. Served' /\ Watched'
  BY DEF Served, Watched, Followed, TypeOK, Statuses
<1>4. Sought'
  BY DEF Sought, Followed, TypeOK
<1> QED
  BY <1>1, <1>2, <1>3, <1>4

LEMMA PollRaisesKeeps == ASSUME IInv, PollRaises PROVE IInv'
<1> USE NoneAssumption, StatementsAssumption, Bounds
    DEF IInv, PollRaises, Leave, Raise, Usable, server, connection, rows, worker, canceller, history
<1>1. TypeOK'
  <2>1. ServerTypes' /\ CursorTypes'
    BY TypeParts DEF ServerTypes, CursorTypes, WorkerTypes, Statuses
  <2>2. WorkerTypes'
    BY TypeParts DEF ServerTypes, WorkerTypes, Statuses, Followed
  <2>3. CancelTypes' /\ HistoryTypes'
    BY TypeParts DEF CancelTypes, HistoryTypes, WorkerTypes, Followed
  <2> QED
    BY <2>1, <2>2, <2>3, TypePartsNext
<1>2. Held' /\ Followed'
  BY DEF Held, Followed, TypeOK, Statuses
<1>3. Served' /\ Watched'
  BY DEF Served, Watched, Followed, TypeOK, Statuses
<1>4. Sought'
  BY DEF Sought, Followed, TypeOK
<1> QED
  BY <1>1, <1>2, <1>3, <1>4

LEMMA FailedKeeps == ASSUME IInv, StatementFailed PROVE IInv'
<1> USE NoneAssumption, StatementsAssumption, Bounds
    DEF IInv, StatementFailed, Leave, Raise, Usable, server, connection, rows, worker, canceller, history
<1>1. TypeOK'
  <2>1. ServerTypes' /\ CursorTypes'
    BY TypeParts DEF ServerTypes, CursorTypes, WorkerTypes, Statuses
  <2>2. WorkerTypes'
    BY TypeParts DEF ServerTypes, WorkerTypes, Statuses, Followed
  <2>3. CancelTypes' /\ HistoryTypes'
    BY TypeParts DEF CancelTypes, HistoryTypes, WorkerTypes, Followed
  <2> QED
    BY <2>1, <2>2, <2>3, TypePartsNext
<1>2. Held' /\ Followed'
  BY DEF Held, Followed, TypeOK, Statuses
<1>3. Served' /\ Watched'
  BY DEF Served, Watched, Followed, TypeOK, Statuses
<1>4. Sought'
  BY DEF Sought, Followed, TypeOK
<1> QED
  BY <1>1, <1>2, <1>3, <1>4

LEMMA ReturnKeeps == ASSUME IInv, Return PROVE IInv'
<1> USE NoneAssumption, StatementsAssumption, Bounds
    DEF IInv, Return, Leave, Raise, Usable, server, connection, rows, worker, canceller, history
<1>1. TypeOK'
  <2>1. ServerTypes' /\ CursorTypes'
    BY TypeParts DEF ServerTypes, CursorTypes, WorkerTypes, Statuses
  <2>2. WorkerTypes'
    BY TypeParts DEF ServerTypes, WorkerTypes, Statuses, Followed
  <2>3. CancelTypes' /\ HistoryTypes'
    BY TypeParts DEF CancelTypes, HistoryTypes, WorkerTypes, Followed
  <2> QED
    BY <2>1, <2>2, <2>3, TypePartsNext
<1>2. Held' /\ Followed'
  BY DEF Held, Followed, TypeOK, Statuses
<1>3. Served' /\ Watched'
  BY DEF Served, Watched, Followed, TypeOK, Statuses
<1>4. Sought'
  BY DEF Sought, Followed, TypeOK
<1> QED
  BY <1>1, <1>2, <1>3, <1>4

LEMMA CloseCursorKeeps == ASSUME IInv, NEW u \in Cursors, CloseCursor(u) PROVE IInv'
<1> USE NoneAssumption, StatementsAssumption, Bounds
    DEF IInv, CloseCursor, Leave, Raise, Usable, server, connection, rows, worker, canceller, history
<1>1. TypeOK'
  <2>1. ServerTypes' /\ CursorTypes'
    BY TypeParts DEF ServerTypes, CursorTypes, WorkerTypes, Statuses
  <2>2. WorkerTypes'
    BY TypeParts DEF ServerTypes, WorkerTypes, Statuses, Followed
  <2>3. CancelTypes' /\ HistoryTypes'
    BY TypeParts DEF CancelTypes, HistoryTypes, WorkerTypes, Followed
  <2> QED
    BY <2>1, <2>2, <2>3, TypePartsNext
<1>2. Held' /\ Followed'
  BY DEF Held, Followed, TypeOK, Statuses
<1>3. Served' /\ Watched'
  BY DEF Served, Watched, Followed, TypeOK, Statuses
<1>4. Sought'
  BY DEF Sought, Followed, TypeOK
<1> QED
  BY <1>1, <1>2, <1>3, <1>4

\* A best-effort DELETE leaves its statement lost, or ended.
LEMMA TryCancelForward ==
  ASSUME IInv, NEW q \in Statements, TryCancel(q)
  PROVE  /\ status' \in [Statements -> Statuses] /\ lost' \in SUBSET Statements
         /\ lost \subseteq lost' /\ (q \in lost' \/ status'[q] # "pending") /\ Forward
         /\ \A r \in Statements : status'[r] = "pending" => status[r] = "pending"
  BY DEF IInv, TypeOK, Statuses, TryCancel, Cancelled, Forward

LEMMA TimeUpKeeps == ASSUME IInv, TimeUp PROVE IInv'
<1> USE NoneAssumption DEF IInv, TimeUp, Leave, Raise, connection, rows, canceller
<1>0. stmt \in Statements /\ TryCancel(stmt)
  BY DEF Followed
<1>1. TypeOK'
  <2>1. ServerTypes' /\ CursorTypes' /\ CancelTypes' /\ HistoryTypes'
    BY <1>0, TryCancelForward, TypeParts
    DEF ServerTypes, CursorTypes, CancelTypes, HistoryTypes
  <2>2. WorkerTypes'
    BY TypeParts, Bounds DEF WorkerTypes, Statuses
  <2> QED
    BY <2>1, <2>2, TypePartsNext
<1>2. Held' /\ Followed' /\ Served'
  BY <1>0, TryCancelForward DEF Held, Followed, Served, Forward, TypeOK
<1>3. Watched'
  BY <1>0, TryCancelForward DEF Watched
<1>4. Sought'
  BY <1>0, TryCancelForward DEF Sought, Forward, TypeOK
<1> QED
  BY <1>1, <1>2, <1>3, <1>4

-----------------------------------------------------------------------------
(* The canceller, the session and the server.                              *)

LEMMA CancelCursorKeeps == ASSUME IInv, NEW u \in Cursors, CancelCursor(u) PROVE IInv'
<1> USE NoneAssumption DEF IInv, CancelCursor, connection, rows, worker
<1>1. CASE queryId[u] = None
  <2>1. TypeOK' /\ Held' /\ Followed' /\ Served' /\ Watched'
    BY <1>1 DEF TypeOK, Held, Followed, Served, Watched
  <2>2. Sought'
    BY <1>1 DEF Sought, Followed
  <2> QED
    BY <2>1, <2>2
<1>2. CASE queryId[u] # None
  <2>1. queryId[u] \in Statements /\ TryCancel(queryId[u])
    BY <1>2 DEF TypeOK
  <2>2. TypeOK'
    BY <2>1, TryCancelForward DEF TypeOK
  <2>3. Held' /\ Followed' /\ Served'
    BY <2>1, TryCancelForward DEF Held, Followed, Served, Forward, TypeOK, Statuses
  <2>4. Watched'
    BY <2>1, TryCancelForward DEF Watched
  <2>5. Sought'
    BY <2>1, TryCancelForward DEF Sought, Followed, Forward, TypeOK
  <2> QED
    BY <2>2, <2>3, <2>4, <2>5
<1> QED
  BY <1>1, <1>2

LEMMA CancelEndsKeep == ASSUME IInv, BeginCancel \/ EndCancel PROVE IInv'
<1> USE NoneAssumption
    DEF IInv, BeginCancel, EndCancel, server, connection, rows, worker, history
<1>1. TypeOK'
  <2>1. ServerTypes' /\ CursorTypes' /\ WorkerTypes' /\ HistoryTypes'
    BY TypeParts DEF ServerTypes, CursorTypes, WorkerTypes, HistoryTypes
  <2>2. CancelTypes'
    BY TypeParts DEF CancelTypes, CursorTypes, WorkerTypes, Followed
  <2> QED
    BY <2>1, <2>2, TypePartsNext
<1>2. Held' /\ Followed' /\ Served' /\ Watched'
  BY DEF Held, Followed, Served, Watched
<1>3. Sought'
  <2>1. CASE EndCancel
    BY <2>1 DEF Sought
  <2>2. CASE BeginCancel
    <3>1. CASE pc \in {"held", "following"} /\ status[stmt] = "pending"
      BY <2>2, <3>1 DEF Sought, TypeOK
    <3>2. CASE ~(pc \in {"held", "following"} /\ status[stmt] = "pending")
      BY <2>2, <3>2 DEF Sought
    <3> QED
      BY <3>1, <3>2
  <2> QED
    BY <2>1, <2>2
<1> QED
  BY <1>1, <1>2, <1>3

LEMMA CloseKeeps == ASSUME IInv, Close \/ Reap PROVE IInv'
<1> USE DEF Close, Reap, connection, rows, worker, canceller, history
<1>1. TypeOK'
  <2>1. ServerTypes' /\ CursorTypes' /\ WorkerTypes'
    BY TypeParts DEF IInv, ServerTypes, CursorTypes, WorkerTypes
  <2>2. CancelTypes' /\ HistoryTypes'
    BY TypeParts DEF IInv, CancelTypes, HistoryTypes
  <2> QED
    BY <2>1, <2>2, TypePartsNext
<1>2. Forward
  BY DEF Forward
<1> QED
  BY <1>1, <1>2, ForwardKeeps DEF rows, worker

LEMMA FinishKeeps == ASSUME IInv, NEW q \in Statements, Finish(q) PROVE IInv'
<1> USE DEF Finish, connection, rows, worker, canceller, history
<1>1. TypeOK'
  BY DEF IInv, TypeOK, Statuses
<1>2. Forward /\ \A r \in Statements : status'[r] = "pending" => status[r] = "pending"
  BY DEF IInv, TypeOK, Forward
<1> QED
  BY <1>1, <1>2, ForwardKeeps DEF rows, worker

LEMMA Inductive == Spec => []IInv
<1>1. IInv /\ [Next]_vars => IInv'
  <2> SUFFICES ASSUME IInv, [Next]_vars PROVE IInv'
    OBVIOUS
  <2>1. CASE UNCHANGED vars
    BY <2>1 DEF vars, server, connection, rows, worker, canceller, history, IInv, TypeOK,
                Held, Followed, Served, Watched, Sought
  <2>2. CASE WorkerStep
    BY <2>2, AcceptKeeps, RefuseKeeps, AnswerLostKeeps, AnswerKeeps, PollKeeps,
       PollRaisesKeeps, TimeUpKeeps, FailedKeeps, ReturnKeeps DEF WorkerStep
  <2>3. CASE Next /\ ~WorkerStep
    BY <2>3, ExecuteKeeps, LocallyKeeps, CloseCursorKeeps, CloseKeeps, CancelCursorKeeps,
       CancelEndsKeep, FinishKeeps DEF Next, CancelStep
  <2> QED
    BY <2>1, <2>2, <2>3
<1> QED
  BY <1>1, InitHolds, PTL DEF Spec

-----------------------------------------------------------------------------
\* The type invariant, for any number of statements.
THEOREM StatementTypes == Spec => []TypeOK
<1>1. IInv => TypeOK
  BY DEF IInv
<1> QED
  BY <1>1, Inductive, PTL

\* Rows are of finished statements, whenever a cancel comes (cursor.py 160-209).
THEOREM ServesFinished == Spec => []RowsAreFinished
<1>1. IInv => RowsAreFinished
  BY DEF IInv, Held, Served, RowsAreFinished
<1> QED
  BY <1>1, Inductive, PTL

\* execute walks away from no running statement that it knows of (cursor.py 253-273).
THEOREM LeavesNoOrphan == Spec => []NoSilentOrphan
<1>1. IInv => NoSilentOrphan
  BY DEF IInv, Watched, NoSilentOrphan
<1> QED
  BY <1>1, Inductive, PTL

\* A cancel that finds the id stops the statement (cursor.py 161-164, connection.py
\* 226-235).
THEOREM CancelStops == Spec => []CancelStopsRecorded
<1>1. IInv => CancelStopsRecorded
  BY DEF IInv, Sought, CancelStopsRecorded
<1> QED
  BY <1>1, Inductive, PTL

\* The connection's own flags account for an open session: an invariant of its own.
Released == (dead \/ closed) /\ session = "open" => unreleased

\* close() leaves the session to nobody, unless a lost DELETE or a 409 of another
\* kind did (connection.py 314-322; cursor.py 154-158).
THEOREM CloseLetsGo == Spec => []CloseReleases
<1>1. Init => Released
  BY DEF Init, Released
<1>2. Released /\ [Next]_vars => Released'
  <2> SUFFICES ASSUME Released, [Next]_vars PROVE Released'
    OBVIOUS
  <2> USE DEF Released, server, connection, history
  <2>1. CASE UNCHANGED vars
    BY <2>1 DEF vars
  <2>2. CASE WorkerStep
    BY <2>2 DEF WorkerStep, Accept, RefuseConflict, RefuseOther, AnswerLost, Answer, Poll,
                PollRaises, TimeUp, StatementFailed, Return
  <2>3. CASE CancelStep \/ BeginCancel
    BY <2>3 DEF CancelStep, CancelCursor, BeginCancel, EndCancel
  <2>4. CASE Close \/ Reap \/ \E q \in Statements : Finish(q)
    BY <2>4 DEF Close, Reap, Finish
  <2>5. CASE \E u \in Cursors : Execute(u) \/ ExecuteLocally(u) \/ CloseCursor(u)
    BY <2>5 DEF Execute, ExecuteLocally, CloseCursor
  <2> QED
    BY <2>1, <2>2, <2>3, <2>4, <2>5 DEF Next
<1>3. Released => CloseReleases
  BY DEF Released, CloseReleases
<1> QED
  BY <1>1, <1>2, <1>3, PTL DEF Spec

-----------------------------------------------------------------------------
(* Rows.  A row is returned, taken by a call, waiting in the buffer, lost with a *)
(* call that raised, or behind a row that cannot be decoded.  The invariant says *)
(* that these are, in that order, the rows up to the place reading has come to,  *)
(* none of them missing.                                                       *)


Below(S, T) == \A x \in S, y \in T : x < y

\* Every row up to one of s is in known, or stands in s before it.
Runs(s, known) == \A k \in DOMAIN s : 1..s[k] \subseteq known \cup {s[j] : j \in 1..k}

LEMMA RowsOf ==
  ASSUME NEW s \in Seq(Nat)
  PROVE  /\ DOMAIN s = 1..Len(s) /\ Len(s) \in Nat
         /\ \A i \in 1..Len(s) : s[i] \in Nat /\ s[i] \in SetOf(s)
         /\ SetOf(s) \subseteq Nat
  <1>1. Len(s) \in Nat /\ s \in [1..Len(s) -> Nat] /\ DOMAIN s = 1..Len(s)
    BY LenProperties
  <1> QED BY <1>1, Zenon DEF SetOf

LEMMA NoRows == <<>> \in Seq(Nat) /\ SetOf(<<>>) = {} /\ Increasing(<<>>)
  <1>1. <<>> \in Seq(Nat) /\ DOMAIN <<>> = {} BY EmptySeq
  <1> QED BY <1>1 DEF SetOf, Increasing

LEMMA RunsNone == ASSUME NEW known PROVE Runs(<<>>, known)
  <1>1. DOMAIN <<>> = {} OBVIOUS
  <1> QED BY <1>1 DEF Runs

LEMMA CatAt ==
  ASSUME NEW s \in Seq(Nat), NEW t \in Seq(Nat)
  PROVE  /\ s \o t \in Seq(Nat) /\ DOMAIN (s \o t) = 1..Len(s) + Len(t)
         /\ \A i \in DOMAIN s : i \in DOMAIN (s \o t) /\ (s \o t)[i] = s[i]
         /\ \A j \in DOMAIN t :
              Len(s) + j \in DOMAIN (s \o t) /\ (s \o t)[Len(s) + j] = t[j]
         /\ \A i \in DOMAIN (s \o t) :
              i \in DOMAIN s \/ \E j \in DOMAIN t : i = Len(s) + j
  <1>1. /\ s \o t \in Seq(Nat) /\ Len(s \o t) = Len(s) + Len(t)
        /\ \A i \in 1..Len(s) + Len(t) :
             (s \o t)[i] = IF i <= Len(s) THEN s[i] ELSE t[i - Len(s)]
    BY ConcatProperties
  <1>2. /\ DOMAIN s = 1..Len(s) /\ Len(s) \in Nat /\ DOMAIN t = 1..Len(t) /\ Len(t) \in Nat
        /\ DOMAIN (s \o t) = 1..Len(s) + Len(t)
    BY <1>1, RowsOf
  <1>3. ASSUME NEW i \in DOMAIN s PROVE i \in DOMAIN (s \o t) /\ (s \o t)[i] = s[i]
    BY <1>1, <1>2
  <1>4. ASSUME NEW j \in DOMAIN t
        PROVE  Len(s) + j \in DOMAIN (s \o t) /\ (s \o t)[Len(s) + j] = t[j]
    <2> DEFINE i == Len(s) + j
    <2>1. i \in 1..Len(s) + Len(t) /\ ~(i <= Len(s)) /\ i - Len(s) = j
      BY <1>2
    <2>2. (s \o t)[i] = t[i - Len(s)]
      <3> HIDE DEF i
      <3> QED BY <1>1, <2>1
    <2>3. (s \o t)[i] = t[j] BY <2>1, <2>2
    <2> QED BY <2>1, <2>3, <1>2
  <1>5. ASSUME NEW i \in DOMAIN (s \o t), i \notin DOMAIN s
        PROVE  \E j \in DOMAIN t : i = Len(s) + j
    <2>1. i - Len(s) \in DOMAIN t /\ i = Len(s) + (i - Len(s)) BY <1>2, <1>5
    <2> QED BY <2>1
  <1> QED BY <1>1, <1>2, <1>3, <1>4, <1>5

LEMMA CatRows ==
  ASSUME NEW s \in Seq(Nat), NEW t \in Seq(Nat)
  PROVE  s \o t \in Seq(Nat) /\ SetOf(s \o t) = SetOf(s) \cup SetOf(t)
  <1>1. ASSUME NEW i \in DOMAIN (s \o t) PROVE (s \o t)[i] \in SetOf(s) \cup SetOf(t)
    <2>1. CASE i \in DOMAIN s
      <3>1. (s \o t)[i] = s[i] BY <2>1, CatAt
      <3> QED BY <3>1, <2>1, Zenon DEF SetOf
    <2>2. CASE i \notin DOMAIN s
      <3>1. PICK j \in DOMAIN t : i = Len(s) + j BY <2>2, CatAt
      <3>2. (s \o t)[i] = t[j] BY <3>1, CatAt
      <3> QED BY <3>2, Zenon DEF SetOf
    <2> QED BY <2>1, <2>2
  <1>2. ASSUME NEW i \in DOMAIN s PROVE s[i] \in SetOf(s \o t)
    <2>1. i \in DOMAIN (s \o t) /\ (s \o t)[i] = s[i] BY CatAt
    <2> QED BY <2>1, Zenon DEF SetOf
  <1>3. ASSUME NEW j \in DOMAIN t PROVE t[j] \in SetOf(s \o t)
    <2>1. Len(s) + j \in DOMAIN (s \o t) /\ (s \o t)[Len(s) + j] = t[j] BY CatAt
    <2> QED BY <2>1, Zenon DEF SetOf
  <1>4. SetOf(s \o t) \subseteq SetOf(s) \cup SetOf(t) BY <1>1, Zenon DEF SetOf
  <1>5. SetOf(s) \subseteq SetOf(s \o t) /\ SetOf(t) \subseteq SetOf(s \o t)
    BY <1>2, <1>3, Zenon DEF SetOf
  <1> QED BY <1>4, <1>5, CatAt

LEMMA CatIncreases ==
  ASSUME NEW s \in Seq(Nat), NEW t \in Seq(Nat),
         Increasing(s), Increasing(t), Below(SetOf(s), SetOf(t))
  PROVE  Increasing(s \o t)
  <1>1. /\ DOMAIN s = 1..Len(s) /\ Len(s) \in Nat /\ DOMAIN t = 1..Len(t) /\ Len(t) \in Nat
    BY RowsOf
  <1>2. ASSUME NEW i \in DOMAIN s, NEW j \in DOMAIN t PROVE s[i] < t[j]
    BY Zenon DEF Below, SetOf
  <1> SUFFICES ASSUME NEW i \in DOMAIN (s \o t), NEW j \in DOMAIN (s \o t), i < j
               PROVE  (s \o t)[i] < (s \o t)[j]
    BY DEF Increasing
  <1>3. CASE i \in DOMAIN s /\ j \in DOMAIN s
    <2>1. (s \o t)[i] = s[i] BY <1>3, CatAt
    <2>2. (s \o t)[j] = s[j] BY <1>3, CatAt
    <2>3. s[i] < s[j] BY <1>3 DEF Increasing
    <2> QED BY <2>1, <2>2, <2>3
  <1>4. CASE i \in DOMAIN s /\ j \notin DOMAIN s
    <2>1. PICK m \in DOMAIN t : j = Len(s) + m BY <1>4, CatAt
    <2>2. (s \o t)[i] = s[i] BY <1>4, CatAt
    <2>3. (s \o t)[j] = t[m] BY <2>1, CatAt
    <2> QED BY <2>2, <2>3, <1>2, <1>4
  <1>5. CASE i \notin DOMAIN s
    <2>1. PICK n \in DOMAIN t : i = Len(s) + n BY <1>5, CatAt
    <2>2. j \notin DOMAIN s BY <2>1, <1>1
    <2>3. PICK m \in DOMAIN t : j = Len(s) + m BY <2>2, CatAt
    <2>4. (s \o t)[i] = t[n] /\ (s \o t)[j] = t[m] BY <2>1, <2>3, CatAt
    <2>5. n < m BY <2>1, <2>3, <1>1
    <2> QED BY <2>4, <2>5 DEF Increasing
  <1> QED BY <1>3, <1>4, <1>5

LEMMA CatRuns ==
  ASSUME NEW s \in Seq(Nat), NEW t \in Seq(Nat), NEW known,
         Runs(s, known), Runs(t, known \cup SetOf(s))
  PROVE  Runs(s \o t, known)
  <1>1. /\ DOMAIN s = 1..Len(s) /\ Len(s) \in Nat /\ DOMAIN t = 1..Len(t) /\ Len(t) \in Nat
    BY RowsOf
  <1> SUFFICES ASSUME NEW k \in DOMAIN (s \o t), NEW r \in 1..(s \o t)[k], r \notin known
               PROVE  \E j \in 1..k : (s \o t)[j] = r
    BY Zenon DEF Runs
  <1>2. CASE k \in DOMAIN s
    <2>1. (s \o t)[k] = s[k] BY <1>2, CatAt
    <2>2. PICK j \in 1..k : s[j] = r BY <1>2, <2>1, Zenon DEF Runs
    <2>3. j \in DOMAIN s BY <1>1, <1>2, <2>2
    <2> QED BY <2>2, <2>3, CatAt
  <1>3. CASE k \notin DOMAIN s
    <2>1. PICK m \in DOMAIN t : k = Len(s) + m BY <1>3, CatAt
    <2>2. (s \o t)[k] = t[m] BY <2>1, CatAt
    <2>3. r \in SetOf(s) \/ \E j \in 1..m : t[j] = r BY <2>2, Zenon DEF Runs
    <2>4. CASE r \in SetOf(s)
      <3>1. PICK j \in DOMAIN s : s[j] = r BY <2>4, Zenon DEF SetOf
      <3>2. (s \o t)[j] = r /\ j \in 1..k BY <3>1, <2>1, <1>1, CatAt
      <3> QED BY <3>2
    <2>5. CASE \E j \in 1..m : t[j] = r
      <3>1. PICK j \in 1..m : t[j] = r BY <2>5
      <3>2. j \in DOMAIN t BY <3>1, <1>1
      <3>3. (s \o t)[Len(s) + j] = r BY <3>1, <3>2, CatAt, SMTT(40)
      <3>4. Len(s) + j \in 1..k BY <3>1, <2>1, <1>1, SMTT(40)
      <3> QED BY <3>3, <3>4
    <2> QED BY <2>3, <2>4, <2>5
  <1> QED BY <1>2, <1>3

LEMMA RunsMore ==
  ASSUME NEW s, NEW known, NEW more, Runs(s, known), known \subseteq more
  PROVE  Runs(s, more)
  BY Zenon DEF Runs

LEMMA RunsReach ==
  ASSUME NEW s \in Seq(Nat), NEW known, Runs(s, known), NEW r \in SetOf(s)
  PROVE  1..r \subseteq known \cup SetOf(s)
  <1>1. PICK k \in DOMAIN s : s[k] = r BY Zenon DEF SetOf
  <1>2. DOMAIN s = 1..Len(s) /\ Len(s) \in Nat BY RowsOf
  <1>3. 1..k \subseteq DOMAIN s BY <1>1, <1>2
  <1>4. {s[j] : j \in 1..k} \subseteq SetOf(s) BY <1>3, Zenon DEF SetOf
  <1> QED BY <1>1, <1>4, Zenon DEF Runs

LEMMA SubSeqFront ==
  ASSUME NEW s \in Seq(Nat), NEW n \in 0..Len(s)
  PROVE  /\ SubSeq(s, 1, n) \in Seq(Nat) /\ Len(SubSeq(s, 1, n)) = n
         /\ \A i \in 1..n : SubSeq(s, 1, n)[i] = s[i]
  <1>1. n \in Int /\ 1 \in Int /\ \A i \in 1..n : s[i] \in Nat BY RowsOf
  <1>2. /\ SubSeq(s, 1, n) \in Seq(Nat)
        /\ Len(SubSeq(s, 1, n)) = IF 1 <= n THEN n - 1 + 1 ELSE 0
        /\ \A i \in 1..n - 1 + 1 : SubSeq(s, 1, n)[i] = s[1 + i - 1]
    BY <1>1, SubSeqProperties
  <1> QED BY <1>2, RowsOf

\* Taking the first n rows of s leaves the others.
LEMMA Split ==
  ASSUME NEW s \in Seq(Nat), NEW n \in 0..Len(s)
  PROVE  /\ SubSeq(s, 1, n) \in Seq(Nat) /\ SubSeq(s, n + 1, Len(s)) \in Seq(Nat)
         /\ SetOf(s) = SetOf(SubSeq(s, 1, n)) \cup SetOf(SubSeq(s, n + 1, Len(s)))
         /\ Increasing(s) => /\ Increasing(SubSeq(s, 1, n))
                             /\ Increasing(SubSeq(s, n + 1, Len(s)))
                             /\ Below(SetOf(SubSeq(s, 1, n)), SetOf(SubSeq(s, n + 1, Len(s))))
         /\ \A known : Runs(s, known) =>
              /\ Runs(SubSeq(s, 1, n), known)
              /\ Runs(SubSeq(s, n + 1, Len(s)), known \cup SetOf(SubSeq(s, 1, n)))
  <1> DEFINE a == SubSeq(s, 1, n)
             b == SubSeq(s, n + 1, Len(s))
  <1>1. Len(s) \in Nat /\ n \in Nat /\ n <= Len(s) /\ DOMAIN s = 1..Len(s)
        /\ \A i \in 1..Len(s) : s[i] \in Nat
    BY RowsOf
  <1>2. a \in Seq(Nat) /\ DOMAIN a = 1..n /\ \A i \in 1..n : a[i] = s[i]
    <2>1. a \in Seq(Nat) /\ Len(a) = n /\ \A i \in 1..n : a[i] = s[i]
      BY <1>1, SubSeqFront
    <2> QED BY <2>1, RowsOf
  <1>3. /\ b \in Seq(Nat) /\ DOMAIN b = 1..Len(s) - n
        /\ \A i \in 1..Len(s) - n : b[i] = s[n + i]
    <2>1. /\ b \in Seq(Nat)
          /\ Len(b) = IF n + 1 <= Len(s) THEN Len(s) - (n + 1) + 1 ELSE 0
          /\ \A i \in 1..Len(s) - (n + 1) + 1 : b[i] = s[n + 1 + i - 1]
      <3> DEFINE first == n + 1
                 end == Len(s)
      <3>1. first \in Int /\ end \in Int /\ \A i \in first..end : s[i] \in Nat
        BY <1>1
      <3>2. b = SubSeq(s, first, end) OBVIOUS
      <3> HIDE DEF first, end, b
      <3>3. /\ b \in Seq(Nat) /\ Len(b) = IF first <= end THEN end - first + 1 ELSE 0
            /\ \A i \in 1..end - first + 1 : b[i] = s[first + i - 1]
        BY <3>1, <3>2, SubSeqProperties
      <3> QED BY <3>3 DEF first, end
    <2> QED BY <2>1, RowsOf
  <1> HIDE DEF a, b
  <1>4. SetOf(s) = SetOf(a) \cup SetOf(b)
    <2>1. ASSUME NEW i \in 1..Len(s) PROVE s[i] \in SetOf(a) \cup SetOf(b)
      <3>1. CASE i <= n
        <4>1. i \in DOMAIN a /\ a[i] = s[i] BY <3>1, <1>2, <1>1
        <4> QED BY <4>1, Zenon DEF SetOf
      <3>2. CASE ~(i <= n)
        <4>1. i - n \in DOMAIN b /\ b[i - n] = s[i] BY <3>2, <1>3, <1>1
        <4> QED BY <4>1, Zenon DEF SetOf
      <3> QED BY <3>1, <3>2
    <2>2. ASSUME NEW i \in DOMAIN a PROVE a[i] \in SetOf(s)
      <3>1. i \in DOMAIN s /\ a[i] = s[i] BY <1>2, <1>1
      <3> QED BY <3>1, Zenon DEF SetOf
    <2>3. ASSUME NEW i \in DOMAIN b PROVE b[i] \in SetOf(s)
      <3>1. i \in 1..Len(s) - n BY <1>3
      <3>2. n + i \in DOMAIN s BY <3>1, <1>1
      <3>3. b[i] = s[n + i] BY <3>1, <1>3
      <3> QED BY <3>2, <3>3, Zenon DEF SetOf
    <2> QED BY <2>1, <2>2, <2>3, <1>1, Zenon DEF SetOf
  <1>5. ASSUME Increasing(s) PROVE Increasing(a) /\ Increasing(b) /\ Below(SetOf(a), SetOf(b))
    <2>1. Increasing(a) BY <1>5, <1>1, <1>2 DEF Increasing
    <2>2. Increasing(b)
      <3> SUFFICES ASSUME NEW i \in 1..Len(s) - n, NEW j \in 1..Len(s) - n, i < j
                   PROVE  b[i] < b[j]
        BY <1>3 DEF Increasing
      <3>1. n + i \in DOMAIN s /\ n + j \in DOMAIN s /\ n + i < n + j BY <1>1
      <3> QED BY <3>1, <1>3, <1>5 DEF Increasing
    <2>3. ASSUME NEW i \in 1..n, NEW j \in 1..Len(s) - n PROVE a[i] < b[j]
      <3>1. i \in DOMAIN s /\ n + j \in DOMAIN s /\ i < n + j BY <1>1
      <3> QED BY <3>1, <1>2, <1>3, <1>5 DEF Increasing
    <2>4. Below(SetOf(a), SetOf(b)) BY <2>3, <1>2, <1>3, Zenon DEF Below, SetOf
    <2> QED BY <2>1, <2>2, <2>4
  <1>6. ASSUME NEW known, Runs(s, known) PROVE Runs(a, known) /\ Runs(b, known \cup SetOf(a))
    <2>1. Runs(a, known)
      <3> SUFFICES ASSUME NEW k \in 1..n, NEW r \in 1..a[k], r \notin known
                   PROVE  \E j \in 1..k : a[j] = r
        BY <1>2, Zenon DEF Runs
      <3>1. k \in DOMAIN s /\ a[k] = s[k] BY <1>1, <1>2
      <3>2. PICK j \in 1..k : s[j] = r BY <3>1, <1>6, Zenon DEF Runs
      <3>3. a[j] = r BY <3>2, <1>1, <1>2
      <3> QED BY <3>3, <3>2
    <2>2. Runs(b, known \cup SetOf(a))
      <3> SUFFICES ASSUME NEW k \in 1..Len(s) - n, NEW r \in 1..b[k], r \notin known,
                          r \notin SetOf(a)
                   PROVE  \E j \in 1..k : b[j] = r
        BY <1>3, Zenon DEF Runs
      <3>1. n + k \in DOMAIN s /\ b[k] = s[n + k] BY <1>1, <1>3
      <3>2. PICK j \in 1..n + k : s[j] = r BY <3>1, <1>6, Zenon DEF Runs
      <3>3. ~(j <= n)
        <4> SUFFICES ASSUME j <= n PROVE FALSE OBVIOUS
        <4>1. j \in DOMAIN a /\ a[j] = r BY <3>2, <1>1, <1>2
        <4> QED BY <4>1, Zenon DEF SetOf
      <3>4. j - n \in 1..k /\ b[j - n] = r
        <4>1. j - n \in 1..k /\ j - n \in 1..Len(s) - n /\ n + (j - n) = j
          BY <3>2, <3>3, <1>1
        <4>2. b[j - n] = s[n + (j - n)] BY <4>1, <1>3
        <4> QED BY <4>1, <4>2, <3>2
      <3> QED BY <3>4
    <2> QED BY <2>1, <2>2
  <1> QED BY <1>2, <1>3, <1>4, <1>5, <1>6 DEF a, b

\* n rows after the first f.
LEMMA FromRows ==
  ASSUME NEW f \in Nat, NEW n \in Nat
  PROVE  /\ From(f, n) \in Seq(Nat) /\ Len(From(f, n)) = n
         /\ \A i \in 1..n : From(f, n)[i] = f + i
         /\ SetOf(From(f, n)) = f + 1..f + n
         /\ Increasing(From(f, n))
         /\ \A known : 1..f \subseteq known => Runs(From(f, n), known)
  <1>1. /\ From(f, n) \in Seq(Nat) /\ Len(From(f, n)) = n /\ DOMAIN From(f, n) = 1..n
        /\ \A i \in 1..n : From(f, n)[i] = f + i
    BY DEF From
  <1>2. SetOf(From(f, n)) = f + 1..f + n
    <2>1. ASSUME NEW r \in f + 1..f + n PROVE r \in SetOf(From(f, n))
      <3>1. r - f \in 1..n /\ From(f, n)[r - f] = r BY <1>1
      <3> QED BY <3>1, <1>1, Zenon DEF SetOf
    <2>2. ASSUME NEW i \in 1..n PROVE From(f, n)[i] \in f + 1..f + n BY <1>1
    <2> QED BY <2>1, <2>2, <1>1, Zenon DEF SetOf
  <1>3. Increasing(From(f, n)) BY <1>1 DEF Increasing
  <1>4. ASSUME NEW known, 1..f \subseteq known PROVE Runs(From(f, n), known)
    <2> SUFFICES ASSUME NEW k \in 1..n, NEW r \in 1..f + k, r \notin known
                 PROVE  \E j \in 1..k : From(f, n)[j] = r
      BY <1>1 DEF Runs
    <2>1. r - f \in 1..k BY <1>4
    <2> QED BY <2>1, <1>1
  <1> QED BY <1>1, <1>2, <1>3, <1>4

LEMMA BelowFrom ==
  ASSUME NEW S, NEW f \in Nat, NEW n \in Nat, \A r \in S : r \in Nat /\ r <= f
  PROVE  Below(S, f + 1..f + n)
  BY DEF Below

\* Decoding stops at the row that cannot be decoded.
LEMMA BeforeRows ==
  ASSUME NEW f \in Nat, NEW n \in Nat, bad \in Nat
  PROVE  \E m \in 0..n : /\ Before(From(f, n)) = From(f, m)
                         /\ Decodes(From(f, n)) => m = n
                         /\ ~Decodes(From(f, n)) => m < n
  <1>1. /\ From(f, n) \in Seq(Nat) /\ Len(From(f, n)) = n
        /\ \A i \in 1..n : From(f, n)[i] = f + i
        /\ SetOf(From(f, n)) = f + 1..f + n
    BY FromRows
  <1>2. CASE Decodes(From(f, n)) BY <1>2 DEF Before
  <1>3. CASE ~Decodes(From(f, n))
    <2>1. bad \in f + 1..f + n BY <1>3, <1>1 DEF Decodes
    <2> DEFINE m == bad - f - 1
    <2>2. m \in 0..n /\ m < n /\ n # 0 BY <2>1
    <2>3. Head(From(f, n)) = f + 1 BY <1>1, <2>2 DEF From
    <2>4. Before(From(f, n)) = SubSeq(From(f, n), 1, m)
      <3>1. bad - (f + 1) = m OBVIOUS
      <3> QED BY <1>3, <2>3, <3>1 DEF Before
    <2>5. SubSeq(From(f, n), 1, m) = From(f, m)
      <3>1. /\ SubSeq(From(f, n), 1, m) \in Seq(Nat) /\ Len(SubSeq(From(f, n), 1, m)) = m
            /\ \A i \in 1..m : SubSeq(From(f, n), 1, m)[i] = From(f, n)[i]
        <4>1. m \in 0..Len(From(f, n)) BY <1>1, <2>2
        <4> HIDE DEF m
        <4> QED BY <4>1, <1>1, SubSeqFront
      <3>2. /\ From(f, m) \in Seq(Nat) /\ Len(From(f, m)) = m
            /\ \A i \in 1..m : From(f, m)[i] = f + i
        <4>1. m \in Nat BY <2>2
        <4> HIDE DEF m
        <4> QED BY <4>1, FromRows
      <3> QED BY <3>1, <3>2, <1>1, <2>2, SeqEqual
    <2> QED BY <1>3, <2>2, <2>4, <2>5
  <1> QED BY <1>2, <1>3

-----------------------------------------------------------------------------
\* The rows returned, or lost to a call that raised, or behind an undecodable row;
\* with them those a call has taken and those that wait in the buffer.
Accounted == SetOf(got) \cup dropped \cup skipped
InHand == Accounted \cup SetOf(out) \cup SetOf(buffer)

\* The rows the server has been asked for: the place the next page or batch begins.
\* After a page without a cursor there is none.
ReadTo == IF path = "json" THEN next ELSE IF path = "arrow" THEN pos ELSE size
Front == IF path = "json" /\ lastRead THEN size ELSE ReadTo

\* The rows in somebody's hands, and those nobody gets.
Pulled == SetOf(got) \cup SetOf(out) \cup SetOf(buffer)
Lost == dropped \cup skipped

\* What each kind of result set goes through, and each call.
PathKept ==
  /\ path # "arrow" => reader = "none"
  /\ path = "json" /\ inline => FirstPageLimit # 0
  /\ phase = "table" => path = "arrow" /\ buffer = <<>> /\ want = All
  /\ phase \in {"executing", "idle"} => out = <<>>
  /\ phase = "executing" => ~lastRead
  /\ path = "json" /\ phase = "executing" => next = 0 /\ ~exhausted
  /\ path = "json" /\ exhausted => lastRead
  /\ again => path = "json"
  /\ path = "local" => exhausted
  /\ faults = 0 => reader # "broken"
  /\ faults = 0 /\ path = "arrow" /\ started /\ reader = "none" => exhausted

\* Before every row of a call, or of the buffer, the others up to it.
Gapless ==
  /\ NothingSkipped
  /\ Runs(out, Accounted)
  /\ Runs(buffer, Accounted \cup SetOf(out))

\* Nothing read is forgotten, and a result is exhausted once everything was read.
Complete ==
  /\ 1..ReadTo \subseteq InHand
  /\ exhausted /\ (path = "arrow" => faults = 0) => 1..size \subseteq InHand

\* Returned rows, then those taken, then those that wait, then those to be read;
\* a lost row is none of them.
InOrder ==
  /\ Increasing(got) /\ Increasing(out) /\ Increasing(buffer)
  /\ Below(SetOf(got), SetOf(out)) /\ Below(SetOf(got) \cup SetOf(out), SetOf(buffer))
  /\ Pulled \cap Lost = {}
  /\ \A r \in Pulled \cup Lost : r <= Front
Ordered == ~again => InOrder

PagingInv == PagingTypeOK /\ PathKept /\ Gapless /\ Complete /\ Ordered /\ EndMeansAll

LEMMA PagingBounds ==
  /\ MaxRows \in Nat /\ MaxMany \in Nat /\ MaxCalls \in Nat /\ MaxFaults \in Nat
  /\ FirstPageLimit \in Nat /\ FetchSize \in Nat /\ BatchSize \in Nat
  /\ 0 \in 0..MaxRows /\ 0 \in 0..MaxMany /\ 0 \in 0..MaxCalls /\ 0 \in 0..MaxFaults
  BY SizesAssumption, CallsAssumption

LEMMA PagingNumbers ==
  ASSUME PagingTypeOK
  PROVE  /\ got \in Seq(Nat) /\ out \in Seq(Nat) /\ buffer \in Seq(Nat)
         /\ size \in Nat /\ size <= MaxRows /\ bad \in Nat /\ next \in Nat /\ pos \in Nat
         /\ next <= size /\ pos <= size /\ faults \in Nat /\ ReadTo \in Nat /\ ReadTo <= size
  <1>1. Rows \subseteq Nat BY PagingBounds DEF Rows
  <1>2. got \in Seq(Nat) /\ out \in Seq(Nat) /\ buffer \in Seq(Nat)
    BY <1>1, SeqMonotonic DEF PagingTypeOK
  <1> QED BY <1>2, PagingBounds DEF PagingTypeOK, ReadTo

\* The rows of a page or batch behind the first f, when f is where reading stands.
LEMMA PullKeeps ==
  ASSUME PagingTypeOK, Gapless, Complete, Ordered,
         NEW f \in Nat, NEW k \in Nat, f + k <= size, f = ReadTo,
         ~again' => ~again /\ f = Front,
         buffer' = buffer \o Before(From(f, k)),
         skipped' = skipped \cup (SetOf(From(f, k)) \ SetOf(Before(From(f, k)))),
         got' = got, path' = path,
         \/ out' = out /\ dropped' = dropped
         \/ out' = <<>> /\ dropped' = dropped \cup SetOf(out)
  PROVE  /\ buffer' \in Seq(Rows) /\ skipped' \in SUBSET Rows
         /\ Gapless' /\ 1..f + k \subseteq InHand' /\ InHand \subseteq InHand'
         /\ Front' = f + k => Ordered'
  <1>1. /\ got \in Seq(Nat) /\ out \in Seq(Nat) /\ buffer \in Seq(Nat)
        /\ size \in Nat /\ size <= MaxRows /\ bad \in Nat /\ MaxRows \in Nat
    BY PagingNumbers, PagingBounds
  <1>2. PICK m \in 0..k : /\ Before(From(f, k)) = From(f, m)
                          /\ Decodes(From(f, k)) => m = k
                          /\ ~Decodes(From(f, k)) => m < k
    BY <1>1, BeforeRows
  <1>3. m \in Nat /\ m <= k BY <1>2
  <1>4. /\ From(f, m) \in Seq(Nat) /\ SetOf(From(f, m)) = f + 1..f + m
        /\ Increasing(From(f, m)) /\ \A known : 1..f \subseteq known => Runs(From(f, m), known)
    BY <1>3, FromRows
  <1>5. SetOf(From(f, k)) = f + 1..f + k BY FromRows
  <1>6. /\ buffer' = buffer \o From(f, m) /\ buffer' \in Seq(Nat)
        /\ SetOf(buffer') = SetOf(buffer) \cup (f + 1..f + m)
    <2>1. buffer' = buffer \o From(f, m) BY <1>2
    <2> QED BY <2>1, <1>1, <1>4, CatRows
  <1>7. skipped' = skipped \cup (f + m + 1..f + k)
    BY <1>2, <1>3, <1>4, <1>5
  <1>8. buffer' \in Seq(Rows)
    <2>1. From(f, m) \in Seq(Rows)
      BY <1>1, <1>3 DEF From, Rows
    <2> QED BY <2>1, <1>6, ConcatProperties DEF PagingTypeOK
  <1>9. skipped' \in SUBSET Rows
    <2>1. f + m + 1..f + k \subseteq Rows BY <1>1, <1>3 DEF Rows
    <2> QED BY <2>1, <1>7 DEF PagingTypeOK
  <1>11. SetOf(<<>>) = {} /\ Runs(<<>>, Accounted') BY NoRows, RunsNone
  <1>12. /\ Accounted \subseteq Accounted'
         /\ Accounted \cup SetOf(out) \subseteq Accounted' \cup SetOf(out')
         /\ SetOf(got') \subseteq SetOf(got) /\ dropped \subseteq dropped'
         /\ skipped \subseteq skipped' /\ skipped' \subseteq Accounted'
    BY <1>7, <1>11 DEF Accounted
  <1>13. InHand \subseteq InHand' BY <1>6, <1>12 DEF InHand
  <1>14. 1..f \subseteq Accounted' \cup SetOf(out') \cup SetOf(buffer)
    BY <1>12 DEF Complete, InHand
  <1>15. Gapless'
    <2>1. NothingSkipped' BY <1>12 DEF Gapless, NothingSkipped, Accounted
    <2>2. Runs(out', Accounted') BY <1>11, <1>12, RunsMore DEF Gapless
    <2>3. Runs(buffer, Accounted' \cup SetOf(out')) BY <1>12, RunsMore DEF Gapless
    <2>4. Runs(From(f, m), Accounted' \cup SetOf(out') \cup SetOf(buffer)) BY <1>4, <1>14
    <2>5. Runs(buffer', Accounted' \cup SetOf(out'))
      <3>1. \A known : Runs(buffer, known) /\ Runs(From(f, m), known \cup SetOf(buffer))
                       => Runs(buffer \o From(f, m), known)
        BY <1>1, <1>4, CatRuns
      <3> QED BY <2>3, <2>4, <1>6, <3>1
    <2> QED BY <2>1, <2>2, <2>5 DEF Gapless
  <1>16. 1..f + k \subseteq InHand'
    <2>1. 1..f + k \subseteq 1..f \cup (f + 1..f + m) \cup (f + m + 1..f + k) BY <1>3
    <2>2. 1..f \subseteq InHand' BY <1>14, <1>6 DEF InHand
    <2> QED BY <2>1, <2>2, <1>6, <1>7, <1>12 DEF InHand
  <1>17. Front' = f + k => Ordered'
    <2> SUFFICES ASSUME Front' = f + k, ~again' PROVE InOrder'
      BY DEF Ordered
    <2>1. InOrder /\ f = Front BY DEF Ordered
    <2>2. \A r \in Pulled \cup Lost : r \in Nat /\ r <= f
      <3>1. Lost \subseteq Nat BY <1>1, SMTT(40) DEF PagingTypeOK, Rows, Lost
      <3>2. Pulled \subseteq Nat BY <1>1, RowsOf DEF Pulled
      <3> QED BY <2>1, <3>1, <3>2 DEF InOrder
    <2>3. SetOf(got) \subseteq Pulled /\ SetOf(out) \subseteq Pulled /\ SetOf(buffer) \subseteq Pulled
      BY DEF Pulled
    <2>4. Below(Pulled \cup Lost, f + 1..f + m) BY <2>2, <1>3 DEF Below
    <2>5. Increasing(buffer')
      <3>1. Below(SetOf(buffer), f + 1..f + m) BY <2>3, <2>4, Zenon DEF Below
      <3> QED BY <2>1, <3>1, <1>1, <1>4, <1>6, CatIncreases DEF InOrder
    <2>6. SetOf(out') \subseteq SetOf(out) /\ Increasing(out')
      BY <1>11, NoRows, <2>1 DEF InOrder
    <2>7. Below(SetOf(got'), SetOf(out')) BY <2>1, <2>6 DEF InOrder, Below
    <2>8. Below(SetOf(got') \cup SetOf(out'), SetOf(buffer'))
      <3>1. Below(SetOf(got) \cup SetOf(out), f + 1..f + m) BY <2>3, <2>4, Zenon DEF Below
      <3>2. Below(SetOf(got) \cup SetOf(out), SetOf(buffer)) BY <2>1 DEF InOrder
      <3> QED BY <3>1, <3>2, <2>6, <1>6, Zenon DEF Below
    <2>9. Pulled' = SetOf(got) \cup SetOf(out') \cup SetOf(buffer) \cup (f + 1..f + m)
      BY <1>6 DEF Pulled
    <2>10. Lost' \subseteq Lost \cup (SetOf(out) \ SetOf(out')) \cup (f + m + 1..f + k)
      BY <1>7, <1>11 DEF Lost
    <2>11. /\ (f + 1..f + m) \cap (f + m + 1..f + k) = {}
           /\ (Pulled \cup Lost) \cap (f + 1..f + k) = {}
           /\ f + 1..f + m \subseteq f + 1..f + k /\ f + m + 1..f + k \subseteq f + 1..f + k
      BY <2>2, <1>3, SMTT(40)
    <2>12. /\ Pulled \cap Lost = {} /\ SetOf(got) \cap SetOf(out) = {}
           /\ SetOf(out) \cap SetOf(buffer) = {}
      <3>1. \A r \in Pulled : ~(r < r) BY <2>2
      <3> QED BY <2>1, <2>3, <3>1, Zenon DEF InOrder, Below
    <2>13. Pulled' \cap Lost' = {}
      <3> HIDE DEF Pulled, Lost
      <3> QED BY <2>3, <2>6, <2>9, <2>10, <2>11, <2>12
    <2>14. \A r \in Pulled' \cup Lost' : r <= f + k
      <3>1. Pulled' \cup Lost' \subseteq Pulled \cup Lost \cup (f + 1..f + k)
        BY <2>3, <2>6, <2>9, <2>10, <2>11
      <3>2. \A r \in Pulled \cup Lost \cup (f + 1..f + k) : r <= f + k BY <2>2, <1>3
      <3> QED BY <3>1, <3>2, Zenon
    <2> QED BY <2>1, <2>5, <2>6, <2>7, <2>8, <2>13, <2>14 DEF InOrder
  <1> QED BY <1>8, <1>9, <1>13, <1>15, <1>16, <1>17

\* A call that raises loses the rows it has taken.
LEMMA RaisingKeeps ==
  ASSUME PagingTypeOK, Gapless, Ordered,
         out' = <<>>, dropped' = dropped \cup SetOf(out),
         got' = got, buffer' = buffer, skipped' = skipped, again' = again, Front' = Front
  PROVE  Gapless' /\ InHand' = InHand /\ Accounted \subseteq Accounted' /\ Ordered'
  <1>1. SetOf(<<>>) = {} /\ Increasing(<<>>) /\ Runs(<<>>, Accounted')
    BY NoRows, RunsNone
  <1>2. Accounted' = Accounted \cup SetOf(out) BY DEF Accounted
  <1>3. InHand' = InHand BY <1>1, <1>2 DEF InHand
  <1>4. Gapless'
    <2>1. NothingSkipped' BY <1>2 DEF Gapless, NothingSkipped, Accounted
    <2>2. Runs(buffer', Accounted' \cup SetOf(out'))
      BY <1>1, <1>2, RunsMore DEF Gapless
    <2> QED BY <1>1, <2>1, <2>2 DEF Gapless
  <1>5. Ordered'
    <2> SUFFICES ASSUME InOrder PROVE InOrder' BY DEF Ordered
    <2>1. SetOf(out) \cap (SetOf(got) \cup SetOf(buffer)) = {}
      <3>1. \A r \in SetOf(out) : r \in Nat /\ ~(r < r) BY PagingNumbers, RowsOf
      <3> QED BY <3>1, Zenon DEF InOrder, Below
    <2>2. Pulled' = SetOf(got) \cup SetOf(buffer) /\ Lost' = Lost \cup SetOf(out)
      BY <1>1 DEF Pulled, Lost
    <2>3. Pulled' \cap Lost' = {} /\ Pulled' \cup Lost' = Pulled \cup Lost
      BY <2>1, <2>2 DEF InOrder, Pulled
    <2> QED BY <1>1, <2>3, Zenon DEF InOrder, Below
  <1> QED BY <1>2, <1>3, <1>4, <1>5

\* A call that returns hands over the rows it has taken, and of a table the rest.
LEMMA ReturningKeeps ==
  ASSUME PagingTypeOK, Gapless, NEW handed \in Seq(Nat),
         Runs(handed, Accounted), SetOf(out) \subseteq SetOf(handed),
         got' = got \o handed, out' = <<>>,
         dropped' = dropped, buffer' = buffer, skipped' = skipped
  PROVE  /\ Gapless' /\ Accounted' = Accounted \cup SetOf(handed)
         /\ InHand' = InHand \cup SetOf(handed)
         /\ /\ InOrder /\ Increasing(handed)
            /\ Below(SetOf(got), SetOf(handed)) /\ Below(SetOf(handed), SetOf(buffer))
            /\ SetOf(handed) \cap Lost = {}
            /\ \A r \in Pulled \cup SetOf(handed) \cup Lost : r <= Front'
            => InOrder'
  <1>1. SetOf(<<>>) = {} /\ Increasing(<<>>) /\ Runs(<<>>, Accounted')
    BY NoRows, RunsNone
  <1>2. got \in Seq(Nat) BY PagingNumbers
  <1>3. SetOf(got') = SetOf(got) \cup SetOf(handed) BY <1>2, CatRows
  <1>4. Accounted' = Accounted \cup SetOf(handed) BY <1>3 DEF Accounted
  <1>5. InHand' = InHand \cup SetOf(handed) BY <1>1, <1>4 DEF InHand
  <1>6. Gapless'
    <2>1. ASSUME NEW r \in SetOf(got) PROVE 1..r \subseteq Accounted'
      BY <1>4 DEF Gapless, NothingSkipped, Accounted
    <2>2. ASSUME NEW r \in SetOf(handed) PROVE 1..r \subseteq Accounted'
      BY <1>4, RunsReach
    <2>3. NothingSkipped' BY <2>1, <2>2, <1>3 DEF NothingSkipped, Accounted
    <2>4. Runs(buffer', Accounted' \cup SetOf(out'))
      BY <1>1, <1>4, RunsMore DEF Gapless
    <2> QED BY <1>1, <2>3, <2>4 DEF Gapless
  <1>7. ASSUME InOrder, Increasing(handed),
               Below(SetOf(got), SetOf(handed)), Below(SetOf(handed), SetOf(buffer)),
               SetOf(handed) \cap Lost = {},
               \A r \in Pulled \cup SetOf(handed) \cup Lost : r <= Front'
        PROVE  InOrder'
    <2>1. Increasing(got') BY <1>7, <1>2, CatIncreases DEF InOrder
    <2>2. Below(SetOf(got') \cup SetOf(out'), SetOf(buffer'))
      BY <1>1, <1>3, <1>7, Zenon DEF InOrder, Below
    <2>3. Below(SetOf(got'), SetOf(out')) BY <1>1 DEF Below
    <2>4. Pulled' = Pulled \cup SetOf(handed) /\ Lost' = Lost BY <1>1, <1>3 DEF Pulled, Lost
    <2>5. Pulled' \cap Lost' = {} BY <1>7, <2>4 DEF InOrder
    <2> QED BY <1>1, <1>7, <2>1, <2>2, <2>3, <2>4, <2>5 DEF InOrder
  <1> QED BY <1>4, <1>5, <1>6, <1>7

\* An answer that was short stays so.
LEMMA EndKept ==
  ASSUME PagingTypeOK, EndMeansAll, ended' = ended, size' = size, path' = path,
         faults' = faults \/ faults' = faults + 1, Accounted \subseteq Accounted'
  PROVE  EndMeansAll'
  <1>1. faults' = 0 => faults = 0 BY PagingNumbers
  <1> QED BY <1>1 DEF EndMeansAll, Accounted

-----------------------------------------------------------------------------
LEMMA PagingInitHolds == PagingInit => PagingInv
  <1> SUFFICES ASSUME PagingInit PROVE PagingInv OBVIOUS
  <1>1. size \in Nat /\ MaxRows \in Nat /\ size <= MaxRows BY PagingBounds DEF PagingInit
  <1>2. /\ From(0, size) \in Seq(Nat) /\ SetOf(From(0, size)) = 1..size
        /\ Increasing(From(0, size)) /\ \A handed : Runs(From(0, size), handed)
    <2>1. 1..0 = {} /\ 0 + 1 = 1 /\ 0 + size = size BY <1>1
    <2>2. /\ From(0, size) \in Seq(Nat) /\ SetOf(From(0, size)) = 0 + 1..0 + size
          /\ Increasing(From(0, size))
          /\ \A handed : 1..0 \subseteq handed => Runs(From(0, size), handed)
      BY <1>1, FromRows
    <2> QED BY <2>1, <2>2
  <1>3. From(0, size) \in Seq(Rows) BY <1>1 DEF From, Rows
  <1>4. <<>> \in Seq(Rows) BY EmptySeq
  <1>5. SetOf(<<>>) = {} /\ Increasing(<<>>) /\ \A handed : Runs(<<>>, handed)
    BY NoRows, RunsNone
  <1>6. PagingTypeOK
    <2>1. bad \in 0..MaxRows BY <1>1 DEF PagingInit
    <2>2. started \in BOOLEAN /\ exhausted \in BOOLEAN BY Zenon DEF PagingInit
    <2>3. buffer \in Seq(Rows) BY <1>3, <1>4 DEF PagingInit
    <2>4. inline \in BOOLEAN BY DEF PagingInit
    <2>5. /\ path \in {"json", "arrow", "local"} /\ size \in 0..MaxRows /\ next = 0 /\ pos = 0
          /\ reader = "none" /\ phase = "executing" /\ want = 0 /\ out = <<>> /\ got = <<>>
          /\ calls = 0 /\ faults = 0 /\ dropped = {} /\ skipped = {}
          /\ ended \in BOOLEAN /\ lastRead \in BOOLEAN /\ again \in BOOLEAN
      BY DEF PagingInit, All
    <2> QED BY <2>1, <2>2, <2>3, <2>4, <2>5, <1>1, <1>4, PagingBounds DEF PagingTypeOK
  <1>7. PathKept BY DEF PagingInit, PathKept
  <1>8. Gapless
    <2>1. NothingSkipped BY <1>5 DEF PagingInit, NothingSkipped
    <2>2. Runs(buffer, Accounted \cup SetOf(out)) BY <1>2, <1>5 DEF PagingInit
    <2> QED BY <2>1, <2>2, <1>5 DEF PagingInit, Gapless
  <1>9. SetOf(buffer) = IF path = "local" THEN 1..size ELSE {}
    BY <1>2, <1>5 DEF PagingInit
  <1>10. Complete
    <2>1. 1..0 = {} OBVIOUS
    <2> QED BY <2>1, <1>9 DEF PagingInit, Complete, ReadTo, InHand
  <1>11. Ordered
    <2>1. SetOf(got) = {} /\ SetOf(out) = {} /\ Increasing(got) /\ Increasing(out)
      BY <1>5 DEF PagingInit
    <2>2. Increasing(buffer) BY <1>2, <1>5 DEF PagingInit
    <2>3. \A r \in SetOf(buffer) : r <= Front
      BY <1>1, <1>9 DEF PagingInit, Front, ReadTo
    <2>4. Pulled = SetOf(buffer) /\ Lost = {} BY <2>1 DEF PagingInit, Pulled, Lost
    <2> QED BY <2>1, <2>2, <2>3, <2>4 DEF Ordered, InOrder, Below
  <1>12. EndMeansAll BY DEF PagingInit, EndMeansAll
  <1> QED BY <1>6, <1>7, <1>8, <1>10, <1>11, <1>12 DEF PagingInv

LEMMA ConsumeKeeps ==
  ASSUME PagingInv, path = "json", phase = "executing" \/ Needs, ~exhausted,
         NEW n \in Nat \ {0}, NEW f \in Nat, f = next, Consume(f, n)
  PROVE  PagingInv'
  <1> DEFINE last == Least(f + n, size)
             chunk == From(f, last - f)
             nextCursor == IF last < size THEN last ELSE 0
  <1> USE DEF PagingInv
  <1>1. /\ size \in Nat /\ f <= size /\ next \in Nat /\ ReadTo = f
        /\ ~lastRead => Front = f
        /\ faults \in Nat
    BY PagingNumbers DEF ReadTo, Front
  <1>2. /\ last \in Nat /\ f <= last /\ last <= size /\ (last < size => last # 0)
        /\ last - f \in Nat /\ f + (last - f) = last
    BY <1>1 DEF Least
  <1>3. /\ next' = nextCursor /\ buffer' = buffer \o Before(chunk)
        /\ lastRead' = (lastRead \/ nextCursor = 0) /\ again' = (again \/ lastRead)
        /\ UNCHANGED <<path, size, bad, inline, reader, pos, faults, got, ended>>
    BY DEF Consume, statement
  <1>4. /\ want' = want /\ calls' = calls
        /\ skipped' = skipped \cup (SetOf(chunk) \ SetOf(Before(chunk)))
        /\ \/ /\ Decodes(chunk) /\ exhausted' = (exhausted \/ nextCursor = 0) /\ started' = TRUE
              /\ phase' = (IF phase = "executing" THEN "idle" ELSE phase)
              /\ out' = out /\ dropped' = dropped
           \/ /\ ~Decodes(chunk) /\ exhausted' = exhausted /\ started' = started
              /\ phase' = "idle" /\ out' = <<>> /\ dropped' = dropped \cup SetOf(out)
    <2>1. CASE Decodes(chunk)
      <3>1. Before(chunk) = chunk BY <2>1 DEF Before
      <3>2. skipped' = skipped \cup (SetOf(chunk) \ SetOf(Before(chunk)))
        BY <2>1, <3>1 DEF Consume
      <3> QED BY <2>1, <3>2 DEF Consume, GoOn
    <2>2. CASE ~Decodes(chunk) BY <2>2 DEF Consume, FetchRaises
    <2> QED BY <2>1, <2>2
  <1> HIDE DEF last
  <1>5. /\ buffer' \in Seq(Rows) /\ skipped' \in SUBSET Rows
        /\ Gapless' /\ 1..last \subseteq InHand' /\ InHand \subseteq InHand'
        /\ Front' = last => Ordered'
    <2>1. f + (last - f) = last BY <1>2
    <2>2. \A k \in Nat : f + k <= size /\ k = last - f =>
            /\ buffer' \in Seq(Rows) /\ skipped' \in SUBSET Rows
            /\ Gapless' /\ 1..f + k \subseteq InHand' /\ InHand \subseteq InHand'
            /\ Front' = f + k => Ordered'
      BY <1>1, <1>2, <1>3, <1>4, PullKeeps
    <2> QED BY <2>1, <2>2, <1>2
  <1>6. PagingTypeOK'
    <2>1. next' \in Nat /\ (next' = 0 \/ next' < size') BY <1>2, <1>3
    <2>2. dropped' \in SUBSET Rows
      <3>1. SetOf(out) \subseteq Rows BY ElementOfSeq, LenProperties DEF PagingTypeOK, SetOf
      <3> QED BY <3>1, <1>4 DEF PagingTypeOK
    <2>3. out' \in Seq(Rows) /\ exhausted' \in BOOLEAN /\ started' \in BOOLEAN
      BY <1>4, EmptySeq DEF PagingTypeOK
    <2>4. phase' \in {"executing", "idle", "fetching", "table"} BY <1>4 DEF PagingTypeOK
    <2>5. lastRead' \in BOOLEAN /\ again' \in BOOLEAN BY <1>3, Zenon DEF PagingTypeOK
    <2> QED BY <2>1, <2>2, <2>3, <2>4, <2>5, <1>3, <1>4, <1>5 DEF PagingTypeOK
  <1>7. PathKept'
    <2>1. exhausted' => lastRead' BY <1>3, <1>4, Zenon
    <2>2. phase' # "executing" /\ phase' # "table" BY <1>4 DEF Needs, Wants
    <2> HIDE DEF nextCursor
    <2> QED BY <2>1, <2>2, <1>3, <1>4 DEF PathKept
  <1>8. Complete'
    <2>1. 1..ReadTo' \subseteq InHand'
      <3>1. ReadTo' = nextCursor BY <1>3 DEF ReadTo
      <3>2. 1..0 = {} OBVIOUS
      <3> QED BY <3>1, <3>2, <1>5
    <2>2. exhausted' => nextCursor = 0 BY <1>4, Zenon
    <2>3. nextCursor = 0 => last = size BY <1>1, <1>2
    <2> QED BY <2>1, <2>2, <2>3, <1>3, <1>5 DEF Complete
  <1>9. Ordered'
    <2> HIDE DEF nextCursor
    <2> SUFFICES ASSUME ~again' PROVE Ordered' BY DEF Ordered
    <2>1. lastRead' <=> nextCursor = 0 BY <1>3, Zenon
    <2>2. (nextCursor = 0 => last = size) /\ (nextCursor # 0 => nextCursor = last)
      BY <1>1, <1>2 DEF nextCursor
    <2>3. Front' = last BY <2>1, <2>2, <1>3 DEF Front, ReadTo
    <2> QED BY <2>3, <1>5
  <1>10. EndMeansAll'
    <2>1. Accounted \subseteq Accounted' BY <1>3, <1>4 DEF Accounted
    <2> QED BY <2>1, <1>3, EndKept
  <1> QED BY <1>5, <1>6, <1>7, <1>8, <1>9, <1>10

LEMMA PagesKeep == ASSUME PagingInv, Prime \/ LoadPage PROVE PagingInv'
  <1>1. CASE Prime
    <2>1. path = "json" /\ phase = "executing" /\ ~exhausted /\ next = 0 /\ 0 \in Nat
      BY <1>1 DEF Prime, PagingInv, PathKept
    <2>2. FirstPageLimit # 0 BY <1>1, <2>1 DEF Prime, PagingInv, PathKept
    <2>3. Least(FirstPageLimit, FetchSize) \in Nat \ {0}
      BY <2>2, SizesAssumption DEF Least
    <2>4. Consume(0, Least(FirstPageLimit, FetchSize)) BY <1>1 DEF Prime
    <2> QED BY <2>1, <2>3, <2>4, ConsumeKeeps
  <1>2. CASE LoadPage
    <2>1. path = "json" /\ ~exhausted /\ (phase = "executing" \/ Needs)
      BY <1>2 DEF LoadPage, PagingInv, PathKept, Needs
    <2>2. next \in Nat /\ FetchSize \in Nat \ {0}
      BY SizesAssumption, PagingNumbers DEF PagingInv
    <2>3. Consume(next, FetchSize) BY <1>2 DEF LoadPage
    <2> QED BY <2>1, <2>2, <2>3, ConsumeKeeps
  <1> QED BY <1>1, <1>2

\* A call may raise wherever a request is made.
LEMMA FailsKeep == ASSUME PagingInv, LoadFails \/ OpenFails \/ StreamFails PROVE PagingInv'
  <1> USE DEF PagingInv
  <1>1. /\ phase' = "idle" /\ out' = <<>> /\ dropped' = dropped \cup SetOf(out)
        /\ UNCHANGED <<want, calls, got, skipped, ended, lastRead, again, path, size, bad,
                       inline, exhausted, next, pos, buffer>>
        /\ faults' = faults + 1 /\ faults' \in 0..MaxFaults /\ faults' # 0
        /\ started' \in BOOLEAN
        /\ reader' = reader \/ (path = "arrow" /\ reader' = "broken")
    <2>1. faults \in Nat /\ MaxFaults \in Nat BY PagingNumbers, PagingBounds
    <2>2. CASE LoadFails
      BY <2>1, <2>2 DEF LoadFails, Fault, FetchRaises, resultSet, statement, PagingTypeOK
    <2>3. CASE OpenFails
      BY <2>1, <2>3 DEF OpenFails, Fault, FetchRaises, statement
    <2>4. CASE StreamFails
      BY <2>1, <2>4 DEF StreamFails, Fault, FetchRaises, statement, PagingTypeOK, PathKept
    <2> QED BY <2>2, <2>3, <2>4
  <1>2. ReadTo' = ReadTo /\ Front' = Front BY <1>1 DEF ReadTo, Front
  <1>3. Gapless' /\ InHand' = InHand /\ Accounted \subseteq Accounted' /\ Ordered'
    BY <1>1, <1>2, RaisingKeeps
  <1>4. PagingTypeOK'
    <2>1. SetOf(out) \subseteq Rows BY ElementOfSeq, LenProperties DEF PagingTypeOK, SetOf
    <2>2. out' \in Seq(Rows) BY <1>1, EmptySeq
    <2> QED BY <2>1, <2>2, <1>1 DEF PagingTypeOK
  <1>5. PathKept' BY <1>1 DEF PathKept
  <1>6. Complete' BY <1>1, <1>2, <1>3 DEF Complete
  <1>7. EndMeansAll' BY <1>1, <1>3, EndKept
  <1> QED BY <1>3, <1>4, <1>5, <1>6, <1>7

\* Steps that move no row.
LEMMA QuietKeeps ==
  ASSUME PagingInv, UNCHANGED <<path, size, bad, next, pos, buffer, out, faults, got,
                                dropped, skipped, ended, lastRead, again>>,
         PagingTypeOK', PathKept',
         exhausted' = exhausted \/ (path = "arrow" /\ (faults = 0 => pos = size))
  PROVE  PagingInv'
  <1> USE DEF PagingInv
  <1>1. Accounted' = Accounted BY DEF Accounted
  <1>2. InHand' = InHand BY <1>1 DEF InHand
  <1>3. ReadTo' = ReadTo /\ Front' = Front BY DEF ReadTo, Front
  <1>4. Gapless' BY <1>1 DEF Gapless, NothingSkipped
  <1>5. Complete' BY <1>2, <1>3 DEF Complete, ReadTo
  <1>6. Ordered' BY <1>3 DEF Ordered, InOrder, Pulled, Lost
  <1>7. EndMeansAll' BY <1>1, EndKept
  <1> QED BY <1>4, <1>5, <1>6, <1>7

LEMMA StreamKeeps == ASSUME PagingInv, OpenStream \/ StreamEnds PROVE PagingInv'
  <1> USE DEF PagingInv
  <1>1. CASE OpenStream
    <2>1. /\ UNCHANGED <<path, size, bad, inline, next, pos, buffer, out, want, calls,
                         faults, got, dropped, skipped, ended, lastRead, again>>
          /\ path = "arrow" /\ started' = TRUE
          /\ phase' = (IF phase = "executing" THEN "idle" ELSE phase)
          /\ \/ reader' = "open" /\ exhausted' = exhausted
             \/ size = 0 /\ exhausted' = TRUE /\ reader' = reader
      BY <1>1 DEF OpenStream, Opens, GoOn, statement
    <2>2. pos = size \/ exhausted' = exhausted BY <2>1 DEF PagingTypeOK
    <2>3. PagingTypeOK' BY <2>1 DEF PagingTypeOK
    <2>4. PathKept' BY <2>1 DEF PathKept
    <2> QED BY <2>1, <2>2, <2>3, <2>4, QuietKeeps
  <1>2. CASE StreamEnds
    <2>1. /\ UNCHANGED <<path, size, bad, inline, started, next, pos, buffer, phase, out, want,
                         calls, faults, got, dropped, skipped, ended, lastRead, again>>
          /\ exhausted' = TRUE /\ reader' = "none" /\ reader # "none"
          /\ reader = "broken" \/ pos = size
      BY <1>2 DEF StreamEnds, statement, caller, pagingHistory
    <2>2. path = "arrow" /\ (faults = 0 => pos = size) BY <2>1 DEF PathKept
    <2>3. PagingTypeOK' BY <2>1 DEF PagingTypeOK
    <2>4. PathKept' BY <2>1, <2>2 DEF PathKept
    <2> QED BY <2>1, <2>2, <2>3, <2>4, QuietKeeps
  <1> QED BY <1>1, <1>2

LEMMA CallsKeep ==
  ASSUME PagingInv, ExecuteReturns \/ \E n \in 0..MaxMany : Fetch(n)
  PROVE  PagingInv'
  <1> USE DEF PagingInv
  <1>1. /\ UNCHANGED <<path, size, bad, inline, started, exhausted, next, reader, pos, buffer,
                       out, faults, got, dropped, skipped, ended, lastRead, again>>
        /\ want' \in 0..MaxMany /\ calls' \in 0..MaxCalls
        /\ \/ phase' = "idle" /\ phase = "executing" /\ path # "json"
           \/ phase' = "fetching" /\ phase = "idle"
    <2>1. CASE ExecuteReturns
      BY <2>1 DEF ExecuteReturns, statement, resultSet, pagingHistory, PagingTypeOK
    <2>2. CASE \E n \in 0..MaxMany : Fetch(n)
      <3>1. PICK n \in 0..MaxMany : Fetch(n) BY <2>2
      <3>2. calls' \in 0..MaxCalls BY <3>1, PagingBounds DEF Fetch, PagingTypeOK
      <3> QED BY <3>1, <3>2 DEF Fetch, statement, resultSet, pagingHistory
    <2> QED BY <2>1, <2>2
  <1>2. PagingTypeOK' BY <1>1 DEF PagingTypeOK
  <1>3. PathKept' BY <1>1 DEF PathKept
  <1> QED BY <1>1, <1>2, <1>3, QuietKeeps

LEMMA BatchKeeps == ASSUME PagingInv, NextBatch PROVE PagingInv'
  <1> DEFINE last == Least(pos + BatchSize, size)
             chunk == From(pos, last - pos)
  <1> USE DEF PagingInv
  <1>1. reader = "open" /\ path = "arrow" /\ ~exhausted /\ pos < size /\ phase = "fetching"
    BY DEF NextBatch, PathKept, Needs, Wants
  <1>2. /\ size \in Nat /\ pos \in Nat /\ ReadTo = pos /\ Front = pos /\ BatchSize \in Nat
    BY <1>1, PagingNumbers, PagingBounds DEF ReadTo, Front
  <1>3. last \in Nat /\ pos <= last /\ last <= size /\ last - pos \in Nat
        /\ pos + (last - pos) = last
    BY <1>1, <1>2 DEF Least
  <1>4. /\ pos' = last /\ buffer' = buffer \o Before(chunk)
        /\ skipped' = skipped \cup (SetOf(chunk) \ SetOf(Before(chunk)))
        /\ UNCHANGED <<path, size, bad, inline, started, exhausted, next, reader, faults, got,
                       ended, lastRead, again, want, calls>>
        /\ \/ out' = out /\ dropped' = dropped /\ phase' = phase
           \/ out' = <<>> /\ dropped' = dropped \cup SetOf(out) /\ phase' = "idle"
    BY <1>1 DEF NextBatch, GoOn, FetchRaises, statement
  <1> HIDE DEF last
  <1>5. /\ buffer' \in Seq(Rows) /\ skipped' \in SUBSET Rows
        /\ Gapless' /\ 1..last \subseteq InHand' /\ InHand \subseteq InHand'
        /\ Front' = last => Ordered'
    <2>1. \A k \in Nat : pos + k <= size /\ k = last - pos =>
            /\ buffer' \in Seq(Rows) /\ skipped' \in SUBSET Rows
            /\ Gapless' /\ 1..pos + k \subseteq InHand' /\ InHand \subseteq InHand'
            /\ Front' = pos + k => Ordered'
      BY <1>2, <1>3, <1>4, PullKeeps
    <2> QED BY <2>1, <1>3
  <1>6. PagingTypeOK'
    <2>1. pos' \in 0..size' BY <1>3, <1>4
    <2>2. dropped' \in SUBSET Rows
      <3>1. SetOf(out) \subseteq Rows BY ElementOfSeq, LenProperties DEF PagingTypeOK, SetOf
      <3> QED BY <3>1, <1>4 DEF PagingTypeOK
    <2>3. out' \in Seq(Rows) BY <1>4, EmptySeq DEF PagingTypeOK
    <2> QED BY <2>1, <2>2, <2>3, <1>4, <1>5, SMTT(40) DEF PagingTypeOK
  <1>7. PathKept' BY <1>1, <1>4 DEF PathKept
  <1>8. Complete'
    <2>1. ReadTo' = last BY <1>1, <1>4 DEF ReadTo
    <2> QED BY <2>1, <1>1, <1>4, <1>5 DEF Complete
  <1>9. Ordered'
    <2>1. Front' = last BY <1>1, <1>4 DEF Front, ReadTo
    <2> QED BY <2>1, <1>5
  <1>10. EndMeansAll'
    <2>1. Accounted \subseteq Accounted' BY <1>4 DEF Accounted
    <2> QED BY <2>1, <1>4, EndKept
  <1> QED BY <1>5, <1>6, <1>7, <1>8, <1>9, <1>10

LEMMA TableKeeps == ASSUME PagingInv, FetchTable PROVE PagingInv'
  <1> USE DEF PagingInv
  <1>1. /\ phase = "idle" /\ path = "arrow" /\ out = <<>>
        /\ phase' = "table" /\ out' = buffer /\ buffer' = <<>> /\ want' = 0
        /\ calls' \in 0..MaxCalls
        /\ UNCHANGED <<path, size, bad, inline, started, exhausted, next, reader, pos, faults,
                       got, dropped, skipped, ended, lastRead, again>>
    <2>1. calls' \in 0..MaxCalls BY PagingBounds DEF FetchTable, PagingTypeOK
    <2> QED BY <2>1 DEF FetchTable, statement, pagingHistory, All, PathKept
  <1>2. SetOf(<<>>) = {} /\ Increasing(<<>>) /\ \A handed : Runs(<<>>, handed)
    BY NoRows, RunsNone
  <1>3. Accounted' = Accounted BY <1>1 DEF Accounted
  <1>4. InHand' = InHand BY <1>1, <1>2, <1>3 DEF InHand
  <1>5. ReadTo' = ReadTo /\ Front' = Front BY <1>1 DEF ReadTo, Front
  <1>6. PagingTypeOK'
    <2>1. buffer' \in Seq(Rows) BY <1>1, EmptySeq
    <2>2. want' \in 0..MaxMany BY <1>1, PagingBounds
    <2> QED BY <2>1, <2>2, <1>1 DEF PagingTypeOK
  <1>7. PathKept' BY <1>1 DEF PathKept, All
  <1>8. Gapless'
    <2>1. NothingSkipped' BY <1>1, <1>3 DEF Gapless, NothingSkipped
    <2>2. Accounted \cup SetOf(out) = Accounted BY <1>1, <1>2
    <2>3. Runs(out', Accounted') BY <1>1, <1>3, <2>2 DEF Gapless
    <2> QED BY <2>1, <2>3, <1>1, <1>2 DEF Gapless
  <1>9. Complete' BY <1>1, <1>4, <1>5 DEF Complete
  <1>10. Ordered'
    <2> SUFFICES ASSUME InOrder PROVE InOrder' BY <1>1 DEF Ordered
    <2>1. Pulled' = Pulled /\ Lost' = Lost BY <1>1, <1>2 DEF Pulled, Lost
    <2> QED BY <1>1, <1>2, <1>5, <2>1 DEF InOrder, Below
  <1>11. EndMeansAll' BY <1>1, <1>3, EndKept
  <1> QED BY <1>6, <1>7, <1>8, <1>9, <1>10, <1>11

LEMMA TakeKeeps == ASSUME PagingInv, Take PROVE PagingInv'
  <1> DEFINE n == IF want = All THEN Len(buffer) ELSE Least(want - Len(out), Len(buffer))
             taken == SubSeq(buffer, 1, n)
             rest == SubSeq(buffer, n + 1, Len(buffer))
  <1> USE DEF PagingInv
  <1>1. /\ out' = out \o taken /\ buffer' = rest /\ phase = "fetching"
        /\ UNCHANGED <<path, size, bad, inline, started, exhausted, next, reader, pos, phase,
                       want, calls, faults, got, dropped, skipped, ended, lastRead, again>>
    BY DEF Take, statement, pagingHistory
  <1>2. out \in Seq(Nat) /\ buffer \in Seq(Nat) BY PagingNumbers
  <1>3. n \in 0..Len(buffer)
    <2>1. want \in Nat /\ Len(out) \in Nat /\ Len(buffer) \in Nat
      BY <1>2, RowsOf, PagingBounds DEF PagingTypeOK
    <2>2. want = All \/ Len(out) < want BY DEF Take
    <2> QED BY <2>1, <2>2 DEF Least
  <1> HIDE DEF n
  <1>4. /\ taken \in Seq(Nat) /\ rest \in Seq(Nat)
        /\ SetOf(buffer) = SetOf(taken) \cup SetOf(rest)
        /\ Increasing(buffer) => /\ Increasing(taken) /\ Increasing(rest)
                                 /\ Below(SetOf(taken), SetOf(rest))
        /\ \A handed : Runs(buffer, handed) =>
             Runs(taken, handed) /\ Runs(rest, handed \cup SetOf(taken))
    BY <1>2, <1>3, Split
  <1>5. taken \in Seq(Rows) /\ rest \in Seq(Rows)
    <2>1. \A i \in 1..Len(buffer) : buffer[i] \in Rows BY ElementOfSeq DEF PagingTypeOK
    <2>2. Len(buffer) \in Int /\ n \in Int /\ n + 1 \in Int /\ n <= Len(buffer) /\ 0 <= n
      BY <1>2, <1>3, RowsOf
    <2>3. taken \in Seq(Rows) BY <2>1, <2>2, SubSeqProperties
    <2>4. rest \in Seq(Rows) BY <2>1, <2>2, SubSeqProperties
    <2> QED BY <2>3, <2>4
  <1> HIDE DEF taken, rest
  <1>6. out' \in Seq(Nat) /\ SetOf(out') = SetOf(out) \cup SetOf(taken)
    BY <1>1, <1>2, <1>4, CatRows
  <1>7. Accounted' = Accounted BY <1>1 DEF Accounted
  <1>8. InHand' = InHand BY <1>1, <1>4, <1>6, <1>7 DEF InHand
  <1>9. ReadTo' = ReadTo /\ Front' = Front BY <1>1 DEF ReadTo, Front
  <1>10. PagingTypeOK'
    <2>1. out' \in Seq(Rows) BY <1>1, <1>5, ConcatProperties DEF PagingTypeOK
    <2> QED BY <2>1, <1>1, <1>5 DEF PagingTypeOK
  <1>11. PathKept' BY <1>1 DEF PathKept
  <1>12. Gapless'
    <2>1. NothingSkipped' BY <1>1, <1>7 DEF Gapless, NothingSkipped
    <2>2. Runs(taken, Accounted \cup SetOf(out)) /\
          Runs(rest, Accounted \cup SetOf(out) \cup SetOf(taken))
      BY <1>4 DEF Gapless
    <2>3. Runs(out, Accounted) BY DEF Gapless
    <2>4. Runs(out', Accounted') BY <2>2, <2>3, <1>1, <1>2, <1>4, <1>7, CatRuns
    <2>5. Accounted \cup SetOf(out) \cup SetOf(taken) = Accounted' \cup SetOf(out')
      BY <1>6, <1>7
    <2>6. Runs(buffer', Accounted' \cup SetOf(out')) BY <2>2, <2>5, <1>1
    <2> QED BY <2>1, <2>4, <2>6 DEF Gapless
  <1>13. Complete' BY <1>1, <1>8, <1>9 DEF Complete
  <1>14. Ordered'
    <2> SUFFICES ASSUME InOrder PROVE InOrder' BY <1>1 DEF Ordered
    <2>1. Below(SetOf(out), SetOf(taken)) BY <1>4 DEF InOrder, Below
    <2>2. Increasing(out') BY <2>1, <1>1, <1>2, <1>4, CatIncreases DEF InOrder
    <2>3. Below(SetOf(got'), SetOf(out')) BY <1>1, <1>4, <1>6, Zenon DEF InOrder, Below
    <2>4. Below(SetOf(got') \cup SetOf(out'), SetOf(buffer'))
      BY <1>1, <1>4, <1>6, Zenon DEF InOrder, Below
    <2>5. Pulled' = Pulled /\ Lost' = Lost BY <1>1, <1>4, <1>6 DEF Pulled, Lost
    <2> QED BY <2>2, <2>3, <2>4, <2>5, <1>1, <1>4, <1>9 DEF InOrder
  <1>15. EndMeansAll' BY <1>1, <1>7, EndKept
  <1> QED BY <1>10, <1>11, <1>12, <1>13, <1>14, <1>15

LEMMA ReturnsKeep == ASSUME PagingInv, Full \/ NoMore \/ ReadNone PROVE PagingInv'
  <1> USE DEF PagingInv
  <1>1. /\ phase' = "idle" /\ out' = <<>> /\ got' = got \o out
        /\ UNCHANGED <<path, size, bad, inline, started, exhausted, next, reader, pos, buffer,
                       want, calls, faults, dropped, skipped, lastRead, again>>
    BY DEF Full, NoMore, ReadNone, FetchReturns, statement, resultSet
  <1>2. /\ ended' \in BOOLEAN
        /\ ended' => \/ ended
                     \/ /\ buffer = <<>>
                        /\ exhausted \/ (path = "arrow" /\ started /\ reader = "none")
    <2>1. CASE Full BY <2>1 DEF Full, FetchReturns, PagingTypeOK
    <2>2. CASE NoMore BY <2>2 DEF NoMore, Wants, FetchReturns
    <2>3. CASE ReadNone BY <2>3 DEF ReadNone, FetchReturns, PathKept
    <2> QED BY <2>1, <2>2, <2>3
  <1>3. out \in Seq(Nat) /\ Runs(out, Accounted) BY PagingNumbers DEF Gapless
  <1>4. ReadTo' = ReadTo /\ Front' = Front BY <1>1 DEF ReadTo, Front
  <1>5. /\ Gapless' /\ Accounted' = Accounted \cup SetOf(out)
        /\ InHand' = InHand \cup SetOf(out)
        /\ /\ InOrder /\ Increasing(out)
           /\ Below(SetOf(got), SetOf(out)) /\ Below(SetOf(out), SetOf(buffer))
           /\ SetOf(out) \cap Lost = {}
           /\ \A r \in Pulled \cup SetOf(out) \cup Lost : r <= Front'
           => InOrder'
    BY <1>1, <1>3, ReturningKeeps
  <1>6. PagingTypeOK'
    <2>1. got' \in Seq(Rows) BY <1>1, ConcatProperties DEF PagingTypeOK
    <2>2. out' \in Seq(Rows) BY <1>1, EmptySeq
    <2> QED BY <2>1, <2>2, <1>1, <1>2 DEF PagingTypeOK
  <1>7. PathKept' BY <1>1 DEF PathKept
  <1>8. Complete' BY <1>1, <1>4, <1>5 DEF Complete
  <1>9. Ordered'
    <2> SUFFICES ASSUME InOrder PROVE InOrder' BY <1>1 DEF Ordered
    <2>1. SetOf(out) \subseteq Pulled BY DEF Pulled
    <2> QED BY <2>1, <1>4, <1>5 DEF InOrder, Below
  <1>10. EndMeansAll'
    <2> SUFFICES ASSUME ended', path = "arrow" => faults = 0
                 PROVE  1..size \subseteq Accounted'
      BY <1>1 DEF EndMeansAll, Accounted
    <2>1. CASE ended BY <2>1, <1>5 DEF EndMeansAll, Accounted
    <2>2. CASE ~ended
      <3>1. exhausted /\ buffer = <<>> BY <2>2, <1>2 DEF PathKept
      <3>2. 1..size \subseteq InHand BY <3>1 DEF Complete
      <3> QED BY <3>1, <3>2, <1>5, NoRows DEF InHand
    <2> QED BY <2>1, <2>2
  <1> QED BY <1>5, <1>6, <1>7, <1>8, <1>9, <1>10

LEMMA ReadAllKeeps == ASSUME PagingInv, ReadAll PROVE PagingInv'
  <1> USE DEF PagingInv
  <1>1. /\ path = "arrow" /\ buffer = <<>> /\ size \in Nat /\ pos \in Nat /\ pos <= size
        /\ size <= MaxRows /\ faults \in Nat /\ out \in Seq(Nat)
    BY PagingNumbers DEF ReadAll, PathKept
  <1>2. PICK n \in Nat :
          /\ pos + n <= size /\ pos' = pos + n /\ (faults = 0 => pos + n = size)
          /\ got' = got \o (out \o From(pos, n))
    <2>1. CASE reader = "open"
      <3>1. pos' = size /\ got' = got \o (out \o From(pos, size - pos))
        BY <2>1 DEF ReadAll, FetchReturns
      <3> DEFINE n == size - pos
      <3>2. n \in Nat /\ pos + n = size BY <1>1
      <3>3. got' = got \o (out \o From(pos, n)) BY <3>1
      <3> HIDE DEF n
      <3>4. pos + n <= size /\ pos' = pos + n BY <3>1, <3>2, <1>1
      <3> QED BY <3>2, <3>3, <3>4
    <2>2. CASE reader # "open"
      <3>1. reader = "broken" /\ pos' = pos /\ got' = got \o out
        BY <2>2 DEF ReadAll, FetchReturns
      <3>2. From(pos, 0) = <<>> BY DEF From
      <3>3. out \o <<>> = out BY <1>1, ConcatEmptySeq
      <3>4. pos + 0 = pos /\ 0 \in Nat BY <1>1
      <3>5. faults # 0 BY <3>1 DEF PathKept
      <3>6. /\ pos + 0 <= size /\ pos' = pos + 0 /\ (faults = 0 => pos + 0 = size)
            /\ got' = got \o (out \o From(pos, 0))
        BY <3>1, <3>2, <3>3, <3>4, <3>5, <1>1
      <3> QED BY <3>4, <3>6
    <2> QED BY <2>1, <2>2
  <1> DEFINE handed == out \o From(pos, n)
  <1>3. /\ phase' = "idle" /\ out' = <<>> /\ exhausted' = TRUE /\ ended' = TRUE
        /\ reader' = "none"
        /\ UNCHANGED <<path, size, bad, inline, started, next, buffer, want, calls, faults,
                       dropped, skipped, lastRead, again>>
    BY DEF ReadAll, FetchReturns, statement
  <1>4. /\ From(pos, n) \in Seq(Nat) /\ SetOf(From(pos, n)) = pos + 1..pos + n
        /\ Increasing(From(pos, n))
        /\ \A all : 1..pos \subseteq all => Runs(From(pos, n), all)
    BY <1>1, FromRows
  <1>5. handed \in Seq(Nat) /\ SetOf(handed) = SetOf(out) \cup (pos + 1..pos + n)
    BY <1>1, <1>4, CatRows
  <1>6. 1..pos \subseteq Accounted \cup SetOf(out)
    BY <1>1, NoRows DEF Complete, ReadTo, InHand
  <1>7. Runs(handed, Accounted)
    <2>1. Runs(out, Accounted) BY DEF Gapless
    <2>2. Runs(From(pos, n), Accounted \cup SetOf(out)) BY <1>4, <1>6
    <2> QED BY <2>1, <2>2, <1>1, <1>4, CatRuns
  <1>8. got' = got \o handed BY <1>2
  <1> HIDE DEF handed
  <1>9. /\ Gapless' /\ Accounted' = Accounted \cup SetOf(handed)
        /\ InHand' = InHand \cup SetOf(handed)
        /\ /\ InOrder /\ Increasing(handed)
           /\ Below(SetOf(got), SetOf(handed)) /\ Below(SetOf(handed), SetOf(buffer))
           /\ SetOf(handed) \cap Lost = {}
           /\ \A r \in Pulled \cup SetOf(handed) \cup Lost : r <= Front'
           => InOrder'
    BY <1>3, <1>5, <1>7, <1>8, ReturningKeeps
  <1>10. 1..pos + n \subseteq Accounted'
    <2>1. 1..pos + n \subseteq 1..pos \cup (pos + 1..pos + n) BY <1>1
    <2> QED BY <2>1, <1>5, <1>6, <1>9
  <1>11. PagingTypeOK'
    <2>1. From(pos, n) \in Seq(Rows)
      <3>1. pos + n <= MaxRows BY <1>1, <1>2, PagingBounds
      <3>2. \A i \in 1..n : pos + i \in Rows BY <3>1, <1>1, PagingBounds DEF Rows
      <3> QED BY <3>2 DEF From
    <2>2. handed \in Seq(Rows) BY <2>1, ConcatProperties DEF PagingTypeOK, handed
    <2>3. got' \in Seq(Rows) BY <2>2, <1>8, ConcatProperties DEF PagingTypeOK
    <2>4. out' \in Seq(Rows) BY <1>3, EmptySeq
    <2>5. pos' \in 0..size' BY <1>1, <1>2, <1>3
    <2> QED BY <2>3, <2>4, <2>5, <1>3 DEF PagingTypeOK
  <1>12. PathKept' BY <1>1, <1>3 DEF PathKept
  <1>13. Complete'
    <2>1. Accounted' \subseteq InHand' BY DEF InHand
    <2>2. ReadTo' = pos + n BY <1>1, <1>2, <1>3 DEF ReadTo
    <2> QED BY <2>1, <2>2, <1>1, <1>2, <1>3, <1>10 DEF Complete
  <1>14. Ordered'
    <2> SUFFICES ASSUME InOrder PROVE InOrder' BY <1>3 DEF Ordered
    <2>1. Front = pos /\ Front' = pos + n BY <1>1, <1>2, <1>3 DEF Front, ReadTo
    <2>2. Pulled \subseteq Nat /\ Lost \subseteq Nat
          /\ SetOf(got) \subseteq Pulled /\ SetOf(out) \subseteq Pulled
      <3>1. Lost \subseteq Nat BY PagingBounds DEF PagingTypeOK, Rows, Lost
      <3> QED BY <3>1, PagingNumbers, RowsOf DEF Pulled
    <2>3. \A r \in Pulled \cup Lost : r \in Nat /\ r <= pos
      <3>1. \A r \in Pulled \cup Lost : r <= pos BY <2>1 DEF InOrder
      <3> HIDE DEF Pulled, Lost
      <3> QED BY <3>1, <2>2
    <2>4. Increasing(handed)
      <3>1. SetOf(From(pos, n)) = pos + 1..pos + n BY <1>4
      <3>2. \A r \in SetOf(out) : r \in Nat /\ r <= pos BY <2>2, <2>3, Zenon
      <3>3. Below(SetOf(out), pos + 1..pos + n) BY <3>2, <1>1, BelowFrom
      <3>4. Below(SetOf(out), SetOf(From(pos, n))) BY <3>1, <3>3
      <3> QED BY <3>4, <1>1, <1>4, CatIncreases DEF InOrder, handed
    <2>5. Below(SetOf(got), SetOf(handed))
      <3>1. \A r \in SetOf(got) : r \in Nat /\ r <= pos BY <2>2, <2>3, Zenon
      <3>2. Below(SetOf(got), pos + 1..pos + n) BY <3>1, <1>1, BelowFrom
      <3> QED BY <3>2, <1>5, Zenon DEF InOrder, Below
    <2>6. Below(SetOf(handed), SetOf(buffer)) BY <1>1, NoRows DEF Below
    <2>7. \A r \in Pulled \cup SetOf(handed) \cup Lost : r <= Front'
      <3>1. \A r \in Pulled \cup Lost : r <= pos + n BY <2>3, <1>1
      <3>2. \A r \in pos + 1..pos + n : r <= pos + n BY <1>1
      <3>3. SetOf(handed) \subseteq Pulled \cup (pos + 1..pos + n) BY <2>2, <1>5
      <3> HIDE DEF Pulled, Lost
      <3> QED BY <3>1, <3>2, <3>3, <2>1
    <2>8. SetOf(handed) \cap Lost = {}
      <3>1. SetOf(out) \cap Lost = {} BY <2>2 DEF InOrder
      <3> QED BY <2>2, <2>3, <3>1, <1>1, <1>5
    <2> QED BY <2>4, <2>5, <2>6, <2>7, <2>8, <1>9
  <1>15. EndMeansAll'
    BY <1>1, <1>2, <1>3, <1>10 DEF EndMeansAll, Accounted
  <1> QED BY <1>9, <1>11, <1>12, <1>13, <1>14, <1>15

LEMMA PagingInductive == PagingSpec => []PagingInv
  <1>1. ASSUME PagingInv, [PagingNext]_pagingVars PROVE PagingInv'
    <2>1. CASE UNCHANGED pagingVars
      <3>1. UNCHANGED <<path, size, bad, inline, started, exhausted, next, reader, pos, buffer,
                        phase, want, out, calls, faults, got, dropped, skipped, ended, lastRead,
                        again>>
        BY <2>1 DEF pagingVars, statement, resultSet, caller, pagingHistory
      <3>2. PagingTypeOK' BY <1>1, <3>1 DEF PagingInv, PagingTypeOK
      <3>3. PathKept' BY <1>1, <3>1 DEF PagingInv, PathKept
      <3> QED BY <1>1, <3>1, <3>2, <3>3, QuietKeeps
    <2>2. CASE PagingNext
      BY <1>1, <2>2, PagesKeep, FailsKeep, StreamKeeps, CallsKeep, BatchKeeps, TableKeeps,
         TakeKeeps, ReturnsKeep, ReadAllKeeps
      DEF PagingNext, Progress
    <2> QED BY <1>1, <2>1, <2>2
  <1> QED BY PagingInitHolds, <1>1, PTL DEF PagingSpec

-----------------------------------------------------------------------------
\* Every variable of a result set stays in its range: the cursor of a page lies in
\* front of the last row, and a stream is never read past its end.
THEOREM PagingTypes == PagingSpec => []PagingTypeOK
  <1>1. PagingInv => PagingTypeOK BY DEF PagingInv
  <1> QED BY <1>1, PagingInductive, PTL

\* Rows come back in the result's order, none twice and none left out, for any sizes
\* of pages, batches and fetches and any number of failed requests.
THEOREM RowsComeInOrder == PagingSpec => []RowsInOrder
  <1>1. PagingInv => RowsInOrder
    BY DEF PagingInv, Ordered, InOrder, Gapless, RowsInOrder, InOrderOnce
  <1> QED BY <1>1, PagingInductive, PTL

\* A short answer means that nothing is left, unless a request for the stream failed.
THEOREM EndIsTheEnd == PagingSpec => []EndMeansAll
  <1>1. PagingInv => EndMeansAll BY DEF PagingInv
  <1> QED BY <1>1, PagingInductive, PTL
-----------------------------------------------------------------------------
(* The result set as RowCursor sees it: a step that answers, one that raises, *)
(* and the steps the caller does not see.                                     *)

\* What a call appended to the rows returned so far.
LEMMA Appended ==
  ASSUME NEW s \in Seq(Nat), NEW t \in Seq(Nat)
  PROVE  SubSeq(s \o t, Len(s) + 1, Len(s \o t)) = t
  <1> DEFINE a == Len(s)
             z == Len(s) + Len(t)
             b == Len(s) + 1
             c == s \o t
             tail == SubSeq(c, b, z)
  <1>1. /\ c \in Seq(Nat) /\ Len(c) = z /\ a \in Nat /\ Len(t) \in Nat
        /\ \A j \in 1..Len(t) : c[a + j] = t[j]
        /\ \A i \in 1..z : c[i] \in Nat
    BY RowsOf, CatAt, ConcatProperties
  <1>2. /\ b \in Int /\ z \in Int /\ \A i \in b..z : c[i] \in Nat
    <2> HIDE DEF c
    <2> QED BY <1>1
  <1>3. /\ tail \in Seq(Nat) /\ Len(tail) = (IF b <= z THEN z - b + 1 ELSE 0)
        /\ \A i \in 1..z - b + 1 : tail[i] = c[b + i - 1]
    <2> HIDE DEF b, z, c
    <2> QED BY <1>2, SubSeqProperties
  <1>4. Len(tail) = Len(t) /\ \A i \in 1..Len(t) : tail[i] = t[i]
    <2> HIDE DEF tail, c
    <2>1. z - b + 1 = Len(t) /\ (b <= z <=> Len(t) # 0) BY <1>1
    <2>2. Len(tail) = Len(t) BY <2>1, <1>1, <1>3
    <2>3. ASSUME NEW i \in 1..Len(t) PROVE tail[i] = t[i]
      <3>1. b + i - 1 = a + i /\ i \in 1..z - b + 1 BY <1>1, <2>1
      <3>2. tail[i] = c[b + i - 1] BY <3>1, <1>3
      <3>3. c[a + i] = t[i] BY <1>1
      <3> HIDE DEF a, b, z
      <3> QED BY <3>1, <3>2, <3>3
    <2> QED BY <2>2, <2>3
  <1>5. tail = t
    <2> HIDE DEF tail
    <2> QED BY <1>3, <1>4, SeqEqual
  <1> QED BY <1>1, <1>5

LEMMA IncreasingParts ==
  ASSUME NEW s \in Seq(Nat), NEW t \in Seq(Nat), Increasing(s \o t)
  PROVE  Increasing(t) /\ Below(SetOf(s), SetOf(t))
  <1>1. /\ DOMAIN s = 1..Len(s) /\ Len(s) \in Nat /\ DOMAIN t = 1..Len(t) /\ Len(t) \in Nat
    BY RowsOf
  <1>2. ASSUME NEW i \in DOMAIN t, NEW j \in DOMAIN t, i < j PROVE t[i] < t[j]
    <2>1. /\ Len(s) + i \in DOMAIN (s \o t) /\ (s \o t)[Len(s) + i] = t[i]
          /\ Len(s) + j \in DOMAIN (s \o t) /\ (s \o t)[Len(s) + j] = t[j]
      BY CatAt
    <2>2. Len(s) + i < Len(s) + j BY <1>1, <1>2
    <2> QED BY <2>1, <2>2 DEF Increasing
  <1>3. ASSUME NEW i \in DOMAIN s, NEW j \in DOMAIN t PROVE s[i] < t[j]
    <2>1. /\ i \in DOMAIN (s \o t) /\ (s \o t)[i] = s[i]
          /\ Len(s) + j \in DOMAIN (s \o t) /\ (s \o t)[Len(s) + j] = t[j]
      BY CatAt
    <2>2. i < Len(s) + j BY <1>1
    <2> QED BY <2>1, <2>2 DEF Increasing
  <1> QED BY <1>2, <1>3, Zenon DEF Increasing, Below, SetOf

LEMMA LeftRows ==
  ASSUME PagingTypeOK
  PROVE  leftMap \subseteq 1..size /\ 1..size \subseteq Rows
  BY PagingNumbers, PagingBounds DEF leftMap, Rows

\* A step the caller does not see.
LEMMA Unseen ==
  ASSUME UNCHANGED <<size, path, got, dropped, skipped, want, again>>,
         path = "arrow" => faults' = faults, callMap' = callMap
  PROVE  UNCHANGED C!cursorVars
  BY DEF C!cursorVars, leftMap, trustMap

\* A call that returns gives an answer of the abstract cursor.
LEMMA Answered ==
  ASSUME PagingInv, PagingInv', NEW handed \in Seq(Nat), got' = got \o handed,
         phase \in {"fetching", "table"}, phase' = "idle",
         UNCHANGED <<size, path, dropped, skipped, want, again, faults>>,
         \/ want # All /\ Len(handed) = want
         \/ (want = All \/ Len(handed) < want) /\ ended'
  PROVE  C!Answer
  <1>1. got \in Seq(Nat) /\ size \in Nat /\ faults \in Nat BY PagingNumbers DEF PagingInv
  <1>2. SubSeq(got', Len(got) + 1, Len(got')) = handed BY <1>1, Appended
  <1>3. SetOf(got') = SetOf(got) \cup SetOf(handed) BY <1>1, CatRows
  <1>4. C!Given(handed) = SetOf(handed) BY DEF C!Given, SetOf
  <1>5. leftMap' = leftMap \ SetOf(handed) BY <1>3 DEF leftMap
  <1>6. callMap = "fetch" /\ callMap' = "none" /\ trustMap' = trustMap
    BY DEF callMap, trustMap
  <1>7. C!Follows(handed)
    <2>1. ASSUME NEW r \in SetOf(handed), NEW q \in leftMap \ SetOf(handed) PROVE r < q
      <3>1. r \in Nat /\ q \in Nat /\ q \in 1..size /\ r \in SetOf(got')
        BY <2>1, <1>1, <1>3, RowsOf DEF leftMap
      <3>2. 1..r \subseteq SetOf(got') \cup dropped \cup skipped
        BY <3>1 DEF PagingInv, Gapless, NothingSkipped
      <3>3. q \notin SetOf(got') \cup dropped \cup skipped BY <2>1, <1>5 DEF leftMap
      <3> QED BY <3>1, <3>2, <3>3
    <2>2. ASSUME trustMap # "again" PROVE SetOf(handed) \subseteq leftMap /\ C!Ascending(handed)
      <3>1. InOrder' BY <2>2 DEF trustMap, PagingInv, Ordered
      <3>2. Increasing(got \o handed) /\ Pulled' \cap Lost' = {}
            /\ \A r \in Pulled' : r <= Front'
        BY <3>1 DEF InOrder
      <3>3. Increasing(handed) /\ Below(SetOf(got), SetOf(handed))
        BY <3>2, <1>1, IncreasingParts
      <3>4. SetOf(handed) \cap SetOf(got) = {}
        <4>1. \A r \in SetOf(got) : ~(r < r) BY <1>1, RowsOf
        <4> QED BY <3>3, <4>1, Zenon DEF Below
      <3>5. SetOf(handed) \cap (dropped \cup skipped) = {} BY <3>2, <1>3 DEF Pulled, Lost
      <3>6. SetOf(handed) \subseteq 1..size
        <4>1. Front' \in Nat /\ Front' <= size
          <5>1. /\ next' \in Nat /\ (next' = 0 \/ next' < size) /\ pos' \in 0..size
            BY DEF PagingInv, PagingTypeOK
          <5> QED BY <5>1, <1>1 DEF Front, ReadTo
        <4>2. \A r \in SetOf(handed) : r <= Front' /\ r \in Rows
          <5>1. got' \in Seq(Rows) BY DEF PagingInv, PagingTypeOK
          <5>2. SetOf(got') \subseteq Rows BY <5>1, ElementOfSeq, LenProperties DEF SetOf
          <5> QED BY <5>2, <3>2, <1>3 DEF Pulled
        <4> QED BY <4>1, <4>2, <1>1, PagingBounds DEF Rows
      <3> QED BY <3>3, <3>4, <3>5, <3>6 DEF leftMap, C!Ascending, Increasing
    <2> QED BY <2>1, <2>2, <1>4 DEF C!Follows
  <1>8. C!Enough(handed)
    <2>1. C!All = All BY DEF C!All, All
    <2>2. ASSUME ended' PROVE leftMap \subseteq SetOf(handed) \/ trustMap = "cut"
      <3>1. CASE path = "arrow" /\ faults # 0
        BY <3>1, <1>1 DEF trustMap, PagingInv, PathKept
      <3>2. CASE path = "arrow" => faults = 0
        <4>1. 1..size \subseteq SetOf(got') \cup dropped \cup skipped
          BY <2>2, <3>2 DEF PagingInv, EndMeansAll
        <4> QED BY <4>1, <1>3 DEF leftMap
      <3> QED BY <3>1, <3>2
    <2> QED BY <2>1, <2>2, <1>4 DEF C!Enough
  <1> QED BY <1>2, <1>4, <1>5, <1>6, <1>7, <1>8 DEF C!Answer

\* One that raises loses rows, and at most the order of the later ones.
LEMMA Raised ==
  ASSUME PagingTypeOK, phase # "idle", phase' = "idle",
         UNCHANGED <<size, path, got, want>>,
         dropped \subseteq dropped', skipped \subseteq skipped',
         again => again', path = "arrow" => again' = again,
         faults' = faults \/ faults' = faults + 1
  PROVE  C!CursorNext
  <1>1. callMap # "none" /\ callMap' = "none" BY DEF callMap
  <1>2. leftMap' \subseteq leftMap BY DEF leftMap
  <1>3. leftMap' \in SUBSET C!Rows BY <1>2, LeftRows DEF C!Rows, Rows
  <1>4. leftMap' = leftMap \cap leftMap' BY <1>2
  <1>5. trustMap' \in IF trustMap = "sound" THEN {"sound", "cut", "again"} ELSE {trustMap}
    <2>1. faults > 0 => faults' > 0 BY PagingNumbers
    <2> QED BY <2>1 DEF trustMap
  <1>6. C!Raise(leftMap') BY <1>1, <1>4, <1>5 DEF C!Raise
  <1> QED BY <1>3, <1>6 DEF C!CursorNext

LEMMA ExecutedOne ==
  ASSUME phase = "executing", phase' = "idle",
         UNCHANGED <<size, path, got, dropped, skipped, want, again, faults>>
  PROVE  C!CursorNext
  <1>1. C!Executed BY DEF C!Executed, callMap, leftMap, trustMap
  <1> QED BY <1>1 DEF C!CursorNext

LEMMA Asked ==
  ASSUME phase = "idle", phase' \in {"fetching", "table"}, want' \in 0..MaxMany,
         UNCHANGED <<size, path, got, dropped, skipped, again, faults>>
  PROVE  C!CursorNext
  <1>1. C!Ask(want') BY DEF C!Ask, callMap, leftMap, trustMap
  <1> QED BY <1>1 DEF C!CursorNext

\* A page: at the end of execute, within a fetch, undecodable, or read once more.
LEMMA ConsumeShows ==
  ASSUME PagingInv, path = "json", phase = "executing" \/ Needs, NEW f, NEW n, Consume(f, n)
  PROVE  C!CursorNext \/ UNCHANGED C!cursorVars
  <1> DEFINE chunk == From(f, Least(f + n, size) - f)
  <1>1. /\ again' = (again \/ lastRead)
        /\ UNCHANGED <<path, size, faults, got, want>>
        /\ \/ /\ phase' = (IF phase = "executing" THEN "idle" ELSE phase)
              /\ UNCHANGED <<dropped, skipped>>
           \/ /\ phase' = "idle" /\ dropped \subseteq dropped' /\ skipped \subseteq skipped'
    <2>1. CASE Decodes(chunk) BY <2>1 DEF Consume, GoOn, statement
    <2>2. CASE ~Decodes(chunk) BY <2>2 DEF Consume, FetchRaises, statement
    <2> QED BY <2>1, <2>2
  <1> HIDE DEF chunk
  <1>2. phase # "idle" BY DEF Needs, Wants
  <1>3. again \in BOOLEAN /\ lastRead \in BOOLEAN BY DEF PagingInv, PagingTypeOK
  <1>4. CASE phase' = "idle" /\ dropped \subseteq dropped' /\ skipped \subseteq skipped'
             /\ phase # "executing"
    BY <1>1, <1>2, <1>3, <1>4, Raised DEF PagingInv
  <1>5. CASE phase = "executing"
    <2>1. again' = again BY <1>1, <1>3, <1>5 DEF PagingInv, PathKept
    <2>2. CASE UNCHANGED <<dropped, skipped>> BY <1>1, <1>5, <2>1, <2>2, ExecutedOne
    <2>3. CASE dropped \subseteq dropped' /\ skipped \subseteq skipped'
      BY <1>1, <1>2, <1>5, <2>1, <2>3, Raised DEF PagingInv
    <2> QED BY <2>2, <2>3, <1>1
  <1>6. CASE phase' = phase /\ UNCHANGED <<dropped, skipped>>
    <2>1. callMap' = callMap /\ leftMap' = leftMap BY <1>1, <1>6 DEF callMap, leftMap
    <2>2. CASE again' = again BY <2>1, <2>2, <1>1, <1>6, Unseen
    <2>3. CASE again' # again
      <3>1. ~again /\ again' BY <2>3, <1>1, <1>3
      <3>2. phase # "executing" BY <1>1, <2>3, <1>3 DEF PagingInv, PathKept
      <3>3. callMap = "fetch" /\ trustMap = "sound" /\ trustMap' = "again"
        BY <3>1, <3>2, <1>2 DEF callMap, trustMap
      <3>4. C!Restart BY <3>3, <2>1, <1>1 DEF C!Restart
      <3> QED BY <3>4 DEF C!CursorNext
    <2> QED BY <2>2, <2>3
  <1> QED BY <1>1, <1>4, <1>5, <1>6

LEMMA JsonShows ==
  ASSUME PagingInv, Prime \/ LoadPage
  PROVE  C!CursorNext \/ UNCHANGED C!cursorVars
  BY ConsumeShows DEF Prime, LoadPage

LEMMA FailsShow == ASSUME PagingInv, LoadFails \/ OpenFails \/ StreamFails PROVE C!CursorNext
  <1>1. /\ phase # "idle" /\ phase' = "idle" /\ faults' = faults + 1
        /\ dropped' = dropped \cup SetOf(out)
        /\ UNCHANGED <<size, path, got, want, skipped, again>>
    BY DEF LoadFails, OpenFails, StreamFails, Opens, Needs, Wants, Fault, FetchRaises, statement
  <1> QED BY <1>1, Raised DEF PagingInv

LEMMA StreamShows ==
  ASSUME PagingInv, OpenStream \/ NextBatch \/ StreamEnds
  PROVE  C!CursorNext \/ UNCHANGED C!cursorVars
  <1>1. CASE OpenStream
    <2>1. /\ UNCHANGED <<size, path, got, dropped, skipped, want, again, faults>>
          /\ phase' = (IF phase = "executing" THEN "idle" ELSE phase)
      BY <1>1 DEF OpenStream, GoOn, statement
    <2>2. CASE phase = "executing" BY <2>1, <2>2, ExecutedOne
    <2>3. CASE phase # "executing" BY <2>1, <2>3, Unseen DEF callMap
    <2> QED BY <2>2, <2>3
  <1>2. CASE NextBatch
    <2>1. /\ UNCHANGED <<size, path, got, want, again, faults>> /\ phase = "fetching"
          /\ skipped \subseteq skipped'
          /\ \/ phase' = phase /\ UNCHANGED <<dropped, skipped>>
             \/ phase' = "idle" /\ dropped \subseteq dropped'
      <3> DEFINE chunk == From(pos, Least(pos + BatchSize, size) - pos)
      <3>1. CASE Decodes(chunk)
        <4>1. Before(chunk) = chunk BY <3>1 DEF Before
        <4> QED BY <1>2, <3>1, <4>1 DEF NextBatch, Needs, Wants, GoOn, statement
      <3>2. CASE ~Decodes(chunk)
        BY <1>2, <3>2 DEF NextBatch, Needs, Wants, FetchRaises, statement
      <3> QED BY <3>1, <3>2
    <2>2. CASE phase' = phase /\ UNCHANGED <<dropped, skipped>>
      BY <2>1, <2>2, Unseen DEF callMap
    <2>3. CASE phase' = "idle" /\ dropped \subseteq dropped'
      BY <2>1, <2>3, Raised DEF PagingInv
    <2> QED BY <2>1, <2>2, <2>3
  <1>3. CASE StreamEnds
    BY <1>3, Unseen DEF StreamEnds, statement, caller, pagingHistory, callMap
  <1> QED BY <1>1, <1>2, <1>3

LEMMA CallsShow ==
  ASSUME PagingInv, ExecuteReturns \/ FetchTable \/ Take \/ \E n \in 0..MaxMany : Fetch(n)
  PROVE  C!CursorNext \/ UNCHANGED C!cursorVars
  <1>1. CASE ExecuteReturns
    BY <1>1, ExecutedOne DEF ExecuteReturns, statement, pagingHistory
  <1>2. CASE FetchTable
    <2>1. want' \in 0..MaxMany BY <1>2, PagingBounds DEF FetchTable, All
    <2> QED BY <1>2, <2>1, Asked DEF FetchTable, statement, pagingHistory
  <1>3. CASE Take
    BY <1>3, Unseen DEF Take, statement, pagingHistory, callMap
  <1>4. CASE \E n \in 0..MaxMany : Fetch(n)
    BY <1>4, Asked DEF Fetch, statement, pagingHistory
  <1> QED BY <1>1, <1>2, <1>3, <1>4

LEMMA AnswersShow ==
  ASSUME PagingInv, PagingInv', Full \/ NoMore \/ ReadNone \/ ReadAll
  PROVE  C!CursorNext
  <1>1. /\ out \in Seq(Nat) /\ pos \in Nat /\ size \in Nat /\ pos <= size
    BY PagingNumbers DEF PagingInv
  <1>2. /\ phase \in {"fetching", "table"} /\ phase' = "idle"
        /\ UNCHANGED <<size, path, dropped, skipped, want, again, faults>>
    BY DEF Full, NoMore, ReadNone, ReadAll, Wants, FetchReturns, statement, resultSet
  <1>3. CASE Full
    <2>1. got' = got \o out /\ want # All /\ Len(out) = want BY <1>3 DEF Full, FetchReturns
    <2>2. C!Answer BY <1>1, <1>2, <2>1, Answered
    <2> QED BY <2>2 DEF C!CursorNext
  <1>4. CASE NoMore \/ ReadNone
    <2>1. got' = got \o out /\ ended' /\ (want = All \/ Len(out) < want)
      BY <1>4 DEF NoMore, ReadNone, Wants, FetchReturns, PagingInv, PathKept
    <2>2. C!Answer BY <1>1, <1>2, <2>1, Answered
    <2> QED BY <2>2 DEF C!CursorNext
  <1>5. CASE ReadAll
    <2>1. PICK handed \in Seq(Nat) : got' = got \o handed
      <3>1. CASE reader = "open"
        <4>1. got' = got \o (out \o From(pos, size - pos)) BY <1>5, <3>1 DEF ReadAll, FetchReturns
        <4>2. size - pos \in Nat BY <1>1
        <4>3. From(pos, size - pos) \in Seq(Nat) BY <1>1, <4>2, FromRows
        <4>4. out \o From(pos, size - pos) \in Seq(Nat) BY <1>1, <4>3, CatRows
        <4> QED BY <4>1, <4>4
      <3>2. CASE reader # "open"
        BY <1>1, <1>5, <3>2 DEF ReadAll, FetchReturns
      <3> QED BY <3>1, <3>2
    <2>2. ended' /\ want = All BY <1>5 DEF ReadAll, FetchReturns, PagingInv, PathKept
    <2>3. C!Answer BY <1>2, <2>1, <2>2, Answered
    <2> QED BY <2>3 DEF C!CursorNext
  <1> QED BY <1>3, <1>4, <1>5

LEMMA PagingShows ==
  ASSUME PagingInv, PagingInv', [PagingNext]_pagingVars
  PROVE  [C!CursorNext]_C!cursorVars
  <1>1. CASE UNCHANGED pagingVars
    <2>1. UNCHANGED <<size, path, got, dropped, skipped, want, again, faults, phase>>
      BY <1>1 DEF pagingVars, statement, caller, pagingHistory
    <2> QED BY <2>1, Unseen DEF callMap
  <1>2. CASE PagingNext
    BY <1>2, JsonShows, FailsShow, StreamShows, CallsShow, AnswersShow DEF PagingNext, Progress
  <1> QED BY <1>1, <1>2

\* Every behaviour of a result set, over pages, a stream or rows at hand, is one of
\* the abstract cursor: an answer is the rows that come next, in order, as many as
\* asked for or all there are, and a row lost to a call that raised stays lost.
THEOREM PagingImplementsCursor == PagingSpec => CursorSpec
  <1>1. PagingInit => C!CursorInit
    <2> SUFFICES ASSUME PagingInit PROVE C!CursorInit OBVIOUS
    <2>1. leftMap = 1..size /\ size \in 0..MaxRows
      <3>1. SetOf(<<>>) = {} BY NoRows
      <3> QED BY <3>1 DEF PagingInit, leftMap
    <2>2. /\ got = <<>> /\ callMap = "execute" /\ want = C!All /\ trustMap = "sound"
      BY DEF PagingInit, callMap, trustMap, C!All, All
    <2> QED BY <2>1, <2>2 DEF C!CursorInit
  <1>2. PagingInv /\ PagingInv' /\ [PagingNext]_pagingVars => [C!CursorNext]_C!cursorVars
    BY PagingShows
  <1> QED BY <1>1, <1>2, PagingInductive, PTL DEF PagingSpec, CursorSpec, C!CursorSpec
=============================================================================
