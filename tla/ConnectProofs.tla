--------------------------- MODULE ConnectProofs ----------------------------
(***************************************************************************)
(* The safety of connect() and close(), proved for every policy, budget and *)
(* set of sessions; and that over the retry loop the connect is still the   *)
(* one of SessionOpen.  The first part is an invariant of SessionOpen's own  *)
(* steps, the second one of the calls that carry them, and the third one of  *)
(* a single call of TransportRetry, whatever its method.                    *)
(***************************************************************************)
EXTENDS Connect, TLAPS

-----------------------------------------------------------------------------
(* The steps of SessionOpen.                                               *)

Quiet == \A s \in Ids : rows[s] = "none"

\* No session before the POST has answered.
PostFits == pc = "post" => Quiet /\ error = "none"

\* One session afterwards, of which the client knows the past.
HandFits ==
  pc \in {"decide", "get", "use", "returned"} =>
    /\ id \in Ids /\ rows[id] # "none"
    /\ \A s \in Ids : rows[s] # "none" => s = id

SeenFits ==
  /\ pc = "decide" =>
       /\ seen # "none"
       /\ seen = "open" => rows[id] \in {"open", "gone"}
       /\ seen \in {"failed", "gone"} => rows[id] \in {"failed", "gone"}
  /\ pc \in {"use", "returned"} => rows[id] \in {"open", "gone"}

RefusalFits ==
  pc = "raised" =>
    /\ error \in {"refused", "starting"} => Quiet
    /\ error = "terminal" => \A s \in Ids : ~Live(s)

TimeFits == WaitBounded /\ (pc \in {"post", "get"} => now <= ComputeWait)

OInv == TypeOK /\ PostFits /\ HandFits /\ SeenFits /\ RefusalFits /\ TimeFits

LEMMA Times ==
  /\ ComputeWait \in Nat /\ HttpTimeout \in Nat /\ GetTime \in Nat
  /\ PollStart \in Nat /\ PollMax \in Nat /\ PollStart <= PollMax
  /\ RetryDelays \subseteq Nat
  BY TimesAssumption

LEMMA OpenInit == Init => OInv
<1> SUFFICES ASSUME Init PROVE OInv
  OBVIOUS
<1> USE NoIdAssumption, Times DEF Init
<1>1. TypeOK
  <2>1. rows \in [Ids -> RowStatus] /\ seen \in RowStatus /\ error \in Errors
    BY DEF RowStatus, Errors
  <2>2. delay \in PollStart..PollMax /\ now \in Nat
    OBVIOUS
  <2> QED
    BY <2>1, <2>2 DEF TypeOK
<1>2. PostFits /\ HandFits /\ SeenFits /\ RefusalFits
  BY DEF PostFits, HandFits, SeenFits, RefusalFits, Quiet
<1>3. TimeFits
  BY DEF TimeFits, WaitBounded
<1> QED
  BY <1>1, <1>2, <1>3 DEF OInv

\* A step before or at the POST.
PostStep ==
  \/ \E s \in Ids : Aborted(s) \/ \E t \in 1..HttpTimeout : Opened(s, t) \/ Lost(s, t)
  \/ \E t \in 1..HttpTimeout : Refused(t) \/ Starting(t)

LEMMA PostKeeps == ASSUME OInv, PostStep PROVE OInv'
<1> USE Times DEF OInv, NotReady, RowStatus, Errors
<1>1. ASSUME NEW s \in Ids, Aborted(s) PROVE OInv'
  BY <1>1 DEF Aborted, Raise, TypeOK, PostFits, HandFits, SeenFits, RefusalFits, TimeFits,
              WaitBounded
<1>2. ASSUME NEW s \in Ids, NEW t \in 1..HttpTimeout, Opened(s, t) PROVE OInv'
  BY <1>2 DEF Opened, TypeOK, PostFits, HandFits, SeenFits, RefusalFits, TimeFits,
              WaitBounded, Quiet
<1>3. ASSUME NEW s \in Ids, NEW t \in 1..HttpTimeout, Lost(s, t) PROVE OInv'
  BY <1>3 DEF Lost, Raise, TypeOK, PostFits, HandFits, SeenFits, RefusalFits, TimeFits,
              WaitBounded
<1>4. ASSUME NEW t \in 1..HttpTimeout, Refused(t) PROVE OInv'
  BY <1>4 DEF Refused, Raise, TypeOK, PostFits, HandFits, SeenFits, RefusalFits, TimeFits,
              WaitBounded, Quiet
<1>5. ASSUME NEW t \in 1..HttpTimeout, Starting(t) PROVE OInv'
  <2>1. PICK d \in RetryDelays :
          IF now + t + d > ComputeWait
            THEN Raise("starting") /\ timeUp' = TRUE /\ now' = now + t
            ELSE now' = now + t + d /\ UNCHANGED <<pc, error, timeUp>>
    BY <1>5 DEF Starting
  <2>2. d \in Nat /\ now \in Nat /\ t \in Nat /\ t <= HttpTimeout
    BY DEF TypeOK
  <2>3. pc = "post" /\ UNCHANGED <<rows, id, seen, delay>>
    BY <1>5 DEF Starting
  <2>4. CASE now + t + d > ComputeWait
    BY <2>1, <2>2, <2>3, <2>4
    DEF Raise, TypeOK, PostFits, HandFits, SeenFits, RefusalFits, TimeFits, WaitBounded, Quiet
  <2>5. CASE ~(now + t + d > ComputeWait)
    BY <2>1, <2>2, <2>3, <2>5
    DEF TypeOK, PostFits, HandFits, SeenFits, RefusalFits, TimeFits, WaitBounded, Quiet
  <2> QED
    BY <2>4, <2>5
<1> QED
  BY <1>1, <1>2, <1>3, <1>4, <1>5 DEF PostStep

\* A step of a client that holds a session.
HandStep ==
  \/ \E t \in 1..GetTime : Get(t) \/ GetRaises(t)
  \/ IsOpen \/ IsTerminal \/ Wait \/ Use

LEMMA HandKeeps == ASSUME OInv, HandStep PROVE OInv'
<1> USE Times DEF OInv, NotReady, RowStatus, Errors
<1>1. ASSUME NEW t \in 1..GetTime, Get(t) PROVE OInv'
  BY <1>1 DEF Get, TypeOK, PostFits, HandFits, SeenFits, RefusalFits, TimeFits, WaitBounded
<1>2. ASSUME NEW t \in 1..GetTime, GetRaises(t) PROVE OInv'
  BY <1>2 DEF GetRaises, Raise, TypeOK, PostFits, HandFits, SeenFits, RefusalFits, TimeFits,
              WaitBounded
<1>3. ASSUME IsOpen PROVE OInv'
  BY <1>3 DEF IsOpen, TypeOK, PostFits, HandFits, SeenFits, RefusalFits, TimeFits, WaitBounded
<1>4. ASSUME IsTerminal PROVE OInv'
  BY <1>4 DEF IsTerminal, Raise, TypeOK, PostFits, HandFits, SeenFits, RefusalFits, TimeFits,
              WaitBounded, Live
<1>5. ASSUME Wait PROVE OInv'
  <2>1. now \in Nat /\ delay \in Nat /\ PollStart <= delay /\ delay <= PollMax
    BY DEF TypeOK
  <2>2. now' \in Nat /\ delay' \in PollStart..PollMax
    <3>1. CASE now + delay > ComputeWait
      BY <1>5, <2>1, <3>1 DEF Wait
    <3>2. CASE ~(now + delay > ComputeWait) /\ delay * 2 < PollMax
      <4>1. delay' = delay * 2 /\ now' = now + delay
        BY <1>5, <3>2 DEF Wait
      <4> QED
        BY <2>1, <3>2, <4>1
    <3>3. CASE ~(now + delay > ComputeWait) /\ ~(delay * 2 < PollMax)
      BY <1>5, <2>1, <3>3 DEF Wait
    <3> QED
      BY <3>1, <3>2, <3>3
  <2>4. TypeOK'
    BY <1>5, <2>2 DEF Wait, Raise, TypeOK
  <2>3. TimeFits'
    BY <1>5, <2>1 DEF Wait, Raise, TimeFits, WaitBounded
  <2> QED
    BY <1>5, <2>3, <2>4 DEF Wait, Raise, PostFits, HandFits, SeenFits, RefusalFits
<1>6. ASSUME Use PROVE OInv'
  BY <1>6 DEF Use, Raise, TypeOK, PostFits, HandFits, SeenFits, RefusalFits, TimeFits,
              WaitBounded
<1> QED
  BY <1>1, <1>2, <1>3, <1>4, <1>5, <1>6 DEF HandStep

LEMMA ServerKeeps == ASSUME OInv, NEW s \in Ids, Progress(s) PROVE OInv'
  BY DEF OInv, NotReady, RowStatus, Progress, TypeOK, PostFits, HandFits, SeenFits,
         RefusalFits, TimeFits, WaitBounded, Quiet, Live

LEMMA OpenKeeps == ASSUME OInv, [Next]_vars PROVE OInv'
<1>1. CASE UNCHANGED vars
  BY <1>1 DEF vars, OInv, TypeOK, PostFits, HandFits, SeenFits, RefusalFits, TimeFits,
              WaitBounded, Quiet, Live
<1> QED
  BY <1>1, PostKeeps, HandKeeps, ServerKeeps DEF Next, OpenStep, PostStep, HandStep

-----------------------------------------------------------------------------
(* The calls that carry the steps.                                         *)

Idle == call = "idle"

CallTypes ==
  /\ call \in {"idle", "sending", "answered", "sleeping", "returned", "raised"}
  /\ method \in T!Methods /\ answer \in T!Answers \cup {"none"}
  /\ attempt \in 0..MaxRetries /\ pause \in Nat /\ took \in Nat
  /\ sent \in Nat /\ effects \in 0..sent

\* Which step of the connection a call belongs to.
Coupled ==
  /\ method = "POST" /\ ~Idle => pc = "post"
  /\ method = "GET" /\ ~Idle => pc = "get"
  /\ method = "DELETE" /\ ~Idle => closing = "deleting"
  /\ closing = "deleting" => ~Idle /\ method = "DELETE"
  /\ closing # "open" => pc = "returned"
  /\ closing \in {"open", "deleting", "closed", "failed"}

\* What a call has sent and how long it took, place by place of its loop.
CallSent ==
  /\ call = "sending" => sent = attempt
  /\ call \notin {"idle", "sending"} => sent = attempt + 1
  /\ call = "sleeping" => attempt < MaxRetries
  /\ method = "POST" => attempt = 0 /\ call # "sleeping"

CallTime ==
  /\ call = "sending" => took <= MaxElapsed
  /\ call = "sleeping" => took + pause <= MaxElapsed
  /\ took <= GetTime
  /\ call \notin {"idle", "sending"} => took >= 1
  /\ method = "POST" => took <= HttpTimeout /\ (call = "sending" => took = 0)

\* A call that returned was carried out, and a DELETE that was has ended the session.
CallDone ==
  /\ answer = "ok" /\ ~Idle => effects >= 1
  /\ call = "returned" => answer = "ok"
  /\ closing = "deleting" /\ effects >= 1 => rows[id] = "gone"
  /\ ClosedIsGone

CInv == OInv /\ CallTypes /\ Coupled /\ CallSent /\ CallTime /\ CallDone

LEMMA Policy ==
  /\ MaxRetries \in Nat /\ MaxElapsed \in Nat /\ HttpTimeout \in Nat
  /\ RequestTime = HttpTimeout /\ GetTime = MaxElapsed + HttpTimeout
  BY PolicyAssumption, GetTimeAssumption, Times

LEMMA CallInit == ConnectInit => CInv
  BY OpenInit, Policy
  DEF ConnectInit, Init, CInv, CallTypes, Coupled, CallSent, CallTime, CallDone, Idle,
      ClosedIsGone, T!Methods, T!Answers

\* The step of SessionOpen that a step of the connection is, or a stutter.
LEMMA Stutters ==
  ASSUME CInv, BeginOpen \/ Retry \/ Close \/ Closed PROVE UNCHANGED vars
  BY DEF BeginOpen, Retry, Close, Closed, vars

LEMMA SameOpen == ASSUME OInv, UNCHANGED vars PROVE OInv'
  BY OpenKeeps

LEMMA BeginKeeps == ASSUME CInv, BeginOpen \/ Close PROVE CInv'
<1> USE Policy DEF CInv, BeginOpen, Close, Fresh
<1>1. OInv'
  BY SameOpen DEF vars
<1>2. CallTypes' /\ CallSent' /\ CallTime'
  BY DEF CallTypes, CallSent, CallTime, T!Methods
<1>3. Coupled' /\ CallDone'
  BY DEF vars, Coupled, CallDone, Idle, ClosedIsGone
<1> QED
  BY <1>1, <1>2, <1>3

LEMMA ClosedKeeps == ASSUME CInv, Closed PROVE CInv'
<1> USE Policy DEF CInv, Closed, HangUp, Fresh
<1>1. OInv'
  BY SameOpen DEF vars
<1>2. CallTypes' /\ CallSent' /\ CallTime'
  BY DEF CallTypes, CallSent, CallTime, T!Methods
<1>3. Coupled'
  BY DEF vars, Coupled, Idle
<1>4. CallDone'
  BY DEF vars, CallDone, Idle, ClosedIsGone
<1> QED
  BY <1>1, <1>2, <1>3, <1>4

\* A step in a call's place hangs up.
LEMMA AnswerKeeps ==
  ASSUME CInv, OInv', PostReturns \/ PostRefused \/ PostLost \/ GetReturns \/ GetFails
  PROVE  CInv'
<1> USE Policy DEF CInv
<1>1. HangUp /\ UNCHANGED closing /\ pc \in {"post", "get"}
  BY DEF PostReturns, PostRefused, PostLost, GetReturns, GetFails,
         Opened, Refused, Starting, Lost, Aborted, Get, GetRaises
<1>2. CallTypes' /\ CallSent' /\ CallTime'
  BY <1>1 DEF HangUp, Fresh, CallTypes, CallSent, CallTime, T!Methods
<1>3. closing = "open"
  BY <1>1 DEF Coupled
<1> QED
  BY <1>1, <1>2, <1>3 DEF HangUp, Fresh, Coupled, CallDone, Idle, ClosedIsGone

LEMMA DecideKeeps == ASSUME CInv, Decide PROVE CInv'
<1> USE DEF CInv
<1>1. OInv'
  BY HandKeeps DEF Decide, HandStep
<1>2. closing = "open" /\ UNCHANGED <<callVars, closing>>
  BY DEF Decide, IsOpen, IsTerminal, Wait, Use, Coupled
<1> QED
  BY <1>1, <1>2 DEF Decide, callVars, CallTypes, Coupled, CallSent, CallTime, CallDone, Idle,
                    ClosedIsGone

LEMMA ServerStepKeeps == ASSUME CInv, ServerStep PROVE CInv'
<1> USE DEF CInv
<1>1. OInv'
  BY ServerKeeps DEF ServerStep
<1>2. UNCHANGED <<callVars, closing, pc, id>> /\ (id \in Ids /\ rows[id] = "gone" => rows'[id] = "gone")
  BY DEF ServerStep, Progress, OInv, TypeOK
<1>3. closing # "open" => id \in Ids
  BY DEF Coupled, OInv, HandFits
<1> QED
  BY <1>1, <1>2, <1>3 DEF callVars, CallTypes, Coupled, CallSent, CallTime, CallDone, Idle,
                          ClosedIsGone

\* The DELETE that arrives ends an open session; no other attempt touches one.
LEMMA AttemptOpens == ASSUME CInv, Attempt PROVE [Next]_vars
<1>1. CASE method = "DELETE" /\ effects' > effects
  <2>1. call = "sending" /\ pc = "returned"
    BY <1>1 DEF Attempt, T!Send, CInv, Coupled, Idle
  <2>2. id \in Ids /\ rows[id] \in {"open", "gone"} /\ rows \in [Ids -> RowStatus]
    BY <2>1 DEF CInv, OInv, HandFits, SeenFits, TypeOK
  <2>3. rows' = [rows EXCEPT ![id] = "gone"]
        /\ UNCHANGED <<pc, id, seen, delay, now, error, timeUp>>
    BY <1>1 DEF Attempt
  <2>4. CASE rows[id] = "open"
    BY <2>2, <2>3, <2>4 DEF Progress, Next
  <2>5. CASE rows[id] = "gone"
    BY <2>2, <2>3, <2>5 DEF vars
  <2> QED
    BY <2>2, <2>4, <2>5
<1>2. CASE ~(method = "DELETE" /\ effects' > effects)
  BY <1>2 DEF Attempt, vars
<1> QED
  BY <1>1, <1>2

LEMMA AttemptKeeps == ASSUME CInv, Attempt PROVE CInv'
<1> USE Policy
<1>1. OInv'
  BY AttemptOpens, OpenKeeps DEF CInv
<1>2. /\ call = "sending" /\ call' = "answered" /\ answer' \in T!Answers
      /\ UNCHANGED <<method, attempt, pause, why, pc, id, closing>>
      /\ took' > took
      /\ rows' = IF method = "DELETE" /\ effects' > effects
                   THEN [rows EXCEPT ![id] = "gone"] ELSE rows
  BY DEF Attempt, T!Send
<1>3. sent = attempt /\ attempt \in 0..MaxRetries /\ effects \in 0..sent /\ took \in Nat
  BY <1>2 DEF CInv, CallSent, CallTypes
<1>4. sent' = sent + 1 /\ effects' \in {effects, effects + 1}
      /\ (answer' = "ok" => effects' = effects + 1)
  <2>1. T!Count(sent) = sent + 1 /\ T!Count(effects) = effects + 1
    BY <1>3 DEF T!Count, T!SentCap
  <2> QED
    BY <2>1 DEF Attempt, T!Send
<1>5. took' \in Nat /\ took' <= took + HttpTimeout
  <2>1. PICK t \in 0..RequestTime : took' = took + t
    BY DEF Attempt, T!Send
  <2> QED
    BY <1>3, <2>1
<1>6. CallTypes'
  BY <1>2, <1>3, <1>4, <1>5 DEF CInv, CallTypes, T!Answers
<1>7. CallSent'
  BY <1>2, <1>3, <1>4 DEF CInv, CallSent
<1>8. CallTime'
  BY <1>2, <1>3, <1>5 DEF CInv, CallTime
<1>9. Coupled'
  BY <1>2 DEF CInv, Coupled, Idle
<1>10. CallDone'
  <2>1. answer' = "ok" => effects' >= 1
    BY <1>3, <1>4
  <2>2. closing = "deleting" => method = "DELETE" /\ pc = "returned"
    BY DEF CInv, Coupled
  <2>3. closing = "deleting" => id \in Ids /\ rows \in [Ids -> RowStatus]
    BY <2>2 DEF CInv, OInv, HandFits, TypeOK
  <2>4. closing' = "deleting" /\ effects' >= 1 => rows'[id'] = "gone"
    <3> SUFFICES ASSUME closing = "deleting", effects' >= 1 PROVE rows'[id] = "gone"
      BY <1>2
    <3>1. CASE effects' = effects + 1
      BY <1>2, <1>3, <2>2, <2>3, <3>1
    <3>2. CASE effects' = effects
      BY <1>2, <1>3, <3>2 DEF CInv, CallDone
    <3> QED
      BY <1>4, <3>1, <3>2
  <2>5. method = "DELETE" => closing = "deleting"
    BY <1>2 DEF CInv, Coupled, Idle
  <2>6. ClosedIsGone'
    BY <1>2, <2>5 DEF CInv, CallDone, ClosedIsGone
  <2> QED
    BY <1>2, <2>1, <2>4, <2>6 DEF CallDone
<1> QED
  BY <1>1, <1>6, <1>7, <1>8, <1>9, <1>10 DEF CInv

LEMMA SumType == \A m, n \in Nat : m + n \in Nat
  OBVIOUS

LEMMA PauseType == \A d \in T!Delays : d \in Nat
  BY PolicyAssumption DEF T!Delays

LEMMA RetryKeeps == ASSUME CInv, Retry PROVE CInv'
<1> USE Policy
<1>1. OInv'
  BY SameOpen DEF Retry, CInv
<1>2. UNCHANGED <<vars, closing, method, sent, effects>> /\ ~Idle
  BY DEF Retry, T!PlanRetry, T!Wake, T!Finish, Idle
<1>3. CASE T!PlanRetry
  <2>1. /\ call = "answered" /\ call' \in {"sleeping", "raised"} /\ attempt < MaxRetries
        /\ method # "POST" /\ pause' \in Nat
        /\ call' = "sleeping" => took + pause' <= MaxElapsed
        /\ UNCHANGED <<answer, attempt, took>>
    <3>1. pause' \in Nat
      <4>1. pause' \in T!Delays
        BY <1>3 DEF T!PlanRetry
      <4> QED
        BY <4>1, PauseType
    <3>2. took + pause' \in Nat
      <4>1. took \in Nat
        BY DEF CInv, CallTypes
      <4> QED
        BY <3>1, <4>1, SumType
    <3>3. /\ call = "answered" /\ UNCHANGED <<answer, attempt, took>>
          /\ took + pause' > MaxElapsed => call' = "raised"
          /\ ~(took + pause' > MaxElapsed) => call' = "sleeping"
      BY <1>3 DEF T!PlanRetry
    <3>4. attempt < MaxRetries /\ method # "POST"
      BY <1>3 DEF T!PlanRetry, T!Retries, T!Idempotent
    <3>5. ~(took + pause' > MaxElapsed) => took + pause' <= MaxElapsed
      BY <3>2
    <3> QED
      BY <3>1, <3>3, <3>4, <3>5
  <2>2. CallTypes' /\ CallSent' /\ CallTime'
    BY <1>2, <2>1 DEF CInv, CallTypes, CallSent, CallTime
  <2> QED
    BY <1>1, <1>2, <2>1, <2>2 DEF CInv, vars, Coupled, CallDone, Idle, ClosedIsGone
<1>4. CASE T!Wake
  <2>1. /\ call = "sleeping" /\ call' = "sending" /\ took' = took + pause
        /\ attempt' = attempt + 1 /\ answer' = "none" /\ UNCHANGED pause
    BY <1>4 DEF T!Wake
  <2>2. CallTypes' /\ CallSent' /\ CallTime'
    BY <1>2, <2>1 DEF CInv, CallTypes, CallSent, CallTime
  <2> QED
    BY <1>1, <1>2, <2>1, <2>2 DEF CInv, vars, Coupled, CallDone, Idle, ClosedIsGone
<1>5. CASE T!Finish
  <2>1. /\ call = "answered" /\ call' \in {"returned", "raised"}
        /\ call' = "returned" => answer = "ok"
        /\ UNCHANGED <<answer, attempt, pause, took>>
    BY <1>5 DEF T!Finish
  <2>2. CallTypes' /\ CallSent' /\ CallTime'
    BY <1>2, <2>1 DEF CInv, CallTypes, CallSent, CallTime
  <2> QED
    BY <1>1, <1>2, <2>1, <2>2 DEF CInv, vars, Coupled, CallDone, Idle, ClosedIsGone
<1> QED
  BY <1>3, <1>4, <1>5 DEF Retry

\* An answer is a step of SessionOpen: the call took as long as that step may.
LEMMA AnswerOpens ==
  ASSUME CInv, PostReturns \/ PostRefused \/ PostLost \/ GetReturns \/ GetFails
  PROVE  Next
<1> USE Policy
<1>1. took \in 1..GetTime /\ (method = "POST" => took \in 1..HttpTimeout)
  BY DEF PostReturns, PostRefused, PostLost, GetReturns, GetFails, CInv, CallTime, CallTypes
<1>2. CASE PostReturns
  BY <1>1, <1>2 DEF PostReturns, Next, OpenStep
<1>3. CASE PostRefused
  BY <1>1, <1>3 DEF PostRefused, Next, OpenStep
<1>4. CASE PostLost
  BY <1>1, <1>4 DEF PostLost, Next, OpenStep
<1>5. CASE GetReturns \/ GetFails
  BY <1>1, <1>5 DEF GetReturns, GetFails, Next, OpenStep
<1> QED
  BY <1>2, <1>3, <1>4, <1>5

\* The refinement mapping is the identity: every step of the connection is a step
\* of SessionOpen or a stutter.
LEMMA StepOpens == ASSUME CInv, [ConnectNext]_connectVars PROVE [Next]_vars
<1>1. CASE UNCHANGED connectVars
  BY <1>1 DEF connectVars, vars
<1>2. CASE Decide \/ ServerStep
  BY <1>2 DEF Decide, ServerStep, Next, OpenStep
<1> QED
  BY <1>1, <1>2, Stutters, AttemptOpens, AnswerOpens DEF ConnectNext, ConnectStep

LEMMA ConnectKeeps == ASSUME CInv, [ConnectNext]_connectVars PROVE CInv'
<1>1. OInv'
  BY StepOpens, OpenKeeps DEF CInv
<1>2. CASE UNCHANGED connectVars
  BY <1>1, <1>2 DEF connectVars, vars, callVars, CInv, CallTypes, Coupled, CallSent, CallTime,
                    CallDone, Idle, ClosedIsGone
<1> QED
  BY <1>1, <1>2, BeginKeeps, AttemptKeeps, RetryKeeps, AnswerKeeps, DecideKeeps, ClosedKeeps,
     ServerStepKeeps DEF ConnectNext, ConnectStep

LEMMA Inductive == ConnectSpec => []CInv
<1>1. CInv /\ [ConnectNext]_connectVars => CInv'
  BY ConnectKeeps
<1> QED
  BY <1>1, CallInit, PTL DEF ConnectSpec

-----------------------------------------------------------------------------
(* One call of the transport by itself, of any method.                      *)

\* Requests that have left, in terms of the retries made.
LoopSent ==
  /\ call = "sending" => sent = attempt
  /\ call # "sending" => sent = attempt + 1

\* A POST makes no retry, so it is never waiting for one either.
LoopPost == method = "POST" => attempt = 0 /\ call # "sleeping"

\* Where the call is in its budget.
LoopTime ==
  /\ call = "sending" => took <= MaxElapsed
  /\ call = "sleeping" => took + pause <= MaxElapsed
  /\ took <= MaxElapsed + RequestTime

\* A retry is only waited for while there is one left.
LoopWait == call = "sleeping" => attempt < MaxRetries

LoopInv ==
  /\ T!TypeOK /\ LoopSent /\ LoopPost /\ LoopTime /\ LoopWait
  /\ T!ReturnedIsCarriedOut /\ T!GivesUpLate
  /\ call = "answered" => answer # "none" /\ (answer = "ok" => effects >= 1)

LEMMA LoopInit == T!Init => LoopInv
  BY PolicyAssumption
  DEF T!Init, LoopInv, T!TypeOK, T!Methods, T!Ended, T!SentCap, LoopSent, LoopPost, LoopTime,
      LoopWait, T!ReturnedIsCarriedOut, T!GivesUpLate

LEMMA LoopSend == ASSUME LoopInv, T!Send PROVE LoopInv'
<1> USE PolicyAssumption DEF LoopInv, T!Send, T!SentCap
<1>1. sent = attempt /\ attempt \in 0..MaxRetries
  BY DEF T!TypeOK, LoopSent
<1>2. T!Count(sent) = sent + 1 /\ T!Count(effects) = effects + 1 /\ effects \in 0..sent
  BY <1>1 DEF T!Count, T!TypeOK
<1>3. sent' = sent + 1 /\ effects' \in 0..(sent + 1)
      /\ (answer' = "ok" => effects' >= 1)
  BY <1>2 DEF T!TypeOK
<1>4. took' \in Nat /\ took' <= MaxElapsed + RequestTime
  BY DEF T!TypeOK, LoopTime
<1>5. T!TypeOK'
  BY <1>1, <1>3, <1>4 DEF T!TypeOK, T!Ended, T!Answers
<1>6. LoopSent' /\ LoopPost' /\ LoopTime' /\ LoopWait'
  BY <1>1, <1>3, <1>4 DEF LoopSent, LoopPost, LoopTime, LoopWait
<1> QED
  BY <1>3, <1>5, <1>6 DEF T!ReturnedIsCarriedOut, T!GivesUpLate, T!Answers

LEMMA LoopPlanRetry == ASSUME LoopInv, T!PlanRetry PROVE LoopInv'
<1> USE PolicyAssumption DEF LoopInv
<1>1. pause' \in Nat /\ took \in Nat
  BY PauseType DEF T!PlanRetry, T!TypeOK
<1>2. took + pause' \in Nat
  BY <1>1, SumType
<1>3. T!TypeOK'
  BY <1>1 DEF T!PlanRetry, T!TypeOK, T!Ended, T!SentCap
<1>4. method # "POST" /\ attempt < MaxRetries /\ answer # "ok"
  BY DEF T!PlanRetry, T!Retries, T!Idempotent
<1>5. LoopSent' /\ LoopPost' /\ LoopWait'
  BY <1>4 DEF T!PlanRetry, LoopSent, LoopPost, LoopWait
<1>6. LoopTime'
  BY <1>2 DEF T!PlanRetry, LoopTime
<1>7. T!GivesUpLate' /\ T!ReturnedIsCarriedOut'
  BY <1>4 DEF T!PlanRetry, T!GivesUpLate, T!ReturnedIsCarriedOut
<1> QED
  BY <1>3, <1>4, <1>5, <1>6, <1>7 DEF T!PlanRetry

LEMMA LoopWake == ASSUME LoopInv, T!Wake PROVE LoopInv'
<1> USE PolicyAssumption DEF LoopInv, T!Wake
<1>1. T!TypeOK'
  BY DEF T!TypeOK, LoopWait, T!Ended, T!SentCap
<1>2. LoopSent' /\ LoopPost' /\ LoopTime' /\ LoopWait'
  BY DEF LoopSent, LoopPost, LoopTime, LoopWait, T!TypeOK
<1> QED
  BY <1>1, <1>2 DEF T!GivesUpLate, T!ReturnedIsCarriedOut

LEMMA LoopFinish == ASSUME LoopInv, T!Finish PROVE LoopInv'
<1> USE PolicyAssumption DEF LoopInv, T!Finish
<1>1. T!TypeOK'
  BY DEF T!TypeOK, T!Ended, T!SentCap
<1>2. LoopSent' /\ LoopPost' /\ LoopTime' /\ LoopWait'
  <2>1. LoopSent'
    BY DEF LoopSent
  <2>2. LoopPost' /\ LoopWait'
    BY DEF LoopPost, LoopWait
  <2>3. LoopTime'
    BY DEF LoopTime
  <2> QED
    BY <2>1, <2>2, <2>3
<1>3. T!GivesUpLate'
  BY DEF T!GivesUpLate, T!Retries, T!TypeOK, T!Answers
<1> QED
  BY <1>1, <1>2, <1>3 DEF T!ReturnedIsCarriedOut

LEMMA LoopInductive == T!Spec => []LoopInv
<1>1. LoopInv /\ [T!Next]_(T!vars) => LoopInv'
  <2> SUFFICES ASSUME LoopInv, [T!Next]_(T!vars) PROVE LoopInv'
    OBVIOUS
  <2>1. CASE T!Send
    BY <2>1, LoopSend
  <2>2. CASE T!PlanRetry
    BY <2>2, LoopPlanRetry
  <2>3. CASE T!Wake
    BY <2>3, LoopWake
  <2>4. CASE T!Finish
    BY <2>4, LoopFinish
  <2>5. CASE UNCHANGED T!vars
    BY <2>5 DEF T!vars, LoopInv, T!TypeOK, LoopSent, LoopPost, LoopTime, LoopWait,
                T!ReturnedIsCarriedOut, T!GivesUpLate
  <2> QED
    BY <2>1, <2>2, <2>3, <2>4, <2>5 DEF T!Next
<1> QED
  BY <1>1, LoopInit, PTL DEF T!Spec

-----------------------------------------------------------------------------
\* Over the retry loop of the transport, connect() and close() do what SessionOpen
\* says, for every policy, budget and set of sessions (connection.py 116-215).
THEOREM OpensOverTransport == ConnectSpec => OpensAsSpecified
<1>1. ConnectInit => Init
  BY DEF ConnectInit
<1>2. CInv /\ [ConnectNext]_connectVars => [Next]_vars
  BY StepOpens
<1> QED
  BY <1>1, <1>2, Inductive, PTL DEF ConnectSpec, OpensAsSpecified, Spec

\* What connect() returns runs on the one session that it made (connection.py
\* 116-131, 183-205).
THEOREM ConnectReturnsOpen == ConnectSpec => []ReturnedIsOpen
<1>1. CInv => ReturnedIsOpen
  BY NoIdAssumption DEF CInv, OInv, HandFits, SeenFits, ReturnedIsOpen, Live, NotReady
<1> QED
  BY <1>1, Inductive, PTL

\* connect() is over in its budget and one request more (connection.py 157, 176, 211).
THEOREM ConnectInTime == ConnectSpec => []WaitBounded
<1>1. CInv => WaitBounded
  BY DEF CInv, OInv, TimeFits
<1> QED
  BY <1>1, Inductive, PTL

\* A refusal, or a close() that raised nothing, leaves no session (connection.py
\* 192-205, 314-322).
THEOREM ConnectLeavesNothing == ConnectSpec => []NoSessionLeft
<1>1. CInv => NoSessionLeft
  BY DEF CInv, OInv, RefusalFits, CallDone, NoSessionLeft, RefusedLeavesNothing, Quiet, Live,
         NotReady
<1> QED
  BY <1>1, Inductive, PTL

\* The type invariant, for every policy.
THEOREM RequestTypes == T!Spec => []T!TypeOK
<1>1. LoopInv => T!TypeOK
  BY DEF LoopInv
<1> QED
  BY <1>1, LoopInductive, PTL

\* A POST leaves once and is carried out at most once (client.py 26, 114-135).
THEOREM SubmitOnce == T!Spec => []T!PostOnce
<1>1. LoopInv => T!PostOnce
  BY DEF LoopInv, T!PostOnce, LoopPost, LoopSent, T!TypeOK
<1> QED
  BY <1>1, LoopInductive, PTL

\* A call sends at most 1 + max_retries requests (client.py 130, 145).
THEOREM RequestsBounded == T!Spec => []T!SentBounded
<1>1. LoopInv => T!SentBounded
  BY PolicyAssumption DEF LoopInv, T!SentBounded, LoopSent, T!TypeOK
<1> QED
  BY <1>1, LoopInductive, PTL

\* A call is over once its budget and one more request have passed, for every
\* Retry-After the server sends (client.py 159-168).
THEOREM TimeBounded == T!Spec => []T!EndsInTime
<1>1. LoopInv => T!EndsInTime
  BY DEF LoopInv, T!EndsInTime, LoopTime
<1> QED
  BY <1>1, LoopInductive, PTL

\* What a call returns was carried out (client.py 142-157).
THEOREM ReturnsTruth == T!Spec => []T!ReturnedIsCarriedOut
<1>1. LoopInv => T!ReturnedIsCarriedOut
  BY DEF LoopInv
<1> QED
  BY <1>1, LoopInductive, PTL

\* A GET or DELETE that could still succeed is given up only when the retries
\* or the budget are used up (client.py 130, 142-146, 163).
THEOREM GivesUpOnlyLate == T!Spec => []T!GivesUpLate
<1>1. LoopInv => T!GivesUpLate
  BY DEF LoopInv
<1> QED
  BY <1>1, LoopInductive, PTL
=============================================================================
