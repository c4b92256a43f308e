------------------------- MODULE SessionPoolProofs --------------------------
(***************************************************************************)
(* The safety properties of SessionPool, proved for every set of clients,  *)
(* sessions and settings.  IInv is the inductive invariant: the type       *)
(* invariant, the four parts of OneUserPerSession, and what each phase of  *)
(* a client says of the Connection it holds.                               *)
(***************************************************************************)
EXTENDS SessionPoolRefinement, SequenceTheorems, TLAPS

\* What the phase of a client says of its _conn.
HoldsNothing(c) == phase[c] \in {"out", "connecting"}

HandlesFit ==
  \A c \in Clients :
    /\ HoldsNothing(c) <=> conn[c] = NoSession
    /\ phase[c] \in Working => connection[conn[c]] = "usable"
    /\ phase[c] = "reopening" => connection[conn[c]] = "closed"
    /\ phase[c] = "failed" => connection[conn[c]] # "none"

\* What waits to be taken, or to be closed, is a Connection nobody touched.
WaitingFit ==
  \A s \in Sessions :
    /\ Pooled(s) => connection[s] = "usable"
    /\ \A x \in Closers : s \in closing[x] => connection[s] = "usable"

\* connect() returns sessions the server opened, and a failed session is one.
FreshFit ==
  \A s \in Sessions :
    /\ server[s] = "none" => connection[s] = "none"
    /\ s \in tainted => connection[s] # "none"

\* A session in a pool list has the settings of the list.
ListSettings == \A k \in Keys, s \in Sessions : InList(k, s) => settings[s] = k

IInv == /\ TypeOK
        /\ OneUserPerSession
        /\ HandlesFit
        /\ WaitingFit
        /\ FreshFit
        /\ FailedNotPassedOn
        /\ OwnSettings
        /\ ListSettings

-----------------------------------------------------------------------------
(* Taking the last element of a list, and adding one to it.                *)

LEMMA PopType ==
  ASSUME NEW S, NEW q \in Seq(S), q # <<>>
  PROVE  /\ Len(q) \in 1..Len(q)
         /\ q[Len(q)] \in S
         /\ SubSeq(q, 1, Len(q) - 1) \in Seq(S)
         /\ Len(SubSeq(q, 1, Len(q) - 1)) = Len(q) - 1
         /\ \A i \in 1..(Len(q) - 1) : SubSeq(q, 1, Len(q) - 1)[i] = q[i]
<1> DEFINE n == Len(q)
           t == SubSeq(q, 1, n - 1)
<1>1. n \in Nat /\ n # 0
  BY EmptySeq, LenProperties
<1> HIDE DEF n
<1>2. n \in 1..n /\ 1 \in Int /\ n - 1 \in Int /\ (n - 1) - 1 + 1 = n - 1
  BY <1>1
<1>3. q[n] \in S /\ \A i \in 1..(n - 1) : q[i] \in S
  BY <1>1, ElementOfSeq DEF n
<1> HIDE DEF t
<1>4. /\ t \in Seq(S)
      /\ Len(t) = IF 1 <= n - 1 THEN (n - 1) - 1 + 1 ELSE 0
      /\ \A i \in 1..((n - 1) - 1 + 1) : t[i] = q[1 + i - 1]
  <2>1. /\ SubSeq(q, 1, n - 1) \in Seq(S)
        /\ Len(SubSeq(q, 1, n - 1)) = IF 1 <= n - 1 THEN (n - 1) - 1 + 1 ELSE 0
        /\ \A i \in 1..((n - 1) - 1 + 1) : SubSeq(q, 1, n - 1)[i] = q[1 + i - 1]
    BY <1>2, <1>3, SubSeqProperties
  <2> QED
    BY <2>1, Zenon DEF t
<1>5. Len(t) = n - 1 /\ \A i \in 1..(n - 1) : t[i] = q[i]
  BY <1>1, <1>4
<1> QED
  BY <1>2, <1>3, <1>4, <1>5, Zenon DEF n, t

LEMMA PushType ==
  ASSUME NEW S, NEW q \in Seq(S), NEW s \in S
  PROVE  /\ Append(q, s) \in Seq(S)
         /\ Len(Append(q, s)) = Len(q) + 1
         /\ Append(q, s)[Len(q) + 1] = s
         /\ \A i \in 1..Len(q) : Append(q, s)[i] = q[i]
  OBVIOUS

-----------------------------------------------------------------------------
(* Type correctness.                                                       *)

LEMMA InitType == Init => TypeOK
  <1> SUFFICES ASSUME Init PROVE TypeOK
    OBVIOUS
  <1>1. pool \in [Keys -> Seq(Sessions)]
    BY EmptySeq DEF Init
  <1> QED
    BY <1>1 DEF Init, TypeOK, Phases

LEMMA PopKeepsType ==
  ASSUME TypeOK, NEW c \in Clients, TakePooled(c)
  PROVE  TypeOK'
<1>1. Key[c] \in Keys /\ pool[Key[c]] \in Seq(Sessions)
  BY KeyAssumption DEF TypeOK
<1>2. pool[Key[c]][Len(pool[Key[c]])] \in Sessions
      /\ SubSeq(pool[Key[c]], 1, Len(pool[Key[c]]) - 1) \in Seq(Sessions)
  BY <1>1, PopType DEF TakePooled
<1> QED
  BY <1>1, <1>2 DEF TakePooled, TypeOK, Move, Phases

LEMMA HandBackKeepsType ==
  ASSUME TypeOK, NEW c \in Clients, HandBack(c), conn[c] # NoSession
  PROVE  TypeOK'
<1>1. Key[c] \in Keys /\ pool[Key[c]] \in Seq(Sessions) /\ conn[c] \in Sessions
  BY KeyAssumption DEF TypeOK
<1>2. Append(pool[Key[c]], conn[c]) \in Seq(Sessions)
  BY <1>1, PushType
<1> QED
  BY <1>1, <1>2 DEF HandBack, TypeOK, Move, Phases

LEMMA TakeAllIdleKeepsType ==
  ASSUME TypeOK, NEW x \in Closers, TakeAllIdle(x)
  PROVE  closing' \in [Closers -> SUBSET Sessions] /\ pool' \in [Keys -> Seq(Sessions)]
<1>1. {s \in Sessions : Pooled(s)} \in SUBSET Sessions
  OBVIOUS
<1>2. <<>> \in Seq(Sessions)
  BY EmptySeq
<1> QED
  BY <1>1, <1>2 DEF TakeAllIdle, TypeOK

LEMMA CloseKeepsType ==
  ASSUME TypeOK, NEW s \in Sessions, CloseConnection(s)
  PROVE  /\ connection' \in [Sessions -> {"none", "usable", "dead", "closed"}]
         /\ server' \in [Sessions -> {"none", "open", "gone"}]
  BY DEF TypeOK, CloseConnection

LEMMA NextKeepsType ==
  ASSUME TypeOK, HandlesFit, [Next]_vars
  PROVE  TypeOK'
<1> USE DEF TypeOK, Move, Phases, HoldsNothing
<1>1. ASSUME NEW c \in Clients, ClientNext(c) PROVE TypeOK'
  <2> /\ phase[c] \notin {"out", "connecting"} => conn[c] \in Sessions \ {NoSession}
      /\ Key[c] \in Keys
    BY KeyAssumption, NoSessionAssumption DEF HandlesFit
  <2>1. CASE TakePooled(c)
    BY <2>1, PopKeepsType
  <2>2. CASE StartConnect(c)
    BY <2>2 DEF StartConnect
  <2>3. CASE ConnectRaises(c)
    BY <2>3 DEF ConnectRaises
  <2>4. CASE \E s \in Sessions : ConnectReturns(c, s)
    BY <2>4 DEF ConnectReturns
  <2>5. CASE Prepare(c)
    BY <2>5 DEF Prepare
  <2>6. CASE LostReconnect(c)
    BY <2>6 DEF LostReconnect
  <2>7. CASE LostRaises(c)
    BY <2>7 DEF LostRaises
  <2>8. CASE Resent(c)
    BY <2>8 DEF Resent
  <2>9. CASE CallRaises(c)
    BY <2>9 DEF CallRaises
  <2>10. CASE HandBack(c)
    BY <2>10, HandBackKeepsType DEF HandBack
  <2>11. CASE CloseOwn(c)
    BY <2>11, CloseKeepsType DEF CloseOwn
  <2>12. CASE ExitFailed(c)
    BY <2>12, CloseKeepsType DEF ExitFailed
  <2>13. CASE CompleteLoad(c)
    BY <2>13, TakeAllIdleKeepsType DEF CompleteLoad, Closers
  <2> QED
    BY <1>1, <2>1, <2>2, <2>3, <2>4, <2>5, <2>6, <2>7, <2>8, <2>9, <2>10, <2>11,
       <2>12, <2>13 DEF ClientNext
<1>2. ASSUME NEW x \in Closers, NEW s \in Sessions, CloseIdle(x, s) PROVE TypeOK'
  BY <1>2, CloseKeepsType DEF CloseIdle
<1>3. CASE StopLoading
  BY <1>3 DEF StopLoading
<1>4. CASE RunAtExit
  BY <1>4, TakeAllIdleKeepsType DEF RunAtExit, Closers
<1>5. CASE Exit
  BY <1>5 DEF Exit
<1>6. ASSUME NEW s \in Sessions, Reap(s) PROVE TypeOK'
  BY <1>6 DEF Reap
<1>7. CASE UNCHANGED vars
  BY <1>7 DEF vars
<1> QED
  BY <1>1, <1>2, <1>3, <1>4, <1>5, <1>6, <1>7 DEF Next

-----------------------------------------------------------------------------
(* What an action does to the lists.                                       *)

LEMMA ListsSame ==
  ASSUME pool' = pool
  PROVE  /\ \A k, s : InList(k, s)' <=> InList(k, s)
         /\ \A s : Pooled(s)' <=> Pooled(s)
         /\ PooledOnce' <=> PooledOnce
  BY DEF InList, Pooled, PooledOnce

LEMMA ListsPop ==
  ASSUME TypeOK, PooledOnce, NEW c \in Clients, TakePooled(c)
  PROVE  /\ conn'[c] \in Sessions
         /\ InList(Key[c], conn'[c])
         /\ \A k \in Keys : \A s : InList(k, s)' <=> InList(k, s) /\ s # conn'[c]
         /\ PooledOnce'
<1> DEFINE q == pool[Key[c]]
           n == Len(q)
<1>1. Key[c] \in Keys /\ q \in Seq(Sessions) /\ q # <<>>
  BY KeyAssumption DEF TypeOK, TakePooled
<1>2. /\ n \in Nat /\ n \in 1..n /\ q[n] \in Sessions
      /\ Len(SubSeq(q, 1, n - 1)) = n - 1
      /\ \A i \in 1..(n - 1) : SubSeq(q, 1, n - 1)[i] = q[i]
  BY <1>1, PopType, LenProperties
<1>3. conn'[c] = q[n]
  BY <1>1 DEF TakePooled, TypeOK
<1>4. /\ \A k \in Keys : k # Key[c] => pool'[k] = pool[k]
      /\ Len(pool'[Key[c]]) = n - 1
      /\ \A i \in 1..(n - 1) : pool'[Key[c]][i] = q[i]
  BY <1>1, <1>2 DEF TakePooled, TypeOK
<1>5. \A k \in Keys : Len(pool[k]) \in Nat
  BY LenProperties DEF TypeOK
<1> HIDE DEF q, n
<1>6. ASSUME NEW k \in Keys
      PROVE  /\ 1..Len(pool'[k]) \subseteq 1..Len(pool[k])
             /\ \A i \in 1..Len(pool'[k]) : pool'[k][i] = pool[k][i]
             /\ \A i \in 1..Len(pool[k]) : i \notin 1..Len(pool'[k]) => k = Key[c] /\ i = n
             /\ k = Key[c] => n \notin 1..Len(pool'[k])
  <2>1. CASE k # Key[c]
    BY <1>4, <2>1
  <2>2. CASE k = Key[c]
    <3>1. Len(pool'[k]) = n - 1 /\ Len(pool[k]) = n /\ \A i \in 1..(n - 1) : pool'[k][i] = pool[k][i]
      BY <1>4, <2>2 DEF q, n
    <3> QED
      BY <1>2, <2>2, <3>1
  <2> QED
    BY <2>1, <2>2
<1>7. PooledOnce'
  BY <1>6 DEF PooledOnce
<1>8. InList(Key[c], conn'[c])
  BY <1>2, <1>3 DEF InList, q, n
<1>9. ASSUME NEW k \in Keys, NEW s PROVE InList(k, s)' <=> InList(k, s) /\ s # conn'[c]
  <2>1. InList(k, s)' => InList(k, s)
    BY <1>6 DEF InList
  <2>2. InList(k, s)' => s # conn'[c]
    <3> SUFFICES ASSUME NEW i \in 1..Len(pool'[k]), pool'[k][i] = q[n] PROVE FALSE
      BY <1>3 DEF InList
    <3>1. i \in 1..Len(pool[k]) /\ pool[k][i] = pool[Key[c]][n] /\ n \in 1..Len(pool[Key[c]])
      BY <1>2, <1>6 DEF q, n
    <3>2. k = Key[c] /\ i = n
      BY <1>1, <3>1 DEF PooledOnce
    <3> QED
      BY <1>6, <3>2
  <2>3. InList(k, s) /\ s # conn'[c] => InList(k, s)'
    BY <1>3, <1>6 DEF InList, q
  <2> QED
    BY <2>1, <2>2, <2>3
<1> QED
  BY <1>2, <1>3, <1>7, <1>8, <1>9

LEMMA ListsPush ==
  ASSUME TypeOK, PooledOnce, NEW c \in Clients, HandBack(c),
         conn[c] \in Sessions, ~Pooled(conn[c])
  PROVE  /\ \A k \in Keys : \A s : InList(k, s)' <=> InList(k, s) \/ (k = Key[c] /\ s = conn[c])
         /\ PooledOnce'
<1> DEFINE q == pool[Key[c]]
           n == Len(q) + 1
<1>1. Key[c] \in Keys /\ q \in Seq(Sessions)
  BY KeyAssumption DEF TypeOK
<1>2. /\ Len(q) \in Nat
      /\ Len(Append(q, conn[c])) = n
      /\ Append(q, conn[c])[n] = conn[c]
      /\ \A i \in 1..Len(q) : Append(q, conn[c])[i] = q[i]
  BY <1>1, PushType, LenProperties
<1>3. pool'[Key[c]] = Append(q, conn[c]) /\ \A k \in Keys : k # Key[c] => pool'[k] = pool[k]
  BY <1>1 DEF HandBack, TypeOK
<1>4. \A k \in Keys : Len(pool[k]) \in Nat
  BY LenProperties DEF TypeOK
<1>5. ASSUME NEW k \in Keys
      PROVE  /\ 1..Len(pool[k]) \subseteq 1..Len(pool'[k])
             /\ \A i \in 1..Len(pool[k]) : pool'[k][i] = pool[k][i]
             /\ \A i \in 1..Len(pool'[k]) : i \notin 1..Len(pool[k]) => k = Key[c] /\ i = n
             /\ k = Key[c] => n \in 1..Len(pool'[k]) /\ pool'[k][n] = conn[c]
  BY <1>2, <1>3, <1>4
<1> HIDE DEF q, n
<1>6. \A k \in Keys : \A i \in 1..Len(pool[k]) : pool[k][i] # conn[c]
  BY DEF Pooled, InList
<1>7. PooledOnce'
  <2> SUFFICES ASSUME NEW k \in Keys, NEW l \in Keys, NEW i \in 1..Len(pool'[k]),
                      NEW j \in 1..Len(pool'[l]), pool'[k][i] = pool'[l][j]
               PROVE  k = l /\ i = j
    BY DEF PooledOnce
  <2>1. CASE i \in 1..Len(pool[k]) /\ j \in 1..Len(pool[l])
    BY <1>5, <2>1 DEF PooledOnce
  <2>2. CASE i \notin 1..Len(pool[k]) /\ j \notin 1..Len(pool[l])
    BY <1>5, <2>2
  <2>3. CASE i \in 1..Len(pool[k]) /\ j \notin 1..Len(pool[l])
    BY <1>5, <1>6, <2>3
  <2>4. CASE i \notin 1..Len(pool[k]) /\ j \in 1..Len(pool[l])
    BY <1>5, <1>6, <2>4
  <2> QED
    BY <2>1, <2>2, <2>3, <2>4
<1>8. ASSUME NEW k \in Keys, NEW s
      PROVE  InList(k, s)' <=> InList(k, s) \/ (k = Key[c] /\ s = conn[c])
  BY <1>5 DEF InList
<1> QED
  BY <1>7, <1>8

LEMMA ListsClear ==
  ASSUME TypeOK, NEW x \in Closers, TakeAllIdle(x)
  PROVE  /\ \A k \in Keys : \A s : ~InList(k, s)'
         /\ PooledOnce'
  BY DEF TakeAllIdle, TypeOK, InList, PooledOnce

-----------------------------------------------------------------------------
(* Each action keeps the invariant.  The type part is NextKeepsType; Kept  *)
(* is the rest.                                                            *)

Kept == /\ OneUserPerSession
        /\ HandlesFit
        /\ WaitingFit
        /\ FreshFit
        /\ FailedNotPassedOn
        /\ OwnSettings
        /\ ListSettings

USE NoSessionAssumption

LEMMA InitKept == Init => Kept
  BY DEF Init, Kept, OneUserPerSession, HeldByOne, PooledOnce, HeldNotPooled, ClosingAlone,
         HandlesFit, HoldsNothing, Working, WaitingFit, FreshFit, FailedNotPassedOn,
         OwnSettings, ListSettings, InList, Pooled

LEMMA TakePooledKeeps ==
  ASSUME IInv, NEW c \in Clients, TakePooled(c)
  PROVE  Kept'
<1>1. /\ conn'[c] \in Sessions /\ conn'[c] # NoSession
      /\ InList(Key[c], conn'[c])
      /\ \A k \in Keys : \A s : InList(k, s)' <=> InList(k, s) /\ s # conn'[c]
      /\ PooledOnce'
  BY ListsPop DEF IInv, OneUserPerSession
<1>2. \A s : Pooled(s)' <=> Pooled(s) /\ s # conn'[c]
  BY <1>1 DEF Pooled
<1>3. Pooled(conn'[c]) /\ Key[c] \in Keys
  BY <1>1, KeyAssumption DEF Pooled
<1>4. \A d \in Clients : d # c => conn'[d] = conn[d] /\ phase'[d] = phase[d]
  BY DEF IInv, TypeOK, TakePooled, Move
<1>5. phase'[c] = "in" /\ UNCHANGED <<server, connection, settings, closing, tainted>>
  BY DEF IInv, TypeOK, TakePooled, Move
<1>6. OneUserPerSession'
  BY <1>1, <1>2, <1>3, <1>4, <1>5
     DEF IInv, OneUserPerSession, HeldByOne, HeldNotPooled, ClosingAlone
<1>7. HandlesFit' /\ WaitingFit' /\ FreshFit'
  BY <1>1, <1>2, <1>3, <1>4, <1>5
     DEF IInv, HandlesFit, HoldsNothing, Working, WaitingFit, FreshFit
<1>8. FailedNotPassedOn' /\ OwnSettings' /\ ListSettings'
  BY <1>1, <1>2, <1>3, <1>4, <1>5
     DEF IInv, FailedNotPassedOn, OwnSettings, ListSettings
<1> QED
  BY <1>6, <1>7, <1>8 DEF Kept

LEMMA HandBackKeeps ==
  ASSUME IInv, NEW c \in Clients, HandBack(c)
  PROVE  Kept'
<1>1. /\ conn[c] \in Sessions /\ conn[c] # NoSession /\ connection[conn[c]] = "usable"
      /\ ~Pooled(conn[c]) /\ Key[c] \in Keys
  BY KeyAssumption
     DEF IInv, TypeOK, HandlesFit, HoldsNothing, Working, HandBack, Move,
         OneUserPerSession, HeldNotPooled
<1>2. /\ \A k \in Keys : \A s : InList(k, s)' <=> InList(k, s) \/ (k = Key[c] /\ s = conn[c])
      /\ PooledOnce'
  BY <1>1, ListsPush DEF IInv, OneUserPerSession
<1>3. \A s : Pooled(s)' <=> Pooled(s) \/ s = conn[c]
  BY <1>1, <1>2 DEF Pooled
<1>4. \A d \in Clients : d # c => conn'[d] = conn[d] /\ phase'[d] = phase[d]
  BY DEF IInv, TypeOK, HandBack, Move
<1>5. /\ phase[c] = "in" /\ phase'[c] = "out" /\ conn'[c] = NoSession
      /\ UNCHANGED <<server, connection, settings, closing, tainted>>
  BY DEF IInv, TypeOK, HandBack, Move
<1>6. ~Pooled(NoSession)
  BY LenProperties, ElementOfSeq DEF IInv, TypeOK, Pooled, InList
<1>7. OneUserPerSession'
  <2> USE DEF IInv, OneUserPerSession
  <2>1. HeldByOne'
    BY <1>4, <1>5 DEF HeldByOne
  <2>2. HeldNotPooled'
    BY <1>1, <1>3, <1>4, <1>5, <1>6 DEF HeldByOne, HeldNotPooled
  <2>3. ClosingAlone'
    BY <1>1, <1>3, <1>4, <1>5 DEF ClosingAlone, TypeOK
  <2> QED
    BY <1>2, <2>1, <2>2, <2>3
<1>8. HandlesFit' /\ WaitingFit' /\ FreshFit'
  BY <1>1, <1>2, <1>3, <1>4, <1>5
     DEF IInv, HandlesFit, HoldsNothing, Working, WaitingFit, FreshFit
<1>9. FailedNotPassedOn'
  BY <1>1, <1>3, <1>4, <1>5 DEF IInv, TypeOK, FailedNotPassedOn
<1>10. OwnSettings'
  BY <1>4, <1>5 DEF IInv, OwnSettings
<1>11. ListSettings'
  BY <1>1, <1>2, <1>5 DEF IInv, OwnSettings, ListSettings
<1> QED
  BY <1>10, <1>11, <1>7, <1>8, <1>9 DEF Kept

LEMMA ClearKeeps ==
  ASSUME IInv, NEW x \in Closers, TakeAllIdle(x),
         UNCHANGED <<server, connection, settings, conn, tainted>>,
         \A c \in Clients : \/ phase'[c] = phase[c]
                            \/ phase[c] = "in" /\ phase'[c] = "completing"
  PROVE  Kept'
<1>1. (\A k \in Keys : \A s : ~InList(k, s)') /\ PooledOnce'
  BY ListsClear DEF IInv
<1>2. \A s : ~Pooled(s)'
  BY <1>1 DEF Pooled
<1>3. /\ \A y \in Closers : y # x => closing'[y] = closing[y]
      /\ closing'[x] = {s \in Sessions : Pooled(s)}
  BY DEF IInv, TypeOK, TakeAllIdle
<1>4. OneUserPerSession'
  BY <1>1, <1>2, <1>3 DEF IInv, OneUserPerSession, HeldByOne, HeldNotPooled, ClosingAlone
<1>5. HandlesFit' /\ WaitingFit' /\ FreshFit'
  BY <1>1, <1>2, <1>3 DEF IInv, HandlesFit, HoldsNothing, Working, WaitingFit, FreshFit
<1>6. FailedNotPassedOn' /\ OwnSettings' /\ ListSettings'
  BY <1>1, <1>2 DEF IInv, FailedNotPassedOn, OwnSettings, ListSettings
<1> QED
  BY <1>4, <1>5, <1>6 DEF Kept

LEMMA ConnectReturnsKeeps ==
  ASSUME IInv, NEW c \in Clients, NEW s \in Sessions, ConnectReturns(c, s)
  PROVE  Kept'
<1>1. /\ \A k \in Keys : \A t : InList(k, t)' <=> InList(k, t)
      /\ \A t : Pooled(t)' <=> Pooled(t)
      /\ PooledOnce'
  BY ListsSame DEF IInv, OneUserPerSession, ConnectReturns
<1>2. /\ \A d \in Clients : conn[d] # s
      /\ ~Pooled(s)
      /\ \A x \in Closers : s \notin closing[x]
      /\ s \notin tainted
  BY DEF ConnectReturns, Move, IInv, HandlesFit, HoldsNothing, Working, WaitingFit, FreshFit,
         TypeOK, Phases
<1>3. /\ conn'[c] = s /\ \A d \in Clients : d # c => conn'[d] = conn[d] /\ phase'[d] = phase[d]
      /\ phase'[c] \in {"in", "resending"}
      /\ connection'[s] = "usable" /\ server'[s] = "open" /\ settings'[s] = Key[c]
      /\ \A t \in Sessions : t # s => /\ connection'[t] = connection[t]
                                      /\ server'[t] = server[t]
                                      /\ settings'[t] = settings[t]
      /\ UNCHANGED <<closing, tainted>>
  BY DEF ConnectReturns, Move, IInv, TypeOK
<1>4. OneUserPerSession'
  BY <1>1, <1>2, <1>3 DEF IInv, OneUserPerSession, HeldByOne, HeldNotPooled, ClosingAlone
<1>5. HandlesFit'
  BY <1>2, <1>3 DEF IInv, TypeOK, HandlesFit, HoldsNothing, Working, Phases
<1>6. WaitingFit' /\ FreshFit'
  BY <1>1, <1>2, <1>3 DEF IInv, WaitingFit, FreshFit
<1>7. FailedNotPassedOn'
  BY <1>1, <1>2, <1>3 DEF IInv, FailedNotPassedOn
<1>8. OwnSettings'
  BY <1>2, <1>3 DEF IInv, TypeOK, OwnSettings
<1>9. ListSettings'
  BY <1>1, <1>2, <1>3 DEF IInv, ListSettings, Pooled
<1> QED
  BY <1>4, <1>5, <1>6, <1>7, <1>8, <1>9 DEF Kept

\* Every action that only moves a client, marks its connection dead or closed,
\* or lets the server change a session nobody was given.
LEMMA QuietKeeps ==
  ASSUME IInv, TypeOK', NEW c \in Clients,
         UNCHANGED <<settings, conn, pool, closing>>,
         \A d \in Clients : d # c => phase'[d] = phase[d],
         \A s \in Sessions : s # conn[c] => connection'[s] = connection[s],
         \A s \in Sessions : server'[s] = "none" => server[s] = "none",
         conn[c] \in Sessions =>
           \/ connection'[conn[c]] = connection[conn[c]]
           \/ phase[c] \in {"in", "resending"} /\ connection'[conn[c]] \in {"dead", "closed"},
         tainted' = tainted \/ (phase'[c] = "failed" /\ tainted' = tainted \cup {conn[c]}),
         HoldsNothing(c)' <=> HoldsNothing(c),
         phase'[c] \in Working => /\ phase[c] \in Working
                                  /\ connection'[conn[c]] = "usable",
         phase'[c] = "reopening" => phase[c] = "in" /\ connection'[conn[c]] = "closed",
         phase[c] = "failed" => phase'[c] = "failed",
         phase'[c] = "failed" => phase[c] \in {"in", "resending", "reopening", "failed"}
  PROVE  Kept'
<1>1. /\ \A k \in Keys : \A t : InList(k, t)' <=> InList(k, t)
      /\ \A t : Pooled(t)' <=> Pooled(t)
      /\ PooledOnce'
  BY ListsSame DEF IInv, OneUserPerSession
<1>2. /\ ~Pooled(conn[c])
      /\ \A x \in Closers : conn[c] \notin closing[x]
      /\ \A d \in Clients : conn[d] = conn[c] /\ conn[c] # NoSession => d = c
  BY DEF IInv, OneUserPerSession, HeldByOne, HeldNotPooled, ClosingAlone
<1>3. OneUserPerSession'
  BY <1>1 DEF IInv, OneUserPerSession, HeldByOne, HeldNotPooled, ClosingAlone
<1>4. HandlesFit'
  BY <1>2 DEF IInv, TypeOK, HandlesFit, HoldsNothing, Working
<1>5. WaitingFit'
  BY <1>1, <1>2 DEF IInv, TypeOK, WaitingFit
<1>6. FreshFit'
  BY DEF IInv, TypeOK, FreshFit, HandlesFit, HoldsNothing, Working
<1>7. FailedNotPassedOn'
  BY <1>1, <1>2 DEF IInv, TypeOK, FailedNotPassedOn
<1>8. OwnSettings' /\ ListSettings'
  BY <1>1 DEF IInv, OwnSettings, ListSettings
<1> QED
  BY <1>3, <1>4, <1>5, <1>6, <1>7, <1>8 DEF Kept

\* A client gives up its connection and closes it.
LEMMA LeaveKeeps ==
  ASSUME IInv, TypeOK', NEW c \in Clients, conn[c] \in Sessions,
         conn' = [conn EXCEPT ![c] = NoSession],
         phase' = [phase EXCEPT ![c] = "out"],
         phase[c] \in {"in", "completing", "failed"},
         CloseConnection(conn[c]),
         UNCHANGED <<settings, pool, closing, tainted>>
  PROVE  Kept'
<1>1. /\ \A k \in Keys : \A t : InList(k, t)' <=> InList(k, t)
      /\ \A t : Pooled(t)' <=> Pooled(t)
      /\ PooledOnce'
  BY ListsSame DEF IInv, OneUserPerSession
<1>2. /\ ~Pooled(conn[c])
      /\ \A x \in Closers : conn[c] \notin closing[x]
      /\ \A d \in Clients : conn[d] = conn[c] => d = c
  BY DEF IInv, OneUserPerSession, HeldByOne, HeldNotPooled, ClosingAlone
<1>3. /\ conn'[c] = NoSession /\ phase'[c] = "out"
      /\ \A d \in Clients : d # c => conn'[d] = conn[d] /\ phase'[d] = phase[d]
      /\ connection'[conn[c]] = "closed" /\ connection[conn[c]] # "none"
      /\ \A s \in Sessions : s # conn[c] => connection'[s] = connection[s]
      /\ \A s \in Sessions : server'[s] = "none" => server[s] = "none"
  BY DEF IInv, TypeOK, CloseConnection, HandlesFit, Working
<1>4. ~Pooled(NoSession)
  BY LenProperties, ElementOfSeq DEF IInv, TypeOK, Pooled, InList
<1>5. OneUserPerSession'
  BY <1>1, <1>3, <1>4 DEF IInv, TypeOK, OneUserPerSession, HeldByOne, HeldNotPooled, ClosingAlone
<1>6. HandlesFit'
  BY <1>2, <1>3 DEF IInv, TypeOK, HandlesFit, HoldsNothing, Working
<1>7. WaitingFit' /\ FreshFit'
  BY <1>1, <1>2, <1>3 DEF IInv, TypeOK, WaitingFit, FreshFit
<1>8. FailedNotPassedOn'
  BY <1>1, <1>3 DEF IInv, TypeOK, FailedNotPassedOn
<1>9. OwnSettings' /\ ListSettings'
  BY <1>1, <1>3 DEF IInv, OwnSettings, ListSettings
<1> QED
  BY <1>5, <1>6, <1>7, <1>8, <1>9 DEF Kept

LEMMA CloseIdleKeeps ==
  ASSUME IInv, TypeOK', NEW x \in Closers, NEW s \in Sessions, CloseIdle(x, s)
  PROVE  Kept'
<1>1. /\ \A k \in Keys : \A t : InList(k, t)' <=> InList(k, t)
      /\ \A t : Pooled(t)' <=> Pooled(t)
      /\ PooledOnce'
  BY ListsSame DEF IInv, OneUserPerSession, CloseIdle
<1>2. /\ ~Pooled(s)
      /\ \A d \in Clients : conn[d] # s
      /\ \A y \in Closers : s \in closing[y] => y = x
  BY DEF CloseIdle, IInv, OneUserPerSession, ClosingAlone
<1>3. /\ connection'[s] = "closed"
      /\ \A t \in Sessions : t # s => connection'[t] = connection[t]
      /\ \A t \in Sessions : server'[t] = "none" => server[t] = "none"
      /\ closing'[x] = closing[x] \ {s} /\ \A y \in Closers : y # x => closing'[y] = closing[y]
      /\ connection[s] = "usable"
      /\ UNCHANGED <<settings, conn, phase, tainted>>
  BY DEF IInv, TypeOK, CloseIdle, CloseConnection, WaitingFit
<1>4. OneUserPerSession'
  <2>1. HeldByOne' /\ HeldNotPooled'
    BY <1>1, <1>3 DEF IInv, OneUserPerSession, HeldByOne, HeldNotPooled
  <2>2. ClosingAlone'
    BY <1>1, <1>3 DEF IInv, OneUserPerSession, ClosingAlone
  <2> QED
    BY <1>1, <2>1, <2>2 DEF OneUserPerSession
<1>5. HandlesFit'
  BY <1>2, <1>3 DEF IInv, TypeOK, HandlesFit, HoldsNothing, Working
<1>6. WaitingFit'
  BY <1>1, <1>2, <1>3 DEF IInv, TypeOK, WaitingFit
<1>8. FreshFit'
  BY <1>3 DEF IInv, TypeOK, FreshFit
<1>7. FailedNotPassedOn' /\ OwnSettings' /\ ListSettings'
  BY <1>1, <1>3 DEF IInv, FailedNotPassedOn, OwnSettings, ListSettings
<1> QED
  BY <1>4, <1>5, <1>6, <1>7, <1>8 DEF Kept

LEMMA NextKeeps ==
  ASSUME IInv, [Next]_vars
  PROVE  IInv'
<1>0. TypeOK'
  BY NextKeepsType DEF IInv
<1> SUFFICES Kept'
  BY <1>0 DEF IInv, Kept
<1>1. ASSUME NEW c \in Clients, ClientNext(c) PROVE Kept'
  <2> /\ conn[c] \in Sessions <=> ~HoldsNothing(c)
      /\ conn[c] \in Sessions \cup {NoSession}
      /\ phase[c] \in Phases
    BY DEF IInv, TypeOK, HandlesFit
  <2> USE DEF HoldsNothing, Working, Move
  <2>1. CASE TakePooled(c)
    BY <2>1, TakePooledKeeps
  <2>2. CASE StartConnect(c)
    BY <1>0, <2>2, QuietKeeps DEF StartConnect, IInv, TypeOK
  <2>3. CASE ConnectRaises(c)
    <3>1. \A s \in Sessions : server'[s] = "none" => server[s] = "none"
      BY <2>3 DEF ConnectRaises, IInv, TypeOK
    <3> QED
      BY <1>0, <2>3, <3>1, QuietKeeps DEF ConnectRaises, IInv, TypeOK
  <2>4. CASE \E s \in Sessions : ConnectReturns(c, s)
    BY <2>4, ConnectReturnsKeeps
  <2>5. CASE Prepare(c)
    BY <1>0, <2>5, QuietKeeps DEF Prepare, IInv, TypeOK, HandlesFit
  <2>6. CASE LostReconnect(c)
    BY <1>0, <2>6, QuietKeeps DEF LostReconnect, IInv, TypeOK
  <2>7. CASE LostRaises(c)
    BY <1>0, <2>7, QuietKeeps DEF LostRaises, IInv, TypeOK
  <2>8. CASE Resent(c)
    BY <1>0, <2>8, QuietKeeps DEF Resent, IInv, TypeOK, HandlesFit
  <2>9. CASE CallRaises(c)
    BY <1>0, <2>9, QuietKeeps DEF CallRaises, IInv, TypeOK
  <2>10. CASE HandBack(c)
    BY <2>10, HandBackKeeps
  <2>11. CASE CloseOwn(c)
    BY <1>0, <2>11, LeaveKeeps DEF CloseOwn
  <2>12. CASE ExitFailed(c)
    BY <1>0, <2>12, LeaveKeeps DEF ExitFailed
  <2>13. CASE CompleteLoad(c)
    BY <2>13, ClearKeeps DEF CompleteLoad, Closers, IInv, TypeOK
  <2> QED
    BY <1>1, <2>1, <2>2, <2>3, <2>4, <2>5, <2>6, <2>7, <2>8, <2>9, <2>10, <2>11,
       <2>12, <2>13 DEF ClientNext
<1>2. ASSUME NEW x \in Closers, NEW s \in Sessions, CloseIdle(x, s) PROVE Kept'
  BY <1>0, <1>2, CloseIdleKeeps
<1>3. CASE RunAtExit
  BY <1>3, ClearKeeps DEF RunAtExit, Closers
<1>4. ASSUME UNCHANGED <<connection, settings, conn, phase, pool, closing, tainted>>,
             \A s \in Sessions : server'[s] = "none" => server[s] = "none"
      PROVE  Kept'
  <2>1. /\ \A k \in Keys : \A t : InList(k, t)' <=> InList(k, t)
        /\ \A t : Pooled(t)' <=> Pooled(t)
        /\ PooledOnce'
    BY <1>4, ListsSame DEF IInv, OneUserPerSession
  <2> QED
    BY <1>4, <2>1 DEF IInv, Kept, OneUserPerSession, HeldByOne, HeldNotPooled, ClosingAlone,
         HandlesFit, HoldsNothing, WaitingFit, FreshFit, FailedNotPassedOn, OwnSettings,
         ListSettings
<1>5. CASE StopLoading \/ Exit \/ UNCHANGED vars
  BY <1>4, <1>5 DEF StopLoading, Exit, vars
<1>6. ASSUME NEW s \in Sessions, Reap(s) PROVE Kept'
  BY <1>4, <1>6 DEF Reap, IInv, TypeOK
<1> QED
  BY <1>1, <1>2, <1>3, <1>5, <1>6 DEF Next

-----------------------------------------------------------------------------
LEMMA SpecKeeps == Spec => []IInv
<1>1. Init => IInv
  BY InitType, InitKept DEF IInv, Kept
<1>2. IInv /\ [Next]_vars => IInv'
  BY NextKeeps
<1> QED
  BY <1>1, <1>2, PTL DEF Spec

\* The state has the shape the code gives it: _conn, the flags and the pool
\* lists of sql_client.py hold what their annotations say.
THEOREM TypeCorrect == Spec => []TypeOK
<1>1. IInv => TypeOK
  BY DEF IInv
<1> QED
  BY <1>1, SpecKeeps, PTL

\* However many job clients open, hand back, replace and close sessions, and
\* whenever the server drops one, no session has two users: sql_client.py
\* 226-268 and close_idle_sessions 115-124.
THEOREM ExclusiveUse == Spec => []OneUserPerSession
<1>1. IInv => OneUserPerSession
  BY DEF IInv
<1> QED
  BY <1>1, SpecKeeps, PTL

\* A client in its with block, and the next one to pop the pool, have a
\* Connection that is neither closed nor marked dead.
THEOREM HandlesUsable == Spec => []NoDeadHandle
<1>1. IInv => NoDeadHandle
  BY NoSessionAssumption DEF IInv, NoDeadHandle, HandlesFit, HoldsNothing, Working, WaitingFit
<1> QED
  BY <1>1, SpecKeeps, PTL

\* A session on which work failed is never handed to the package's next job, and a
\* pooled session only ever serves clients with the settings it was opened with.
THEOREM SessionsFit == Spec => []SessionFits
<1>1. IInv => SessionFits
  BY DEF IInv, SessionFits
<1> QED
  BY <1>1, SpecKeeps, PTL

-----------------------------------------------------------------------------
(* Nothing is left at exit.  Every Connection that is not closed is where  *)
(* somebody will close it, and each of those places is empty in the end.   *)

InPlace(s) == \/ \E c \in Clients : conn[c] = s
              \/ Pooled(s)
              \/ \E x \in Closers : s \in closing[x]

AllInPlace == \A s \in Sessions : connection[s] \in {"usable", "dead"} => InPlace(s)

AllOut == (\A c \in Clients : phase[c] = "out") /\ (\A k \in Keys : \A s : ~InList(k, s))

ExitFit ==
  /\ \A c \in Clients : phase[c] # "completing" => closing[c] = {}
  /\ process # "atexit" => closing[AtExit] = {}
  /\ process \in {"atexit", "exited"} => AllOut

EInv == IInv /\ AllInPlace /\ ExitFit

LEMMA ClientKeepsPlace ==
  ASSUME EInv, IInv', NEW c \in Clients, ClientNext(c)
  PROVE  AllInPlace'
<1> USE DEF EInv, IInv, TypeOK, Move, AllInPlace, InPlace
<1> SUFFICES ASSUME NEW s \in Sessions, connection'[s] \in {"usable", "dead"} PROVE InPlace(s)'
  OBVIOUS
<1>0. ASSUME pool' = pool PROVE Pooled(s)' <=> Pooled(s)
  BY <1>0, ListsSame
<1>1. CASE TakePooled(c)
  <2>1. Pooled(s) => Pooled(s)' \/ s = conn'[c]
    BY <1>1, ListsPop DEF OneUserPerSession, Pooled
  <2>2. conn[c] # s /\ \A d \in Clients : d # c => conn'[d] = conn[d]
    BY <1>1 DEF TakePooled, HandlesFit, HoldsNothing
  <2>3. closing' = closing /\ connection' = connection
    BY <1>1 DEF TakePooled
  <2> QED
    BY <2>1, <2>2, <2>3
<1>2. CASE HandBack(c)
  <2>1. conn[c] \in Sessions /\ ~Pooled(conn[c]) /\ Key[c] \in Keys
    BY <1>2, KeyAssumption DEF HandBack, HandlesFit, HoldsNothing, OneUserPerSession, HeldNotPooled
  <2>2. Pooled(s) \/ s = conn[c] => Pooled(s)'
    BY <1>2, <2>1, ListsPush DEF OneUserPerSession, Pooled
  <2> QED
    BY <1>2, <2>2 DEF HandBack
<1>3. CASE CloseOwn(c) \/ ExitFailed(c)
  <2>1. s # conn[c] /\ connection'[s] = connection[s] /\ pool' = pool /\ closing' = closing
    BY <1>3 DEF CloseOwn, ExitFailed, CloseConnection
  <2>2. \A d \in Clients : conn[d] = s => conn'[d] = s
    BY <1>3, <2>1 DEF CloseOwn, ExitFailed
  <2> QED
    BY <1>0, <2>1, <2>2
<1>4. CASE CompleteLoad(c)
  BY <1>4 DEF CompleteLoad, TakeAllIdle, Closers, ExitFit
<1>5. CASE \E t \in Sessions : ConnectReturns(c, t)
  <2>1. PICK t \in Sessions : ConnectReturns(c, t)
    BY <1>5
  <2>2. connection[conn[c]] = "closed" \/ conn[c] \notin Sessions
    BY <2>1 DEF ConnectReturns, HandlesFit, HoldsNothing
  <2> QED
    BY <1>0, <2>1, <2>2 DEF ConnectReturns
<1>6. CASE LostReconnect(c) \/ LostRaises(c)
  BY <1>0, <1>6 DEF LostReconnect, LostRaises, HandlesFit, HoldsNothing, Working
<1>7. CASE StartConnect(c) \/ ConnectRaises(c) \/ Prepare(c) \/ Resent(c) \/ CallRaises(c)
  BY <1>0, <1>7 DEF StartConnect, ConnectRaises, Prepare, Resent, CallRaises
<1> QED
  BY <1>1, <1>2, <1>3, <1>4, <1>5, <1>6, <1>7 DEF ClientNext

LEMMA OthersKeepPlace ==
  ASSUME EInv, IInv', [Next]_vars, ~\E c \in Clients : ClientNext(c)
  PROVE  AllInPlace'
<1> USE DEF EInv, IInv, TypeOK, AllInPlace, InPlace
<1> SUFFICES ASSUME NEW s \in Sessions, connection'[s] \in {"usable", "dead"} PROVE InPlace(s)'
  OBVIOUS
<1>0. ASSUME pool' = pool PROVE Pooled(s)' <=> Pooled(s)
  BY <1>0, ListsSame
<1>1. CASE \E x \in Closers, t \in Sessions : CloseIdle(x, t)
  <2>1. PICK x \in Closers, t \in Sessions : CloseIdle(x, t)
    BY <1>1
  <2>2. s # t /\ connection'[s] = connection[s]
    BY <2>1 DEF CloseIdle, CloseConnection
  <2> QED
    BY <1>0, <2>1, <2>2 DEF CloseIdle
<1>2. CASE RunAtExit
  BY <1>2 DEF RunAtExit, TakeAllIdle, Closers, ExitFit
<1>3. CASE StopLoading \/ Exit \/ (\E t \in Sessions : Reap(t)) \/ UNCHANGED vars
  BY <1>0, <1>3 DEF StopLoading, Exit, Reap, vars
<1> QED
  BY <1>1, <1>2, <1>3 DEF Next

LEMMA NextKeepsExit ==
  ASSUME EInv, IInv', [Next]_vars
  PROVE  ExitFit'
<1> USE AtExitAssumption DEF EInv, IInv, TypeOK, Move, ExitFit, Closers, Phases
<1>0. ASSUME pool' = pool PROVE \A k, s : InList(k, s)' <=> InList(k, s)
  BY <1>0, ListsSame
<1>1. ASSUME NEW c \in Clients, ClientNext(c) PROVE ExitFit'
  <2>1. process' = process /\ process \in {"loading", "stopping"}
    BY <1>1 DEF AllOut, ClientNext, TakePooled, StartConnect, ConnectReturns, ConnectRaises,
       Prepare, LostReconnect, LostRaises, Resent, CallRaises, HandBack, CloseOwn, ExitFailed,
       CompleteLoad
  <2>2. \A d \in Clients : d # c => phase'[d] = phase[d] /\ closing'[d] = closing[d]
    BY <1>1 DEF ClientNext, TakePooled, StartConnect, ConnectReturns, ConnectRaises,
       Prepare, LostReconnect, LostRaises, Resent, CallRaises, HandBack, CloseOwn, ExitFailed,
       CompleteLoad, TakeAllIdle
  <2>3. closing'[AtExit] = closing[AtExit]
    BY <1>1 DEF ClientNext, TakePooled, StartConnect, ConnectReturns, ConnectRaises,
       Prepare, LostReconnect, LostRaises, Resent, CallRaises, HandBack, CloseOwn, ExitFailed,
       CompleteLoad, TakeAllIdle
  <2>4. phase'[c] # "completing" => closing'[c] = {}
    BY <1>1 DEF ClientNext, TakePooled, StartConnect, ConnectReturns, ConnectRaises,
       Prepare, LostReconnect, LostRaises, Resent, CallRaises, HandBack, CloseOwn, ExitFailed,
       CompleteLoad
  <2> QED
    BY <2>1, <2>2, <2>3, <2>4
<1>2. ASSUME NEW x \in Closers, NEW s \in Sessions, CloseIdle(x, s) PROVE ExitFit'
  BY <1>0, <1>2 DEF CloseIdle, AllOut
<1>3. CASE RunAtExit
  <2>1. \A k \in Keys : \A s : ~InList(k, s)'
    BY <1>3, ListsClear DEF RunAtExit
  <2> QED
    BY <1>3, <2>1 DEF RunAtExit, TakeAllIdle, AllOut
<1>4. CASE StopLoading \/ Exit \/ UNCHANGED vars
  BY <1>0, <1>4 DEF StopLoading, Exit, vars, AllOut
<1>5. ASSUME NEW s \in Sessions, Reap(s) PROVE ExitFit'
  BY <1>0, <1>5 DEF Reap, AllOut
<1> QED
  BY <1>1, <1>2, <1>3, <1>4, <1>5 DEF Next

LEMMA SpecKeepsExit == Spec => []EInv
<1>1. Init => EInv
  <2>1. Init => IInv
    BY InitType, InitKept DEF IInv, Kept
  <2>2. Init => AllInPlace /\ ExitFit
    BY AtExitAssumption DEF Init, AllInPlace, ExitFit, Closers
  <2> QED
    BY <2>1, <2>2 DEF EInv
<1>2. EInv /\ [Next]_vars => EInv'
  <2> SUFFICES ASSUME EInv, [Next]_vars PROVE EInv'
    OBVIOUS
  <2>1. IInv'
    BY NextKeeps DEF EInv
  <2> QED
    BY <2>1, ClientKeepsPlace, OthersKeepPlace, NextKeepsExit DEF EInv
<1> QED
  BY <1>1, <1>2, PTL DEF Spec

\* When the process has run its exit handlers, every Connection that connect()
\* returned to it was closed, whatever its jobs did and however they failed.
THEOREM ExitLeavesNothing == Spec => []NothingLeftAtExit
<1>1. EInv => NothingLeftAtExit
  <2> SUFFICES ASSUME EInv, process = "exited", NEW s \in Sessions,
                      connection[s] \notin {"none", "closed"}
               PROVE  FALSE
    BY DEF NothingLeftAtExit
  <2>1. InPlace(s) /\ AllOut
    BY DEF EInv, IInv, TypeOK, AllInPlace, ExitFit
  <2>2. ~\E c \in Clients : conn[c] = s
    BY <2>1, NoSessionAssumption DEF EInv, IInv, HandlesFit, HoldsNothing, AllOut
  <2>3. ~Pooled(s)
    BY <2>1 DEF AllOut, Pooled
  <2>4. ~\E x \in Closers : s \in closing[x]
    BY <2>1 DEF EInv, ExitFit, AllOut, Closers
  <2> QED
    BY <2>1, <2>2, <2>3, <2>4 DEF InPlace
<1> QED
  BY <1>1, SpecKeepsExit, PTL

-----------------------------------------------------------------------------
(* The pool implements the lease.  Standing and Leasing are the refinement   *)
(* mapping, session by session and client by client; a step of the pool is  *)
(* one of the lease, or stands still, by what it does to them.              *)

Standing(s) ==
  IF connection[s] = "none" THEN "unopened"
  ELSE IF connection[s] = "closed" \/ Closing(s) THEN "retired"
  ELSE IF Pooled(s) THEN "idle"
  ELSE "leased"

Leasing(c) ==
  IF conn[c] = NoSession \/ connection[conn[c]] = "closed" THEN NoSession ELSE conn[c]

LEMMA Maps ==
  /\ leaseMap = [s \in Sessions |-> Standing(s)]
  /\ leasedMap = [c \in Clients |-> Leasing(c)]
  /\ leaseMap' = [s \in Sessions |-> Standing(s)']
  /\ leasedMap' = [c \in Clients |-> Leasing(c)']
  BY DEF leaseMap, leasedMap, Standing, Leasing

LEMMA StandsStill ==
  ASSUME \A s \in Sessions : Standing(s)' = Standing(s),
         \A c \in Clients : Leasing(c)' = Leasing(c)
  PROVE  UNCHANGED Lease!leaseVars
<1>1. leaseMap' = leaseMap /\ leasedMap' = leasedMap
  BY Maps
<1> QED
  BY <1>1 DEF Lease!leaseVars

LEMMA Takes ==
  ASSUME NEW c \in Clients, NEW s \in Sessions,
         Leasing(c) = NoSession, Standing(s) \in {"unopened", "idle"},
         \A t \in Sessions : Standing(t)' = IF t = s THEN "leased" ELSE Standing(t),
         \A d \in Clients : Leasing(d)' = IF d = c THEN s ELSE Leasing(d)
  PROVE  Lease!LeaseNext
<1>1. /\ leaseMap' = [leaseMap EXCEPT ![s] = "leased"]
      /\ leasedMap' = [leasedMap EXCEPT ![c] = s]
      /\ leasedMap[c] = NoSession /\ leaseMap[s] \in {"unopened", "idle"}
  BY Maps
<1> QED
  BY <1>1 DEF Lease!LeaseNext, Lease!Lease

LEMMA GivesUp ==
  ASSUME NEW c \in Clients, NEW to \in {"idle", "retired"},
         Leasing(c) \in Sessions,
         \A t \in Sessions : Standing(t)' = IF t = Leasing(c) THEN to ELSE Standing(t),
         \A d \in Clients : Leasing(d)' = IF d = c THEN NoSession ELSE Leasing(d)
  PROVE  Lease!LeaseNext
<1>1. /\ leasedMap[c] = Leasing(c) /\ leasedMap[c] # NoSession
      /\ leaseMap' = [leaseMap EXCEPT ![leasedMap[c]] = to]
      /\ leasedMap' = [leasedMap EXCEPT ![c] = NoSession]
  BY Maps
<1> QED
  BY <1>1 DEF Lease!LeaseNext, Lease!GiveUp

\* The connections and the lists decide where a session stands.
LEMMA StandingSame ==
  ASSUME pool' = pool, closing' = closing, NEW s, connection'[s] = connection[s]
  PROVE  Standing(s)' = Standing(s)
<1>1. Pooled(s)' <=> Pooled(s)
  BY ListsSame
<1> QED
  BY <1>1 DEF Standing, Closing

LEMMA PlaceSame ==
  ASSUME UNCHANGED <<connection, conn, pool, closing>>
  PROVE  UNCHANGED Lease!leaseVars
<1>1. \A s \in Sessions : Standing(s)' = Standing(s)
  BY StandingSame
<1>2. \A c \in Clients : Leasing(c)' = Leasing(c)
  BY DEF Leasing
<1> QED
  BY <1>1, <1>2, StandsStill

\* What a client holds, nobody else does, and it is in no list.
LEMMA HeldAlone ==
  ASSUME IInv, NEW c \in Clients, conn[c] # NoSession
  PROVE  /\ conn[c] \in Sessions /\ ~Pooled(conn[c]) /\ ~Closing(conn[c])
         /\ \A d \in Clients : d # c => conn[d] # conn[c]
  BY DEF IInv, TypeOK, OneUserPerSession, HeldByOne, HeldNotPooled, ClosingAlone, Closing

LEMMA TakePooledLeases ==
  ASSUME IInv, NEW c \in Clients, TakePooled(c)
  PROVE  Lease!LeaseNext
<1>1. /\ conn'[c] \in Sessions /\ InList(Key[c], conn'[c])
      /\ \A k \in Keys : \A s : InList(k, s)' <=> InList(k, s) /\ s # conn'[c]
  BY ListsPop DEF IInv, OneUserPerSession
<1>2. Key[c] \in Keys /\ Pooled(conn'[c])
  BY <1>1, KeyAssumption DEF Pooled
<1>3. conn[c] = NoSession /\ UNCHANGED <<connection, closing>>
      /\ \A d \in Clients : d # c => conn'[d] = conn[d]
  BY DEF TakePooled, Move, IInv, HandlesFit, HoldsNothing, TypeOK
<1>4. connection[conn'[c]] = "usable" /\ ~Closing(conn'[c])
  BY <1>1, <1>2 DEF IInv, WaitingFit, OneUserPerSession, ClosingAlone, Closing
<1>5. \A s : Pooled(s)' <=> Pooled(s) /\ s # conn'[c]
  BY <1>1 DEF Pooled
<1>6. \A s : Closing(s)' <=> Closing(s)
  BY <1>3 DEF Closing
<1>7. Standing(conn'[c]) = "idle" /\ Leasing(c) = NoSession
  BY <1>2, <1>3, <1>4 DEF Standing, Leasing
<1>8. \A t \in Sessions : Standing(t)' = IF t = conn'[c] THEN "leased" ELSE Standing(t)
  BY <1>3, <1>4, <1>5, <1>6 DEF Standing
<1>9. \A d \in Clients : Leasing(d)' = IF d = c THEN conn'[c] ELSE Leasing(d)
  BY <1>1, <1>3, <1>4 DEF Leasing
<1> QED
  BY <1>1, <1>7, <1>8, <1>9, Takes

LEMMA ConnectLeases ==
  ASSUME IInv, NEW c \in Clients, NEW s \in Sessions, ConnectReturns(c, s)
  PROVE  Lease!LeaseNext
<1>1. /\ connection' = [connection EXCEPT ![s] = "usable"]
      /\ conn' = [conn EXCEPT ![c] = s] /\ UNCHANGED <<pool, closing>>
      /\ connection[s] = "none"
  BY DEF ConnectReturns, IInv, FreshFit
<1>2. ~Pooled(s) /\ ~Closing(s)
  BY <1>1 DEF IInv, WaitingFit, Closing
<1>3. conn[c] = NoSession \/ connection[conn[c]] = "closed"
  BY DEF ConnectReturns, Move, IInv, HandlesFit, HoldsNothing
<1>4. \A d \in Clients : conn[d] # s
  BY <1>1 DEF IInv, HandlesFit, HoldsNothing, Working, TypeOK, Phases
<1>5. Standing(s) = "unopened" /\ Leasing(c) = NoSession
  BY <1>1, <1>3 DEF Standing, Leasing
<1>6. ASSUME NEW t \in Sessions PROVE Standing(t)' = IF t = s THEN "leased" ELSE Standing(t)
  <2>1. CASE t = s
    <3>1. ~Pooled(s)' /\ ~Closing(s)' /\ connection'[s] = "usable"
      BY <1>1, <1>2, ListsSame DEF Closing, IInv, TypeOK
    <3> QED
      BY <2>1, <3>1 DEF Standing
  <2>2. CASE t # s
    BY <1>1, <2>2, StandingSame DEF IInv, TypeOK
  <2> QED
    BY <2>1, <2>2
<1>7. \A d \in Clients : Leasing(d)' = IF d = c THEN s ELSE Leasing(d)
  BY <1>1, <1>4 DEF Leasing, IInv, TypeOK
<1> QED
  BY <1>5, <1>6, <1>7, Takes

\* A client whose connection is closed, whoever keeps the handle.
LEMMA CloseRetires ==
  ASSUME IInv, NEW c \in Clients, conn[c] # NoSession, connection[conn[c]] \in {"usable", "dead"},
         connection' = [connection EXCEPT ![conn[c]] = "closed"],
         conn' = conn \/ conn' = [conn EXCEPT ![c] = NoSession],
         UNCHANGED <<pool, closing>>
  PROVE  Lease!LeaseNext
<1>1. /\ conn[c] \in Sessions
      /\ \A d \in Clients : d # c => conn[d] # conn[c]
  BY HeldAlone
<1>2. Leasing(c) = conn[c]
  BY <1>1 DEF Leasing
<1>3. ASSUME NEW t \in Sessions PROVE Standing(t)' = IF t = conn[c] THEN "retired" ELSE Standing(t)
  <2>1. CASE t = conn[c]
    BY <1>1, <2>1 DEF Standing, IInv, TypeOK
  <2>2. CASE t # conn[c]
    BY <2>2, StandingSame DEF IInv, TypeOK
  <2> QED
    BY <2>1, <2>2
<1>4. \A d \in Clients : Leasing(d)' = IF d = c THEN NoSession ELSE Leasing(d)
  BY <1>1 DEF Leasing, IInv, TypeOK
<1> QED
  BY <1>1, <1>2, <1>3, <1>4, GivesUp

LEMMA HandBackIdles ==
  ASSUME IInv, NEW c \in Clients, HandBack(c)
  PROVE  Lease!LeaseNext
<1>1. conn[c] # NoSession /\ connection[conn[c]] = "usable"
  BY DEF HandBack, Move, IInv, HandlesFit, HoldsNothing, Working
<1>2. /\ conn[c] \in Sessions /\ ~Pooled(conn[c]) /\ ~Closing(conn[c])
      /\ \A d \in Clients : d # c => conn[d] # conn[c]
  BY <1>1, HeldAlone
<1>3. \A k \in Keys : \A s : InList(k, s)' <=> InList(k, s) \/ (k = Key[c] /\ s = conn[c])
  BY <1>2, ListsPush DEF IInv, OneUserPerSession
<1>4. \A s : Pooled(s)' <=> Pooled(s) \/ s = conn[c]
  BY <1>3, KeyAssumption DEF Pooled
<1>5. /\ UNCHANGED <<connection, closing>> /\ conn' = [conn EXCEPT ![c] = NoSession]
  BY DEF HandBack
<1>6. Leasing(c) = conn[c]
  BY <1>1 DEF Leasing
<1>7. \A t \in Sessions : Standing(t)' = IF t = conn[c] THEN "idle" ELSE Standing(t)
  BY <1>1, <1>2, <1>4, <1>5 DEF Standing, Closing
<1>8. \A d \in Clients : Leasing(d)' = IF d = c THEN NoSession ELSE Leasing(d)
  BY <1>5 DEF Leasing, IInv, TypeOK
<1> QED
  BY <1>2, <1>6, <1>7, <1>8, GivesUp

LEMMA ExitFailedRetires ==
  ASSUME IInv, NEW c \in Clients, ExitFailed(c) \/ CloseOwn(c)
  PROVE  [Lease!LeaseNext]_Lease!leaseVars
<1>1. /\ conn[c] # NoSession /\ connection[conn[c]] # "none"
      /\ connection' = [connection EXCEPT ![conn[c]] = "closed"]
      /\ conn' = [conn EXCEPT ![c] = NoSession] /\ UNCHANGED <<pool, closing>>
  BY DEF ExitFailed, CloseOwn, CloseConnection, Move, IInv, HandlesFit, HoldsNothing, Working
<1>2. CASE connection[conn[c]] = "closed"
  <2>1. conn[c] \in Sessions /\ connection' = connection
    BY <1>1, <1>2, HeldAlone DEF IInv, TypeOK
  <2>2. \A s \in Sessions : Standing(s)' = Standing(s)
    BY <1>1, <2>1, StandingSame
  <2>3. \A d \in Clients : Leasing(d)' = Leasing(d)
    BY <1>1, <1>2, <2>1 DEF Leasing, IInv, TypeOK
  <2> QED
    BY <2>2, <2>3, StandsStill
<1>3. CASE connection[conn[c]] # "closed"
  <2>1. connection[conn[c]] \in {"usable", "dead"}
    BY <1>1, <1>3, HeldAlone DEF IInv, TypeOK
  <2> QED
    BY <1>1, <2>1, CloseRetires
<1> QED
  BY <1>2, <1>3

LEMMA ReconnectRetires ==
  ASSUME IInv, NEW c \in Clients, LostReconnect(c)
  PROVE  Lease!LeaseNext
<1>1. /\ conn[c] # NoSession /\ connection[conn[c]] = "usable"
      /\ connection' = [connection EXCEPT ![conn[c]] = "closed"]
      /\ UNCHANGED <<conn, pool, closing>>
  BY DEF LostReconnect, Move, IInv, HandlesFit, HoldsNothing, Working
<1> QED
  BY <1>1, CloseRetires

LEMMA LostKeepsLease ==
  ASSUME IInv, NEW c \in Clients, LostRaises(c)
  PROVE  UNCHANGED Lease!leaseVars
<1>1. /\ conn[c] # NoSession /\ connection[conn[c]] = "usable"
      /\ connection' = [connection EXCEPT ![conn[c]] = "dead"]
      /\ UNCHANGED <<conn, pool, closing>>
  BY DEF LostRaises, Move, IInv, HandlesFit, HoldsNothing, Working
<1>2. /\ conn[c] \in Sessions /\ ~Pooled(conn[c]) /\ ~Closing(conn[c])
  BY <1>1, HeldAlone
<1>3. ASSUME NEW t \in Sessions PROVE Standing(t)' = Standing(t)
  <2>1. CASE t = conn[c]
    <3>1. ~Pooled(t)' /\ ~Closing(t)' /\ connection'[t] = "dead"
      BY <1>1, <1>2, <2>1, ListsSame DEF Closing, IInv, TypeOK
    <3> QED
      BY <1>1, <1>2, <2>1, <3>1 DEF Standing
  <2>2. CASE t # conn[c]
    BY <1>1, <2>2, StandingSame DEF IInv, TypeOK
  <2> QED
    BY <2>1, <2>2
<1>4. \A d \in Clients : Leasing(d)' = Leasing(d)
  BY <1>1, <1>2 DEF Leasing, IInv, TypeOK
<1> QED
  BY <1>3, <1>4, StandsStill

\* A thread that takes the idle sessions was closing none.
LEMMA TakeAllRetires ==
  ASSUME IInv, NEW x \in Closers, closing[x] = {}, TakeAllIdle(x), UNCHANGED <<connection, conn>>
  PROVE  Lease!LeaseNext
<1>1. \A s : ~Pooled(s)'
  BY ListsClear DEF IInv, Pooled
<1>2. /\ closing'[x] = {s \in Sessions : Pooled(s)}
      /\ \A y \in Closers : y # x => closing'[y] = closing[y]
  BY DEF TakeAllIdle, IInv, TypeOK
<1>3. \A s \in Sessions : Closing(s)' <=> Closing(s) \/ Pooled(s)
  BY <1>2 DEF Closing
<1>4. \A s \in Sessions : Pooled(s) => connection[s] = "usable"
  BY DEF IInv, WaitingFit
<1>5. \A s \in Sessions : Standing(s)' = IF Standing(s) = "idle" THEN "retired" ELSE Standing(s)
  BY <1>1, <1>3, <1>4 DEF Standing
<1>6. \A c \in Clients : Leasing(c)' = Leasing(c)
  BY DEF Leasing
<1>7. /\ leaseMap' = [s \in Sessions |-> IF leaseMap[s] = "idle" THEN "retired" ELSE leaseMap[s]]
      /\ leasedMap' = leasedMap
  BY <1>5, <1>6, Maps
<1> QED
  BY <1>7 DEF Lease!LeaseNext, Lease!RetireIdle

LEMMA CloseIdleKeepsLease ==
  ASSUME IInv, NEW x \in Closers, NEW s \in Sessions, CloseIdle(x, s)
  PROVE  UNCHANGED Lease!leaseVars
<1>1. /\ connection' = [connection EXCEPT ![s] = "closed"] /\ UNCHANGED <<conn, pool>>
      /\ closing' = [closing EXCEPT ![x] = @ \ {s}] /\ s \in closing[x]
  BY DEF CloseIdle, CloseConnection
<1>2. Closing(s) /\ connection[s] = "usable" /\ \A c \in Clients : conn[c] # s
  BY <1>1 DEF Closing, IInv, WaitingFit, OneUserPerSession, ClosingAlone
<1>3. ASSUME NEW t \in Sessions PROVE Standing(t)' = Standing(t)
  <2>1. CASE t = s
    BY <1>1, <1>2, <2>1 DEF Standing, IInv, TypeOK
  <2>2. CASE t # s
    <3>1. /\ Closing(t)' <=> Closing(t)
          /\ Pooled(t)' <=> Pooled(t)
          /\ connection'[t] = connection[t]
      BY <1>1, <2>2, ListsSame DEF Closing, IInv, TypeOK
    <3> QED
      BY <3>1 DEF Standing
  <2> QED
    BY <2>1, <2>2
<1>4. \A c \in Clients : Leasing(c)' = Leasing(c)
  BY <1>1, <1>2 DEF Leasing, IInv, TypeOK
<1> QED
  BY <1>3, <1>4, StandsStill

LEMMA NextLeases ==
  ASSUME EInv, [Next]_vars
  PROVE  [Lease!LeaseNext]_Lease!leaseVars
<1> USE DEF EInv
<1>1. ASSUME NEW c \in Clients, ClientNext(c) PROVE [Lease!LeaseNext]_Lease!leaseVars
  <2>1. CASE CompleteLoad(c)
    <3>1. TakeAllIdle(c) /\ UNCHANGED <<connection, conn>> /\ c \in Closers /\ closing[c] = {}
      BY <2>1 DEF CompleteLoad, Move, ExitFit, Closers
    <3> QED
      BY <3>1, TakeAllRetires
  <2>2. CASE StartConnect(c) \/ ConnectRaises(c) \/ Prepare(c) \/ Resent(c) \/ CallRaises(c)
    BY <2>2, PlaceSame DEF StartConnect, ConnectRaises, Prepare, Resent, CallRaises
  <2> QED
    BY <1>1, <2>1, <2>2, TakePooledLeases, ConnectLeases, ReconnectRetires, LostKeepsLease,
       HandBackIdles, ExitFailedRetires DEF ClientNext
<1>2. CASE RunAtExit
  <2>1. TakeAllIdle(AtExit) /\ UNCHANGED <<connection, conn>> /\ AtExit \in Closers
        /\ closing[AtExit] = {}
    BY <1>2 DEF RunAtExit, ExitFit, Closers
  <2> QED
    BY <2>1, TakeAllRetires
<1>3. CASE StopLoading \/ Exit \/ (\E s \in Sessions : Reap(s)) \/ UNCHANGED vars
  BY <1>3, PlaceSame DEF StopLoading, Exit, Reap, vars
<1> QED
  BY <1>1, <1>2, <1>3, CloseIdleKeepsLease DEF Next

\* Every behaviour of the pool, on any number of clients and sessions, is one of the
\* lease: a session goes from client to client only by waiting idle, and is never
\* leased again once somebody decided to close it (sql_client.py 111-129, 226-268).
THEOREM PoolImplementsLease == Spec => LeaseSpec
<1>1. Init => Lease!LeaseInit
  <2> SUFFICES ASSUME Init PROVE Lease!LeaseInit
    OBVIOUS
  <2>1. \A s \in Sessions : Standing(s) = "unopened"
    BY DEF Init, Standing
  <2>2. \A c \in Clients : Leasing(c) = NoSession
    BY DEF Init, Leasing
  <2>3. leaseMap = [s \in Sessions |-> "unopened"] /\ leasedMap = [c \in Clients |-> NoSession]
    BY <2>1, <2>2, Maps
  <2> QED
    BY <2>3 DEF Lease!LeaseInit
<1>2. EInv /\ [Next]_vars => [Lease!LeaseNext]_Lease!leaseVars
  BY NextLeases
<1> QED
  BY <1>1, <1>2, SpecKeepsExit, PTL DEF Spec, LeaseSpec, Lease!LeaseSpec
=============================================================================
