----------------------------- MODULE TextProofs -----------------------------
(***************************************************************************)
(* What the pieces of the packages that read and write text promise, for     *)
(* texts of any length.                                                     *)
(*                                                                         *)
(* Their operators are recursive functions, so that each is first shown to   *)
(* obey the equation it is written as.  That, and every induction, goes by    *)
(* CountUp: the induction theorems of the library take an operator.         *)
(***************************************************************************)
EXTENDS ParameterBinding, MetadataListing, OptionHoist, SequenceTheorems, FiniteSetTheorems,
        WellFoundedInduction, TLAPS

-----------------------------------------------------------------------------
(* Induction, and functions told from one end. *)

\* Induction over numbers, told with a set: the provers find no operator to put in the
\* library's theorems.
LEMMA LeastOf ==
  ASSUME NEW S, S \subseteq Nat, S # {}
  PROVE  \E n \in S : \A k \in S : n <= k
  <1> DEFINE R == {ss \in Nat \X Nat : ss[1] < ss[2]}
  <1>1. IsWellFoundedOn(R, Nat) BY NatLessThanWellFounded DEF OpToRel
  <1>2. PICK n \in S : \A k \in S : <<k, n>> \notin R
    <2> HIDE DEF R
    <2> QED BY <1>1, WFMin
  <1>3. \A k \in S : ~(k < n) BY <1>2
  <1> QED BY <1>3

LEMMA CountUp ==
  ASSUME NEW N \in Nat, NEW S, 0 \in S, \A n \in 0..N : n \in S /\ n < N => n + 1 \in S
  PROVE  0..N \subseteq S
  <1> DEFINE T == 0..N \ S
  <1> SUFFICES ASSUME T # {} PROVE FALSE OBVIOUS
  <1>0. T \subseteq Nat OBVIOUS
  <1>1. PICK n \in T : \A k \in T : n <= k
    <2> HIDE DEF T
    <2> QED BY <1>0, LeastOf
  <1>2. n \in 0..N /\ n \notin S OBVIOUS
  <1>3. n # 0 /\ n - 1 \in 0..N /\ n - 1 + 1 = n /\ n - 1 < N BY <1>2
  <1>4. n - 1 \in S
    <2>1. ~(n <= n - 1) BY <1>3
    <2> QED BY <2>1, <1>1, <1>3
  <1> QED BY <1>2, <1>3, <1>4

\* Sequences put together one after the other.
LEMMA Concatenated ==
  ASSUME NEW N \in Nat, NEW h
  PROVE  \E g : g = [k \in 0..N |-> IF k = 0 THEN <<>> ELSE g[k - 1] \o h[k]]
  <1> DEFINE S == {n \in 0..N :
                     \E g : g = [k \in 0..n |-> IF k = 0 THEN <<>> ELSE g[k - 1] \o h[k]]}
  <1>1. 0 \in S
    <2> DEFINE g == [k \in 0..0 |-> <<>>]
    <2>1. \A k \in 0..0 : k = 0 OBVIOUS
    <2>2. g = [k \in 0..0 |-> IF k = 0 THEN <<>> ELSE g[k - 1] \o h[k]] BY <2>1
    <2>3. 0 \in 0..N OBVIOUS
    <2> HIDE DEF g
    <2> QED BY <2>2, <2>3
  <1>2. ASSUME NEW n \in 0..N, n \in S, n < N PROVE n + 1 \in S
    <2>1. PICK g : g = [k \in 0..n |-> IF k = 0 THEN <<>> ELSE g[k - 1] \o h[k]] BY <1>2
    <2> DEFINE f == [k \in 0..n + 1 |-> IF k <= n THEN g[k] ELSE g[n] \o h[n + 1]]
    <2>2. ASSUME NEW k \in 0..n + 1
          PROVE  f[k] = IF k = 0 THEN <<>> ELSE f[k - 1] \o h[k]
      <3>1. CASE k = 0
        <4>1. f[k] = g[0] /\ 0 \in 0..n BY <3>1
        <4> QED BY <3>1, <4>1, <2>1
      <3>2. CASE k # 0 /\ k <= n
        <4>1. f[k] = g[k] /\ f[k - 1] = g[k - 1] /\ k \in 0..n BY <3>2
        <4>2. g[k] = g[k - 1] \o h[k] BY <2>1, <4>1, <3>2
        <4> HIDE DEF f
        <4> QED BY <4>1, <4>2, <3>2
      <3>3. CASE k = n + 1
        <4>1. f[k] = g[n] \o h[k] /\ f[k - 1] = g[n] /\ k # 0 BY <3>3
        <4> HIDE DEF f
        <4> QED BY <4>1
      <3> QED BY <3>1, <3>2, <3>3
    <2>3. f = [k \in 0..n + 1 |-> IF k = 0 THEN <<>> ELSE f[k - 1] \o h[k]]
      BY <2>2
    <2> HIDE DEF f
    <2>4. n + 1 \in 0..N BY <1>2
    <2> QED BY <2>3, <2>4
  <1> HIDE DEF S
  <1>3. 0..N \subseteq S BY <1>1, <1>2, CountUp
  <1>4. N \in S BY <1>3
  <1> QED BY <1>4 DEF S

\* A function told from its end: its last value, and each other one by h from the
\* value further on that next names.
Recurs(N, P, z, h, next) ==
  /\ N \in Nat /\ z \in P /\ h \in [1..N -> [P -> P]]
  /\ next \in [1..N -> 1..N + 1] /\ \A m \in 1..N : m < next[m]

Solvable(N, P, z, h, next) ==
  \E g \in [1..N + 1 -> P] : g[N + 1] = z /\ \A m \in 1..N : g[m] = h[m][g[next[m]]]

LEMMA Downward ==
  ASSUME NEW N, NEW P, NEW z, NEW h, NEW next, Recurs(N, P, z, h, next)
  PROVE  Solvable(N, P, z, h, next)
  <1> USE DEF Recurs
  <1> DEFINE S == {d \in 0..N : \E g \in [1..N + 1 -> P] :
                     g[N + 1] = z /\ \A m \in N - d + 1..N : g[m] = h[m][g[next[m]]]}
  <1>1. 0 \in S
    <2> DEFINE g == [m \in 1..N + 1 |-> z]
    <2>1. g \in [1..N + 1 -> P] /\ g[N + 1] = z OBVIOUS
    <2>2. N - 0 + 1..N = {} /\ 0 \in 0..N OBVIOUS
    <2> HIDE DEF g
    <2> QED BY <2>1, <2>2
  <1>2. ASSUME NEW d \in 0..N, d \in S, d < N PROVE d + 1 \in S
    <2>1. PICK g \in [1..N + 1 -> P] :
            g[N + 1] = z /\ \A m \in N - d + 1..N : g[m] = h[m][g[next[m]]]
      BY <1>2
    <2> DEFINE now == N - d
               v == h[now][g[next[now]]]
               f == [g EXCEPT ![now] = v]
    <2>2. /\ now \in 1..N /\ N - d + 1 = now + 1 /\ N - (d + 1) + 1 = now
          /\ d + 1 \in 0..N /\ now # N + 1
      BY <1>2
    <2>3. v \in P /\ next[now] \in 1..N + 1 /\ next[now] # now
      <3>1. next[now] \in 1..N + 1 /\ now < next[now] BY <2>2
      <3>2. g[next[now]] \in P BY <2>1, <3>1
      <3>3. h[now] \in [P -> P] BY <2>2
      <3> QED BY <2>2, <3>1, <3>2, <3>3
    <2> HIDE DEF now, v
    <2>4. f \in [1..N + 1 -> P] /\ f[N + 1] = z BY <2>1, <2>2, <2>3
    <2>5. ASSUME NEW m \in now..N PROVE f[m] = h[m][f[next[m]]]
      <3>1. CASE m = now
        <4>1. f[m] = v /\ f[next[m]] = g[next[m]] BY <2>1, <2>2, <2>3, <3>1
        <4> QED BY <4>1, <3>1 DEF v
      <3>2. CASE m # now
        <4>1. m \in now + 1..N /\ m \in 1..N BY <2>2, <3>2
        <4>2. next[m] \in 1..N + 1 /\ m < next[m] BY <4>1
        <4>3. next[m] # now /\ m # now BY <4>1, <4>2, <2>2
        <4>4. f[m] = g[m] /\ f[next[m]] = g[next[m]] BY <4>1, <4>2, <4>3, <2>1
        <4>5. g[m] = h[m][g[next[m]]] BY <2>1, <2>2, <4>1
        <4> QED BY <4>4, <4>5
      <3> QED BY <3>1, <3>2
    <2> HIDE DEF f
    <2> QED BY <2>2, <2>4, <2>5
  <1> HIDE DEF S
  <1>3. 0..N \subseteq S BY <1>1, <1>2, CountUp
  <1>4. N \in S BY <1>3
  <1>5. PICK g \in [1..N + 1 -> P] :
          g[N + 1] = z /\ \A m \in N - N + 1..N : g[m] = h[m][g[next[m]]]
    BY <1>4 DEF S
  <1>6. N - N + 1 = 1 OBVIOUS
  <1> QED BY <1>5, <1>6 DEF Solvable

\* A function told from its beginning: its first value, and each other one by h from
\* the one before.
Reachable(N, P, z, h) ==
  \E g \in [1..N + 1 -> P] : g[1] = z /\ \A m \in 1..N : g[m + 1] = h[m][g[m]]

LEMMA Upward ==
  ASSUME NEW N \in Nat, NEW P, NEW z \in P, NEW h \in [1..N -> [P -> P]]
  PROVE  Reachable(N, P, z, h)
  <1> DEFINE S == {n \in 0..N : \E g \in [1..N + 1 -> P] :
                     g[1] = z /\ \A m \in 1..n : g[m + 1] = h[m][g[m]]}
  <1>1. 0 \in S
    <2> DEFINE g == [m \in 1..N + 1 |-> z]
    <2>1. g \in [1..N + 1 -> P] /\ g[1] = z OBVIOUS
    <2>2. 1..0 = {} /\ 0 \in 0..N OBVIOUS
    <2> HIDE DEF g
    <2> QED BY <2>1, <2>2
  <1>2. ASSUME NEW n \in 0..N, n \in S, n < N PROVE n + 1 \in S
    <2>1. PICK g \in [1..N + 1 -> P] : g[1] = z /\ \A m \in 1..n : g[m + 1] = h[m][g[m]]
      BY <1>2
    <2> DEFINE v == h[n + 1][g[n + 1]]
               f == [g EXCEPT ![n + 2] = v]
    <2>2. n + 1 \in 1..N /\ n + 2 \in 1..N + 1 /\ n + 1 \in 1..N + 1 BY <1>2
    <2>3. v \in P
      <3>1. g[n + 1] \in P /\ h[n + 1] \in [P -> P] BY <2>2
      <3> QED BY <3>1
    <2> HIDE DEF v
    <2>4. f \in [1..N + 1 -> P] /\ f[1] = z BY <2>1, <2>2, <2>3
    <2>5. ASSUME NEW m \in 1..n + 1 PROVE f[m + 1] = h[m][f[m]]
      <3>1. CASE m = n + 1
        <4>1. f[m] = g[m] /\ f[m + 1] = v BY <2>2, <3>1
        <4> QED BY <4>1, <3>1 DEF v
      <3>2. CASE m # n + 1
        <4>1. m \in 1..n /\ m \in 1..N + 1 /\ m + 1 \in 1..N + 1 /\ m + 1 # n + 2 /\ m # n + 2
          BY <3>2, <1>2
        <4>2. f[m] = g[m] /\ f[m + 1] = g[m + 1] BY <4>1
        <4> QED BY <4>1, <4>2, <2>1
      <3> QED BY <3>1, <3>2
    <2>6. n + 1 \in 0..N BY <1>2
    <2> HIDE DEF f
    <2> QED BY <2>4, <2>5, <2>6
  <1> HIDE DEF S
  <1>3. 0..N \subseteq S BY <1>1, <1>2, CountUp
  <1>4. N \in S BY <1>3
  <1> QED BY <1>4 DEF S, Reachable

\* Two sequences put together, and three.
LEMMA ConcatAt ==
  ASSUME NEW T, NEW s \in Seq(T), NEW t \in Seq(T)
  PROVE  /\ s \o t \in Seq(T) /\ Len(s \o t) = Len(s) + Len(t)
         /\ \A i \in 1..Len(s) : (s \o t)[i] = s[i]
         /\ \A i \in 1..Len(t) : (s \o t)[Len(s) + i] = t[i]
  <1>1. /\ s \o t \in Seq(T) /\ Len(s \o t) = Len(s) + Len(t)
        /\ \A i \in 1..Len(s) + Len(t) :
             (s \o t)[i] = IF i <= Len(s) THEN s[i] ELSE t[i - Len(s)]
    BY ConcatProperties
  <1>2. Len(s) \in Nat /\ Len(t) \in Nat OBVIOUS
  <1>3. ASSUME NEW i \in 1..Len(t) PROVE (s \o t)[Len(s) + i] = t[i]
    BY <1>1, <1>2
  <1> QED BY <1>1, <1>2, <1>3

Associate(x, y, z) == (x \o y) \o z = x \o (y \o z)

LEMMA Associates ==
  ASSUME NEW T, NEW x \in Seq(T), NEW y \in Seq(T), NEW z \in Seq(T)
  PROVE  Associate(x, y, z)
  BY ConcatAssociative DEF Associate

\* Of sequences put together, each is where it was put.
Assembles(g, N, h) == g = [k \in 0..N |-> IF k = 0 THEN <<>> ELSE g[k - 1] \o h[k]]

Placed(g, N, h, T) ==
  /\ g[0] = <<>>
  /\ \A k \in 0..N : g[k] \in Seq(T)
  /\ \A k \in 0..N : /\ Len(g[k]) <= Len(g[N])
                     /\ \A i \in 1..Len(g[k]) : g[N][i] = g[k][i]
  /\ \A j \in 0..N : \A k \in 1..N : k = j + 1 =>
       /\ g[k] = g[j] \o h[k] /\ Len(g[k]) = Len(g[j]) + Len(h[k])
       /\ \A i \in 1..Len(h[k]) : g[N][Len(g[j]) + i] = h[k][i]

LEMMA Assembled ==
  ASSUME NEW N \in Nat, NEW T, NEW h \in [1..N -> Seq(T)], NEW g, Assembles(g, N, h)
  PROVE  Placed(g, N, h, T)
  <1>1. g[0] = <<>>
    <2>1. 0 \in 0..N OBVIOUS
    <2> QED BY <2>1, Zenon DEF Assembles
  <1>2. \A j \in 0..N : \A k \in 1..N : k = j + 1 => g[k] = g[j] \o h[k]
    <2> SUFFICES ASSUME NEW j \in 0..N, NEW k \in 1..N, k = j + 1 PROVE g[k] = g[j] \o h[k]
      OBVIOUS
    <2>1. k \in 0..N /\ k # 0 /\ k - 1 = j OBVIOUS
    <2>2. g[k] = g[k - 1] \o h[k] BY <2>1, Zenon DEF Assembles
    <2> QED BY <2>1, <2>2, Zenon
  <1>3. \A k \in 0..N : g[k] \in Seq(T)
    <2> DEFINE S == {k \in 0..N : g[k] \in Seq(T)}
    <2>1. 0 \in S
      <3>1. <<>> \in Seq(T) /\ 0 \in 0..N OBVIOUS
      <3> QED BY <3>1, <1>1
    <2>2. ASSUME NEW n \in 0..N, n \in S, n < N PROVE n + 1 \in S
      <3>1. n + 1 \in 1..N /\ n + 1 - 1 = n /\ n + 1 \in 0..N BY <2>2
      <3>2. g[n + 1] = g[n] \o h[n + 1]
        <4> HIDE DEF S
        <4> QED BY <3>1, <1>2, Zenon
      <3>3. g[n] \in Seq(T) /\ h[n + 1] \in Seq(T) BY <2>2, <3>1
      <3>4. g[n] \o h[n + 1] \in Seq(T)
        <4> HIDE DEF S
        <4> QED BY <3>3, ConcatProperties
      <3> QED BY <3>1, <3>2, <3>4
    <2> HIDE DEF S
    <2>3. 0..N \subseteq S BY <2>1, <2>2, CountUp
    <2> QED BY <2>3 DEF S
  <1>4. \A j \in 0..N : \A k \in 1..N : k = j + 1 =>
          /\ g[k] \in Seq(T) /\ g[j] \in Seq(T) /\ h[k] \in Seq(T)
          /\ Len(g[k]) = Len(g[j]) + Len(h[k])
          /\ \A i \in 1..Len(g[j]) : g[k][i] = g[j][i]
          /\ \A i \in 1..Len(h[k]) : g[k][Len(g[j]) + i] = h[k][i]
    <2> SUFFICES ASSUME NEW j \in 0..N, NEW k \in 1..N, k = j + 1
                 PROVE  /\ g[k] \in Seq(T) /\ g[j] \in Seq(T) /\ h[k] \in Seq(T)
                        /\ Len(g[k]) = Len(g[j]) + Len(h[k])
                        /\ \A i \in 1..Len(g[j]) : g[k][i] = g[j][i]
                        /\ \A i \in 1..Len(h[k]) : g[k][Len(g[j]) + i] = h[k][i]
      OBVIOUS
    <2>1. k \in 0..N OBVIOUS
    <2> DEFINE s == g[j]
               t == h[k]
    <2>2. g[k] \in Seq(T) /\ s \in Seq(T) /\ t \in Seq(T) BY <2>1, <1>3
    <2>3. g[k] = s \o t BY <1>2
    <2> HIDE DEF s, t
    <2>4. /\ Len(s \o t) = Len(s) + Len(t)
          /\ \A i \in 1..Len(s) : (s \o t)[i] = s[i]
          /\ \A i \in 1..Len(t) : (s \o t)[Len(s) + i] = t[i]
      BY <2>2, ConcatAt
    <2>5. /\ Len(g[k]) = Len(s) + Len(t)
          /\ \A i \in 1..Len(s) : g[k][i] = s[i]
          /\ \A i \in 1..Len(t) : g[k][Len(s) + i] = t[i]
      BY <2>3, <2>4, Zenon
    <2> QED BY <2>2, <2>5 DEF s, t
  <1> DEFINE Grown(k, m) == /\ Len(g[k]) <= Len(g[m])
                            /\ \A i \in 1..Len(g[k]) : g[m][i] = g[k][i]
  <1>5. \A k \in 0..N : Grown(k, N)
    <2> DEFINE S == {m \in 0..N : \A k \in 0..m : Grown(k, m)}
    <2>1. 0 \in S BY <1>1
    <2>2. ASSUME NEW n \in 0..N, n \in S, n < N PROVE n + 1 \in S
      <3>1. n + 1 \in 1..N /\ n + 1 - 1 = n /\ n + 1 \in 0..N BY <2>2
      <3>2. /\ g[n] \in Seq(T) /\ h[n + 1] \in Seq(T) /\ g[n + 1] \in Seq(T)
            /\ Len(g[n + 1]) = Len(g[n]) + Len(h[n + 1])
            /\ \A i \in 1..Len(g[n]) : g[n + 1][i] = g[n][i]
        <4> HIDE DEF S
        <4> QED BY <3>1, <1>4, Zenon
      <3>3. ASSUME NEW k \in 0..n + 1 PROVE Grown(k, n + 1)
        <4>1. CASE k = n + 1 BY <4>1, <3>2
        <4>2. CASE k # n + 1
          <5>1. k \in 0..n BY <4>2
          <5>2. Grown(k, n) BY <5>1, <2>2
          <5>3. g[k] \in Seq(T)
            <6>1. k \in 0..N BY <5>1
            <6> QED BY <6>1, <1>3
          <5>4. Len(g[k]) \in Nat /\ Len(g[n]) \in Nat /\ Len(h[n + 1]) \in Nat
            BY <5>3, <3>2, LenProperties
          <5>5. /\ Len(g[k]) <= Len(g[n])
                /\ \A i \in 1..Len(g[k]) : i \in 1..Len(g[n])
            BY <5>2, <5>4
          <5>6. Len(g[k]) <= Len(g[n + 1])
            <6> DEFINE a == Len(g[k])  b == Len(g[n])  c == Len(g[n + 1])  d == Len(h[n + 1])
            <6>1. c = b + d BY <3>2
            <6>2. a <= b BY <5>5
            <6>3. a \in Nat /\ b \in Nat /\ d \in Nat BY <5>4
            <6> HIDE DEF S, Grown, a, b, c, d
            <6>4. a <= c BY <6>1, <6>2, <6>3
            <6> QED BY <6>4 DEF a, c
          <5>7. \A i \in 1..Len(g[k]) : g[n + 1][i] = g[k][i] BY <5>2, <5>5, <3>2
          <5> QED BY <5>6, <5>7
        <4> QED BY <4>1, <4>2
      <3> HIDE DEF Grown
      <3> QED BY <3>1, <3>3
    <2> HIDE DEF S
    <2>3. 0..N \subseteq S BY <2>1, <2>2, CountUp
    <2>4. N \in S BY <2>3
    <2> QED BY <2>4 DEF S
  <1>6. ASSUME NEW j \in 0..N, NEW k \in 1..N, k = j + 1
        PROVE  /\ g[k] = g[j] \o h[k] /\ Len(g[k]) = Len(g[j]) + Len(h[k])
               /\ \A i \in 1..Len(h[k]) : g[N][Len(g[j]) + i] = h[k][i]
    <2>1. k \in 0..N BY <1>6
    <2>2. /\ g[k] \in Seq(T) /\ g[j] \in Seq(T) /\ h[k] \in Seq(T)
          /\ Len(g[k]) = Len(g[j]) + Len(h[k])
          /\ \A i \in 1..Len(h[k]) : g[k][Len(g[j]) + i] = h[k][i]
      BY <1>4, <1>6
    <2>3. ASSUME NEW i \in 1..Len(h[k]) PROVE g[N][Len(g[j]) + i] = h[k][i]
      <3>1. Len(g[j]) \in Nat /\ Len(h[k]) \in Nat BY <2>2, LenProperties
      <3>2. Len(g[j]) + i \in 1..Len(g[k]) BY <2>2, <3>1
      <3>3. g[N][Len(g[j]) + i] = g[k][Len(g[j]) + i] BY <3>2, <2>1, <1>5
      <3> QED BY <3>3, <2>2
    <2>4. g[k] = g[j] \o h[k] BY <1>2, <1>6
    <2> QED BY <2>2, <2>3, <2>4
  <1> HIDE DEF Grown
  <1>7. \A k \in 0..N : /\ Len(g[k]) <= Len(g[N])
                        /\ \A i \in 1..Len(g[k]) : g[N][i] = g[k][i]
    BY <1>5 DEF Grown
  <1> QED BY <1>1, <1>3, <1>6, <1>7 DEF Placed

-----------------------------------------------------------------------------
(* Patterns.  _like_match turns a LIKE pattern into a glob and lets fnmatch read *)
(* it; but for the glob's own characters the two read every name alike.  The two  *)
(* are compared from the end of the pattern on.                                *)

LikeStep(pattern, name, m, onward) ==
  IF pattern[m] = "%" THEN {n \in 1..Len(name) + 1 : \E k \in onward : n <= k}
  ELSE {n \in 1..Len(name) : pattern[m] \in {"_", name[n]} /\ n + 1 \in onward}

LEMMA LikeUnfolds ==
  ASSUME NEW pattern \in Seq(Letters), NEW name \in Seq(Letters)
  PROVE  /\ LikePlaces(pattern, name)[Len(pattern) + 1] = {Len(name) + 1}
         /\ \A m \in 1..Len(pattern) :
              LikePlaces(pattern, name)[m]
                = LikeStep(pattern, name, m, LikePlaces(pattern, name)[m + 1])
  <1> DEFINE N == Len(pattern)
             P == SUBSET (1..Len(name) + 1)
             h == [m \in 1..N |-> [onward \in P |-> LikeStep(pattern, name, m, onward)]]
             next == [m \in 1..N |-> m + 1]
             z == {Len(name) + 1}
  <1>1. N \in Nat /\ Len(name) \in Nat OBVIOUS
  <1>2. z \in P BY <1>1
  <1>3. h \in [1..N -> [P -> P]]
    <2> SUFFICES ASSUME NEW m \in 1..N, NEW onward \in P
                 PROVE  LikeStep(pattern, name, m, onward) \in P
      OBVIOUS
    <2>1. CASE pattern[m] = "%" BY <2>1 DEF LikeStep
    <2>2. CASE pattern[m] # "%"
      <3>1. LikeStep(pattern, name, m, onward)
              = {n \in 1..Len(name) : pattern[m] \in {"_", name[n]} /\ n + 1 \in onward}
        BY <2>2 DEF LikeStep
      <3>2. \A n \in 1..Len(name) : n \in 1..Len(name) + 1 BY <1>1
      <3> HIDE DEF N
      <3> QED BY <3>1, <3>2
    <2> QED BY <2>1, <2>2
  <1>4. next \in [1..N -> 1..N + 1] /\ \A m \in 1..N : m < next[m] BY <1>1
  <1>5. PICK g \in [1..N + 1 -> P] : g[N + 1] = z /\ \A m \in 1..N : g[m] = h[m][g[next[m]]]
    <2> HIDE DEF N, P, h, next, z
    <2>1. Recurs(N, P, z, h, next) BY <1>1, <1>2, <1>3, <1>4 DEF Recurs
    <2>2. Solvable(N, P, z, h, next) BY <2>1, Downward
    <2> QED BY <2>2 DEF Solvable
  <1>6. ASSUME NEW m \in 1..N PROVE g[m] = LikeStep(pattern, name, m, g[m + 1])
    <2>1. next[m] = m + 1 /\ m + 1 \in 1..N + 1 BY <1>1
    <2>2. g[m + 1] \in P BY <2>1, <1>5
    <2>3. h[m][g[m + 1]] = LikeStep(pattern, name, m, g[m + 1]) BY <2>2
    <2> QED BY <2>1, <2>3, <1>5
  <1>7. g = [m \in 1..Len(pattern) + 1 |->
               IF m > Len(pattern) THEN {Len(name) + 1}
               ELSE IF pattern[m] = "%" THEN {n \in 1..Len(name) + 1 : \E k \in g[m + 1] : n <= k}
               ELSE {n \in 1..Len(name) : pattern[m] \in {"_", name[n]} /\ n + 1 \in g[m + 1]}]
    <2> SUFFICES ASSUME NEW m \in 1..Len(pattern) + 1
                 PROVE  g[m] = IF m > Len(pattern) THEN {Len(name) + 1}
               ELSE IF pattern[m] = "%" THEN {n \in 1..Len(name) + 1 : \E k \in g[m + 1] : n <= k}
               ELSE {n \in 1..Len(name) : pattern[m] \in {"_", name[n]} /\ n + 1 \in g[m + 1]}
      BY <1>5
    <2>1. CASE m > Len(pattern)
      <3>1. m = N + 1 BY <2>1, <1>1
      <3> QED BY <3>1, <2>1, <1>5
    <2>2. CASE ~(m > Len(pattern))
      <3>1. m \in 1..N BY <2>2, <1>1
      <3> HIDE DEF N
      <3> QED BY <3>1, <2>2, <1>6 DEF LikeStep
    <2> QED BY <2>1, <2>2
  <1> DEFINE p == LikePlaces(pattern, name)
  <1>8. p = [m \in 1..Len(pattern) + 1 |->
               IF m > Len(pattern) THEN {Len(name) + 1}
               ELSE IF pattern[m] = "%" THEN {n \in 1..Len(name) + 1 : \E k \in p[m + 1] : n <= k}
               ELSE {n \in 1..Len(name) : pattern[m] \in {"_", name[n]} /\ n + 1 \in p[m + 1]}]
    BY <1>7, ZenonT(60) DEF LikePlaces
  <1> HIDE DEF p
  <1>9. p[N + 1] = {Len(name) + 1}
    <2>1. N + 1 \in 1..Len(pattern) + 1 /\ N + 1 > Len(pattern) BY <1>1
    <2> QED BY <2>1, <1>8
  <1>10. ASSUME NEW m \in 1..N PROVE p[m] = LikeStep(pattern, name, m, p[m + 1])
    <2>1. m \in 1..Len(pattern) + 1 /\ ~(m > Len(pattern)) BY <1>1
    <2> QED BY <2>1, <1>8 DEF LikeStep
  <1> QED BY <1>9, <1>10 DEF p

LEMMA ClosingAt ==
  ASSUME NEW glob, Len(glob) \in Nat, NEW m \in 1..Len(glob)
  PROVE  LET ends == {k \in m + 2..Len(glob) : glob[k] = "]"}
         IN  /\ ends = {} => Closing(glob, m) = 0
             /\ ends # {} => /\ Closing(glob, m) \in ends
                             /\ \A k \in ends : Closing(glob, m) <= k
  <1> DEFINE ends == {k \in m + 2..Len(glob) : glob[k] = "]"}
             first == CHOOSE k \in ends : \A j \in ends : k <= j
  <1>1. Closing(glob, m) = IF ends = {} THEN 0 ELSE first BY DEF Closing
  <1>2. ASSUME ends # {} PROVE first \in ends /\ \A k \in ends : first <= k
    <2>1. ends \subseteq Nat OBVIOUS
    <2> HIDE DEF ends
    <2>2. \E k \in ends : \A j \in ends : k <= j BY <1>2, <2>1, LeastOf
    <2> QED BY <2>2
  <1> HIDE DEF ends, first
  <1>3. /\ ends = {} => Closing(glob, m) = 0
        /\ ends # {} => /\ Closing(glob, m) \in ends
                        /\ \A k \in ends : Closing(glob, m) <= k
    BY <1>1, <1>2
  <1> QED BY <1>3 DEF ends

InClass(glob, m) == glob[m] = "[" /\ Closing(glob, m) # 0

GlobStep(glob, name, m, onward) ==
  IF glob[m] = "*" THEN {n \in 1..Len(name) + 1 : \E k \in onward : n <= k}
  ELSE IF InClass(glob, m)
    THEN {n \in 1..Len(name) :
            /\ \E k \in m + 1..Closing(glob, m) - 1 : glob[k] = name[n]
            /\ n + 1 \in onward}
  ELSE {n \in 1..Len(name) : glob[m] \in {"?", name[n]} /\ n + 1 \in onward}

GlobNext(glob, m) ==
  IF glob[m] # "*" /\ InClass(glob, m) THEN Closing(glob, m) + 1 ELSE m + 1

LEMMA GlobUnfolds ==
  ASSUME NEW glob, Len(glob) \in Nat, NEW name \in Seq(Letters)
  PROVE  /\ GlobPlaces(glob, name)[Len(glob) + 1] = {Len(name) + 1}
         /\ \A m \in 1..Len(glob) :
              GlobPlaces(glob, name)[m]
                = GlobStep(glob, name, m, GlobPlaces(glob, name)[GlobNext(glob, m)])
  <1> DEFINE N == Len(glob)
             P == SUBSET (1..Len(name) + 1)
             h == [m \in 1..N |-> [onward \in P |-> GlobStep(glob, name, m, onward)]]
             next == [m \in 1..N |-> GlobNext(glob, m)]
             z == {Len(name) + 1}
  <1>1. N \in Nat /\ Len(name) \in Nat OBVIOUS
  <1>2. z \in P BY <1>1
  <1>3. h \in [1..N -> [P -> P]]
    <2> SUFFICES ASSUME NEW m \in 1..N, NEW onward \in P
                 PROVE  GlobStep(glob, name, m, onward) \in P
      OBVIOUS
    <2>1. \A n \in 1..Len(name) : n \in 1..Len(name) + 1 BY <1>1
    <2>2. CASE glob[m] = "*" BY <2>2 DEF GlobStep
    <2>3. CASE glob[m] # "*" /\ InClass(glob, m)
      <3>1. GlobStep(glob, name, m, onward) \subseteq 1..Len(name) BY <2>3 DEF GlobStep
      <3> QED BY <3>1, <2>1
    <2>4. CASE glob[m] # "*" /\ ~InClass(glob, m)
      <3>1. GlobStep(glob, name, m, onward) \subseteq 1..Len(name) BY <2>4 DEF GlobStep
      <3> QED BY <3>1, <2>1
    <2> QED BY <2>2, <2>3, <2>4
  <1>4. next \in [1..N -> 1..N + 1] /\ \A m \in 1..N : m < next[m]
    <2> SUFFICES ASSUME NEW m \in 1..N
                 PROVE  GlobNext(glob, m) \in 1..N + 1 /\ m < GlobNext(glob, m)
      OBVIOUS
    <2>1. Closing(glob, m) # 0 => Closing(glob, m) \in m + 2..Len(glob) BY ClosingAt
    <2> QED BY <2>1, <1>1 DEF GlobNext, InClass
  <1>5. PICK g \in [1..N + 1 -> P] : g[N + 1] = z /\ \A m \in 1..N : g[m] = h[m][g[next[m]]]
    <2> HIDE DEF N, P, h, next, z
    <2>1. Recurs(N, P, z, h, next) BY <1>1, <1>2, <1>3, <1>4 DEF Recurs
    <2>2. Solvable(N, P, z, h, next) BY <2>1, Downward
    <2> QED BY <2>2 DEF Solvable
  <1>6. ASSUME NEW m \in 1..N PROVE g[m] = GlobStep(glob, name, m, g[GlobNext(glob, m)])
    <2>1. next[m] = GlobNext(glob, m) /\ next[m] \in 1..N + 1 BY <1>4
    <2>2. g[next[m]] \in P BY <2>1, <1>5
    <2>3. h[m][g[next[m]]] = GlobStep(glob, name, m, g[next[m]]) BY <2>2
    <2> QED BY <2>1, <2>3, <1>5
  <1>7. g = [m \in 1..Len(glob) + 1 |->
        IF m > Len(glob) THEN {Len(name) + 1}
        ELSE IF glob[m] = "*" THEN {n \in 1..Len(name) + 1 : \E k \in g[m + 1] : n <= k}
        ELSE IF glob[m] = "[" /\ Closing(glob, m) # 0
          THEN {n \in 1..Len(name) :
                  /\ \E k \in m + 1..Closing(glob, m) - 1 : glob[k] = name[n]
                  /\ n + 1 \in g[Closing(glob, m) + 1]}
        ELSE {n \in 1..Len(name) : glob[m] \in {"?", name[n]} /\ n + 1 \in g[m + 1]}]
    <2> SUFFICES ASSUME NEW m \in 1..Len(glob) + 1
                 PROVE  g[m] =
        IF m > Len(glob) THEN {Len(name) + 1}
        ELSE IF glob[m] = "*" THEN {n \in 1..Len(name) + 1 : \E k \in g[m + 1] : n <= k}
        ELSE IF glob[m] = "[" /\ Closing(glob, m) # 0
          THEN {n \in 1..Len(name) :
                  /\ \E k \in m + 1..Closing(glob, m) - 1 : glob[k] = name[n]
                  /\ n + 1 \in g[Closing(glob, m) + 1]}
        ELSE {n \in 1..Len(name) : glob[m] \in {"?", name[n]} /\ n + 1 \in g[m + 1]}
      BY <1>5
    <2>1. CASE m > Len(glob)
      <3>1. m = N + 1 BY <2>1, <1>1
      <3> QED BY <3>1, <2>1, <1>5
    <2>2. CASE ~(m > Len(glob))
      <3>1. m \in 1..N BY <2>2, <1>1
      <3> HIDE DEF N
      <3>2. g[m] = GlobStep(glob, name, m, g[GlobNext(glob, m)]) BY <3>1, <1>6
      <3>3. CASE glob[m] = "*" BY <3>2, <3>3, <2>2 DEF GlobStep, GlobNext
      <3>4. CASE glob[m] # "*" /\ InClass(glob, m)
        BY <3>2, <3>4, <2>2 DEF GlobStep, GlobNext, InClass
      <3>5. CASE glob[m] # "*" /\ ~InClass(glob, m)
        BY <3>2, <3>5, <2>2 DEF GlobStep, GlobNext, InClass
      <3> QED BY <3>3, <3>4, <3>5
    <2> QED BY <2>1, <2>2
  <1> DEFINE p == GlobPlaces(glob, name)
  <1>8. p = [m \in 1..Len(glob) + 1 |->
        IF m > Len(glob) THEN {Len(name) + 1}
        ELSE IF glob[m] = "*" THEN {n \in 1..Len(name) + 1 : \E k \in p[m + 1] : n <= k}
        ELSE IF glob[m] = "[" /\ Closing(glob, m) # 0
          THEN {n \in 1..Len(name) :
                  /\ \E k \in m + 1..Closing(glob, m) - 1 : glob[k] = name[n]
                  /\ n + 1 \in p[Closing(glob, m) + 1]}
        ELSE {n \in 1..Len(name) : glob[m] \in {"?", name[n]} /\ n + 1 \in p[m + 1]}]
    BY <1>7, ZenonT(60) DEF GlobPlaces
  <1> HIDE DEF p
  <1>9. p[N + 1] = {Len(name) + 1}
    <2>1. N + 1 \in 1..Len(glob) + 1 /\ N + 1 > Len(glob) BY <1>1
    <2> QED BY <2>1, <1>8
  <1>10. ASSUME NEW m \in 1..N PROVE p[m] = GlobStep(glob, name, m, p[GlobNext(glob, m)])
    <2>1. m \in 1..Len(glob) + 1 /\ ~(m > Len(glob)) BY <1>1
    <2>2. CASE glob[m] = "*" BY <2>1, <2>2, <1>8 DEF GlobStep, GlobNext
    <2>3. CASE glob[m] # "*" /\ InClass(glob, m)
      BY <2>1, <2>3, <1>8 DEF GlobStep, GlobNext, InClass
    <2>4. CASE glob[m] # "*" /\ ~InClass(glob, m)
      BY <2>1, <2>4, <1>8 DEF GlobStep, GlobNext, InClass
    <2> QED BY <2>2, <2>3, <2>4
  <1> QED BY <1>9, <1>10 DEF p

Characters == Letters \cup {"[", "]", "*", "?"}

LEMMA GlobOfOne ==
  ASSUME NEW c \in Letters
  PROVE  GlobOf(c) \in Seq(Characters)
  <1>1. CASE c = "["
    <2>1. GlobOf(c) = <<"[", "[", "]">> BY <1>1 DEF GlobOf
    <2> QED BY <2>1 DEF Characters
  <1>2. CASE c # "["
    <2>1. \E e \in Characters : GlobOf(c) = <<e>> BY <1>2 DEF GlobOf, Characters
    <2> QED BY <2>1
  <1> QED BY <1>1, <1>2

LEMMA GlobBuilt ==
  ASSUME NEW pattern \in Seq(Letters)
  PROVE  \E g \in [0..Len(pattern) -> Seq(Characters)] :
           /\ g[0] = <<>> /\ Glob(pattern) = g[Len(pattern)]
           /\ \A k \in 1..Len(pattern) : g[k] = g[k - 1] \o GlobOf(pattern[k])
  <1> DEFINE N == Len(pattern)
             h == [k \in 1..N |-> GlobOf(pattern[k])]
  <1>1. N \in Nat OBVIOUS
  <1>2. PICK f : f = [k \in 0..N |-> IF k = 0 THEN <<>> ELSE f[k - 1] \o h[k]]
    <2> HIDE DEF N, h
    <2> QED BY <1>1, Concatenated
  <1>3. f = [k \in 0..Len(pattern) |->
               IF k = 0 THEN <<>> ELSE f[k - 1] \o GlobOf(pattern[k])]
    <2> SUFFICES ASSUME NEW k \in 0..Len(pattern)
                 PROVE  f[k] = IF k = 0 THEN <<>> ELSE f[k - 1] \o GlobOf(pattern[k])
      BY <1>2
    <2>1. f[k] = IF k = 0 THEN <<>> ELSE f[k - 1] \o h[k] BY <1>2
    <2>2. k # 0 => h[k] = GlobOf(pattern[k]) BY <1>1
    <2> HIDE DEF h
    <2> QED BY <2>1, <2>2
  <1>4. \E g : /\ g = [k \in 0..Len(pattern) |->
                         IF k = 0 THEN <<>> ELSE g[k - 1] \o GlobOf(pattern[k])]
               /\ Glob(pattern) = g[Len(pattern)]
    BY <1>3, Zenon DEF Glob
  <1>5. PICK g : /\ g = [k \in 0..Len(pattern) |->
                           IF k = 0 THEN <<>> ELSE g[k - 1] \o GlobOf(pattern[k])]
                 /\ Glob(pattern) = g[Len(pattern)]
    BY <1>4
  <1>6. g[0] = <<>> BY <1>1, <1>5
  <1>7. ASSUME NEW k \in 1..N PROVE g[k] = g[k - 1] \o GlobOf(pattern[k])
    <2>1. k \in 0..Len(pattern) /\ k # 0 BY <1>1
    <2> QED BY <2>1, <1>5
  <1> DEFINE S == {k \in 0..N : g[k] \in Seq(Characters)}
  <1>8. 0 \in S
    <2>1. <<>> \in Seq(Characters) /\ 0 \in 0..N BY <1>1
    <2> QED BY <2>1, <1>6
  <1>9. ASSUME NEW k \in 0..N, k \in S, k < N PROVE k + 1 \in S
    <2>1. k + 1 \in 1..N /\ k + 1 \in 0..N /\ k + 1 - 1 = k BY <1>1, <1>9
    <2>2. g[k + 1] = g[k] \o GlobOf(pattern[k + 1])
      <3>1. \A j \in 1..N, i \in 0..N : j = i + 1 => g[j] = g[i] \o GlobOf(pattern[j])
        <4>1. \A j \in 1..N, i \in 0..N : j = i + 1 => i = j - 1 OBVIOUS
        <4> HIDE DEF N, h, S
        <4> QED BY <4>1, <1>7
      <3> HIDE DEF N, h, S
      <3> QED BY <3>1, <2>1, Zenon
    <2>3. pattern[k + 1] \in Letters BY <2>1
    <2>4. GlobOf(pattern[k + 1]) \in Seq(Characters) BY <2>3, GlobOfOne
    <2>5. g[k] \in Seq(Characters) BY <1>9
    <2>6. g[k + 1] \in Seq(Characters) BY <2>2, <2>4, <2>5
    <2> QED BY <2>1, <2>6
  <1>10. \A k \in 0..N : g[k] \in Seq(Characters)
    <2>1. 0..N \subseteq S
      <3> HIDE DEF S, N
      <3> QED BY <1>1, <1>8, <1>9, CountUp
    <2> QED BY <2>1
  <1>11. DOMAIN g = 0..N /\ g = [k \in 0..N |-> g[k]] BY <1>5
  <1>12. g \in [0..N -> Seq(Characters)] BY <1>10, <1>11
  <1> QED BY <1>5, <1>6, <1>7, <1>12

\* Where what the k-th character of the pattern became lies in the glob.
GlobLies(pattern, g) ==
  \A k \in 1..Len(pattern) :
    /\ Len(g[k]) = Len(g[k - 1]) + Len(GlobOf(pattern[k]))
    /\ Len(g[k]) <= Len(Glob(pattern))
    /\ \A i \in 1..Len(GlobOf(pattern[k])) :
         Glob(pattern)[Len(g[k - 1]) + i] = GlobOf(pattern[k])[i]

LEMMA GlobReads ==
  ASSUME NEW pattern \in Seq(Letters), NEW g \in [0..Len(pattern) -> Seq(Characters)],
         g[0] = <<>>, Glob(pattern) = g[Len(pattern)],
         \A k \in 1..Len(pattern) : g[k] = g[k - 1] \o GlobOf(pattern[k])
  PROVE  GlobLies(pattern, g)
  <1> DEFINE N == Len(pattern)
             S == {d \in 0..N : \A k \in 0..d : /\ Len(g[k]) <= Len(g[d])
                                                /\ \A j \in 1..Len(g[k]) : g[d][j] = g[k][j]}
  <1>1. N \in Nat /\ \A k \in 0..N : g[k] \in Seq(Characters) OBVIOUS
  <1>2. 0 \in S BY <1>1
  <1>3. ASSUME NEW d \in 0..N, d \in S, d < N PROVE d + 1 \in S
    <2>1. d + 1 \in 1..N /\ d + 1 - 1 = d /\ d + 1 \in 0..N BY <1>1, <1>3
    <2>2. pattern[d + 1] \in Letters BY <2>1
    <2> DEFINE more == GlobOf(pattern[d + 1])
    <2>3. g[d + 1] = g[d] \o more
      <3>1. \A j \in 1..N, i \in 0..N : i = j - 1 => g[j] = g[i] \o GlobOf(pattern[j])
        OBVIOUS
      <3> QED BY <3>1, <2>1
    <2>4. more \in Seq(Characters) /\ g[d] \in Seq(Characters) BY <2>2, GlobOfOne
    <2> HIDE DEF more
    <2>5. Len(g[d + 1]) = Len(g[d]) + Len(more) /\ Len(more) \in Nat /\ Len(g[d]) \in Nat
      BY <2>3, <2>4
    <2>6. \A j \in 1..Len(g[d]) : g[d + 1][j] = g[d][j] BY <2>3, <2>4
    <2>7. ASSUME NEW k \in 0..d + 1
          PROVE  /\ Len(g[k]) <= Len(g[d + 1])
                 /\ \A j \in 1..Len(g[k]) : g[d + 1][j] = g[k][j]
      <3>1. CASE k = d + 1 BY <3>1, <2>5
      <3>2. CASE k # d + 1
        <4>1. k \in 0..d BY <3>2
        <4>2. Len(g[k]) <= Len(g[d]) /\ \A j \in 1..Len(g[k]) : g[d][j] = g[k][j]
          BY <4>1, <1>3
        <4>3. Len(g[k]) \in Nat BY <4>1, <1>1
        <4> QED BY <4>2, <4>3, <2>5, <2>6
      <3> QED BY <3>1, <3>2
    <2> QED BY <2>1, <2>7
  <1>4. N \in S
    <2>1. 0..N \subseteq S
      <3> HIDE DEF S, N
      <3> QED BY <1>1, <1>2, <1>3, CountUp
    <2>2. N \in 0..N BY <1>1
    <2> HIDE DEF S, N
    <2> QED BY <2>1, <2>2
  <1>5. ASSUME NEW k \in 1..N
        PROVE  /\ Len(g[k]) = Len(g[k - 1]) + Len(GlobOf(pattern[k]))
               /\ Len(g[k]) <= Len(Glob(pattern))
               /\ \A i \in 1..Len(GlobOf(pattern[k])) :
                    Glob(pattern)[Len(g[k - 1]) + i] = GlobOf(pattern[k])[i]
    <2>1. k \in 0..N /\ k - 1 \in 0..N /\ pattern[k] \in Letters BY <1>1
    <2> DEFINE one == GlobOf(pattern[k])
    <2>2. one \in Seq(Characters) /\ g[k - 1] \in Seq(Characters) BY <2>1, GlobOfOne
    <2>3. g[k] = g[k - 1] \o one OBVIOUS
    <2> HIDE DEF one
    <2>4. Len(g[k]) = Len(g[k - 1]) + Len(one) BY <2>2, <2>3
    <2>5. Len(g[k]) <= Len(g[N]) /\ \A j \in 1..Len(g[k]) : g[N][j] = g[k][j] BY <1>4, <2>1
    <2>6. ASSUME NEW i \in 1..Len(one) PROVE g[N][Len(g[k - 1]) + i] = one[i]
      <3>1. g[k][Len(g[k - 1]) + i] = one[i] BY <2>2, <2>3
      <3>2. Len(g[k - 1]) + i \in 1..Len(g[k]) BY <2>2, <2>4
      <3> QED BY <3>1, <3>2, <2>5
    <2> QED BY <2>4, <2>5, <2>6 DEF one
  <1> QED BY <1>5 DEF GlobLies

\* The pattern's places are the glob's: what each character became reads as LIKE
\* reads the character.
LEMMA SamePlaces ==
  ASSUME NEW pattern \in Seq(Letters), NEW name \in Seq(Letters),
         \A k \in 1..Len(pattern) : pattern[k] \notin GlobOnly
  PROVE  1 \in GlobPlaces(Glob(pattern), name)[1] <=> 1 \in LikePlaces(pattern, name)[1]
  <1> DEFINE N == Len(pattern)
             glob == Glob(pattern)
             P == GlobPlaces(glob, name)
             L == LikePlaces(pattern, name)
  <1>1. PICK g \in [0..N -> Seq(Characters)] :
          /\ g[0] = <<>> /\ glob = g[N]
          /\ \A k \in 1..N : g[k] = g[k - 1] \o GlobOf(pattern[k])
    BY GlobBuilt
  <1>2. GlobLies(pattern, g) BY <1>1, GlobReads
  <1>3. N \in Nat /\ \A k \in 0..N : Len(g[k]) \in Nat
    <2>1. \A k \in 0..N : g[k] \in Seq(Characters) BY <1>1
    <2> QED BY <2>1
  <1>4. Len(glob) = Len(g[N]) /\ Len(glob) \in Nat BY <1>1, <1>3
  <1>5. /\ P[Len(glob) + 1] = {Len(name) + 1}
        /\ \A m \in 1..Len(glob) : P[m] = GlobStep(glob, name, m, P[GlobNext(glob, m)])
    BY <1>4, GlobUnfolds
  <1>6. /\ L[N + 1] = {Len(name) + 1}
        /\ \A m \in 1..N : L[m] = LikeStep(pattern, name, m, L[m + 1])
    BY LikeUnfolds
  <1> DEFINE S == {d \in 0..N : P[Len(g[N - d]) + 1] = L[N - d + 1]}
  <1>7. 0 \in S
    <2>1. 0 \in 0..N /\ N - 0 = N BY <1>3
    <2> HIDE DEF P, L, N, glob
    <2> QED BY <2>1, <1>4, <1>5, <1>6
  <1>8. ASSUME NEW d \in 0..N, d \in S, d < N PROVE d + 1 \in S
    <2> DEFINE k == N - d
               c == pattern[k]
               m == Len(g[k - 1]) + 1
    <2>1. k \in 1..N /\ d + 1 \in 0..N /\ N - (d + 1) = k - 1 /\ k - 1 \in 0..N /\ k \in 0..N
      BY <1>3, <1>8, SMTT(60)
    <2>2. c \in Letters /\ c \notin GlobOnly BY <2>1
    <2>3. /\ Len(g[k]) = Len(g[k - 1]) + Len(GlobOf(c)) /\ Len(g[k]) <= Len(glob)
          /\ \A i \in 1..Len(GlobOf(c)) : glob[Len(g[k - 1]) + i] = GlobOf(c)[i]
      BY <1>2, <2>1 DEF GlobLies
    <2>4. P[Len(g[k]) + 1] = L[k + 1] BY <1>8
    <2>5. Len(g[k - 1]) \in Nat /\ Len(g[k]) \in Nat BY <1>3, <2>1
    <2>6. L[k] = LikeStep(pattern, name, k, L[k + 1]) BY <1>6, <2>1
    <2>7. Len(name) \in Nat OBVIOUS
    <2> HIDE DEF k, c, m, P, L, glob, N
    <2>8. m \in Nat /\ m = Len(g[k - 1]) + 1 BY <2>5 DEF m
    <2>9. ASSUME c = "[" PROVE P[m] = L[k]
      <3>1. GlobOf(c) = <<"[", "[", "]">> BY <2>9 DEF GlobOf
      <3>2. /\ Len(g[k]) = m + 2 /\ m \in 1..Len(glob) /\ m + 2 \in m + 2..Len(glob)
            /\ glob[m] = "[" /\ glob[m + 1] = "[" /\ glob[m + 2] = "]"
        <4>1. Len(GlobOf(c)) = 3 BY <3>1
        <4>2. /\ glob[Len(g[k - 1]) + 1] = "[" /\ glob[Len(g[k - 1]) + 2] = "["
              /\ glob[Len(g[k - 1]) + 3] = "]"
          BY <4>1, <3>1, <2>3
        <4> QED BY <4>1, <4>2, <2>3, <2>5, <2>8, <1>4, SMTT(60)
      <3>3. Closing(glob, m) = m + 2
        <4> DEFINE ends == {j \in m + 2..Len(glob) : glob[j] = "]"}
        <4>1. m + 2 \in ends BY <3>2
        <4>2. Closing(glob, m) \in ends /\ Closing(glob, m) <= m + 2
          BY <4>1, <3>2, <1>4, ClosingAt
        <4>3. Closing(glob, m) \in m + 2..Len(glob) BY <4>2
        <4> QED BY <4>2, <4>3, <2>8
      <3>4. InClass(glob, m) /\ glob[m] # "*" BY <3>2, <3>3, <2>8 DEF InClass
      <3>5. GlobNext(glob, m) = Len(g[k]) + 1 BY <3>2, <3>3, <3>4, <2>8 DEF GlobNext
      <3>6. P[m] = GlobStep(glob, name, m, L[k + 1]) BY <1>5, <2>4, <3>2, <3>5
      <3>7. GlobStep(glob, name, m, L[k + 1])
              = {n \in 1..Len(name) : name[n] = "[" /\ n + 1 \in L[k + 1]}
        <4>1. m + 1..Closing(glob, m) - 1 = {m + 1} BY <3>3, <2>8
        <4> QED BY <4>1, <3>4, <3>2 DEF GlobStep
      <3>8. LikeStep(pattern, name, k, L[k + 1])
              = {n \in 1..Len(name) : name[n] = "[" /\ n + 1 \in L[k + 1]}
        BY <2>9 DEF LikeStep, c
      <3> QED BY <3>6, <3>7, <3>8, <2>6
    <2>10. ASSUME c # "[" PROVE P[m] = L[k]
      <3>1. GlobOf(c) = <<IF c = "%" THEN "*" ELSE IF c = "_" THEN "?" ELSE c>>
        BY <2>10 DEF GlobOf
      <3> DEFINE e == IF c = "%" THEN "*" ELSE IF c = "_" THEN "?" ELSE c
      <3>2. Len(GlobOf(c)) = 1 /\ GlobOf(c)[1] = e
        <4>1. GlobOf(c) = <<e>> BY <3>1
        <4> HIDE DEF e
        <4> QED BY <4>1
      <3>3. /\ Len(g[k]) = m /\ m \in 1..Len(glob)
            /\ glob[m] = IF c = "%" THEN "*" ELSE IF c = "_" THEN "?" ELSE c
        <4> HIDE DEF e
        <4>1. glob[Len(g[k - 1]) + 1] = e BY <3>2, <2>3
        <4>2. Len(g[k]) = m /\ m \in 1..Len(glob) /\ glob[m] = e
          BY <4>1, <3>2, <2>3, <2>5, <2>8, <1>4
        <4> QED BY <4>2 DEF e
      <3>4. ~InClass(glob, m) BY <3>3, <2>10 DEF InClass
      <3>5. GlobNext(glob, m) = Len(g[k]) + 1 BY <3>3, <3>4 DEF GlobNext
      <3>6. P[m] = GlobStep(glob, name, m, L[k + 1]) BY <1>5, <2>4, <3>3, <3>5
      <3>7. GlobStep(glob, name, m, L[k + 1]) = LikeStep(pattern, name, k, L[k + 1])
        <4>1. CASE c = "%" BY <4>1, <3>3 DEF GlobStep, LikeStep, c
        <4>2. CASE c = "_"
          BY <4>2, <3>3, <3>4 DEF GlobStep, LikeStep, c
        <4>3. CASE c # "%" /\ c # "_"
          <5>1. c # "*" /\ c # "?" BY <2>2 DEF GlobOnly
          <5>2. GlobStep(glob, name, m, L[k + 1])
                  = {n \in 1..Len(name) : name[n] = c /\ n + 1 \in L[k + 1]}
            BY <5>1, <4>3, <3>3, <3>4 DEF GlobStep
          <5>3. LikeStep(pattern, name, k, L[k + 1])
                  = {n \in 1..Len(name) : name[n] = c /\ n + 1 \in L[k + 1]}
            BY <4>3 DEF LikeStep, c
          <5> QED BY <5>2, <5>3
        <4> QED BY <4>1, <4>2, <4>3
      <3> QED BY <3>6, <3>7, <2>6
    <2>11. P[m] = L[k] BY <2>9, <2>10
    <2>12. P[Len(g[N - (d + 1)]) + 1] = L[N - (d + 1) + 1]
      <3>1. k - 1 + 1 = k BY <2>1
      <3> QED BY <3>1, <2>1, <2>8, <2>11
    <2> QED BY <2>1, <2>12
  <1>9. N \in S
    <2>1. 0..N \subseteq S
      <3> HIDE DEF S, N
      <3> QED BY <1>3, <1>7, <1>8, CountUp
    <2>2. N \in 0..N BY <1>3
    <2> HIDE DEF S, N
    <2> QED BY <2>1, <2>2
  <1>10. P[Len(g[0]) + 1] = L[1]
    <2>1. N - N = 0 /\ 0 + 1 = 1 BY <1>3
    <2> HIDE DEF P, L
    <2> QED BY <1>9, <2>1
  <1>11. Len(g[0]) + 1 = 1 BY <1>1
  <1> QED BY <1>10, <1>11

-----------------------------------------------------------------------------
(* Tables.  A table that was there all along is found already, or the request    *)
(* that will find it is still to come; a schema is only forgotten with its       *)
(* tables.                                                                     *)


\* A schema, and a table, the call asks for, by the filter of the code.
SchemaAsked(s) == of.catalog \in {Any, s[1]} /\ Matches(s[2], of.schema)
TableAsked(t) == SchemaAsked(t[1]) /\ Matches(t[2], of.table)

\* What there is, and was: a table is never without its schema.
Kept ==
  /\ schemas \subseteq Universe /\ tables \subseteq schemas \X Names
  /\ throughout \subseteq tables /\ tables \subseteq ever
  /\ ever \subseteq Universe \X Names
  /\ of \in Calls

\* What was found was asked for, and was there.
FoundRightly ==
  /\ \A s \in foundSchemas : s \in Universe /\ SchemaAsked(s)
  /\ \A t \in foundTables : t \in ever /\ TableAsked(t)

\* What was there all along is found, or its turn is still to come.
SchemaComing(s) == s \in foundSchemas \/ s[1] \in unasked
Coming ==
  /\ stage = "catalogs" => foundSchemas = {}
  /\ stage = "schemas" =>
       /\ \A c \in unasked : of.catalog \in {Any, c}
       /\ \A t \in throughout : SchemaAsked(t[1]) => SchemaComing(t[1])
  /\ stage = "tables" =>
       /\ unasked \subseteq foundSchemas
       /\ \A t \in throughout : TableAsked(t) => t \in foundTables \/ t[1] \in unasked
  /\ stage = "returned" /\ of.what = "tables" =>
       \A t \in throughout : TableAsked(t) => t \in foundTables

ListingInv == Kept /\ FoundRightly /\ Coming

LEMMA ListingInitHolds == ListingInit => ListingInv
  BY DEF ListingInit, ListingInv, Kept, FoundRightly, Coming

LEMMA TableOf ==
  ASSUME Kept, NEW t \in throughout
  PROVE  t \in tables /\ t[1] \in schemas /\ t[2] \in Names /\ t[1] \in Universe
         /\ t[1][1] \in Catalogs
  <1>1. t \in schemas \X Names BY DEF Kept
  <1>2. t[1] \in schemas /\ t[2] \in Names BY <1>1
  <1>3. t[1] \in Universe BY <1>2 DEF Kept
  <1>4. t[1][1] \in Catalogs BY <1>3, UniverseAssumption
  <1> QED BY <1>2, <1>3, <1>4 DEF Kept

LEMMA AskCatalogsKeeps == ASSUME ListingInv, AskCatalogs PROVE ListingInv'
  <1> USE DEF ListingInv
  <1>1. /\ stage = "catalogs" /\ stage' = "schemas"
        /\ unasked' = IF of.catalog = Any THEN Catalogs ELSE {of.catalog}
        /\ UNCHANGED <<schemas, tables, of, foundSchemas, foundTables, throughout, ever>>
    BY DEF AskCatalogs
  <1>2. Kept' BY <1>1 DEF Kept
  <1>3. FoundRightly' BY <1>1 DEF FoundRightly, SchemaAsked, TableAsked
  <1>4. ASSUME NEW t \in throughout, SchemaAsked(t[1]) PROVE t[1][1] \in unasked'
    BY <1>1, <1>4, TableOf DEF SchemaAsked
  <1>5. Coming' BY <1>1, <1>4 DEF Coming, SchemaAsked, SchemaComing
  <1> QED BY <1>2, <1>3, <1>5

LEMMA AskSchemasKeeps ==
  ASSUME ListingInv, NEW c \in Catalogs, AskSchemas(c)
  PROVE  ListingInv'
  <1> USE DEF ListingInv
  <1>1. /\ stage = "schemas" /\ c \in unasked
        /\ foundSchemas' = foundSchemas \cup
             {s \in schemas : s[1] = c /\ Matches(s[2], of.schema)}
        /\ UNCHANGED <<schemas, tables, of, foundTables, throughout, ever>>
    BY DEF AskSchemas
  <1>2. \/ unasked # {c} /\ unasked' = unasked \ {c} /\ stage' = stage
        \/ /\ unasked = {c}
           /\ unasked' = IF of.what = "tables" THEN foundSchemas' ELSE {}
           /\ stage' = IF unasked' = {} THEN "returned" ELSE "tables"
    BY DEF AskSchemas
  <1>3. Kept' BY <1>1 DEF Kept
  <1>4. FoundRightly'
    <2>1. of.catalog \in {Any, c} BY <1>1 DEF Coming
    <2> QED BY <2>1, <1>1 DEF FoundRightly, SchemaAsked, TableAsked, Kept
  <1>5. ASSUME NEW t \in throughout, SchemaAsked(t[1])
        PROVE  t[1] \in foundSchemas' \/ t[1][1] \in unasked \ {c}
    <2>1. t[1] \in schemas BY TableOf
    <2>2. t[1] \in foundSchemas \/ t[1][1] \in unasked BY <1>1, <1>5 DEF Coming, SchemaComing
    <2>3. CASE t[1][1] = c BY <2>1, <2>3, <1>1, <1>5 DEF SchemaAsked
    <2>4. CASE t[1][1] # c BY <2>2, <2>4, <1>1
    <2> QED BY <2>3, <2>4
  <1>6. Coming'
    <2>1. CASE unasked # {c} /\ unasked' = unasked \ {c} /\ stage' = stage
      BY <2>1, <1>1, <1>5 DEF Coming, SchemaAsked, SchemaComing
    <2>2. CASE /\ unasked = {c}
               /\ unasked' = IF of.what = "tables" THEN foundSchemas' ELSE {}
               /\ stage' = IF unasked' = {} THEN "returned" ELSE "tables"
      <3>1. \A t \in throughout : SchemaAsked(t[1]) => t[1] \in foundSchemas'
        BY <2>2, <1>5
      <3> QED BY <2>2, <3>1, <1>1 DEF Coming, SchemaAsked, TableAsked
    <2> QED BY <1>2, <2>1, <2>2
  <1> QED BY <1>3, <1>4, <1>6

LEMMA AskTablesKeeps ==
  ASSUME ListingInv, NEW s \in Universe, AskTables(s)
  PROVE  ListingInv'
  <1> USE DEF ListingInv
  <1>1. /\ stage = "tables" /\ s \in unasked
        /\ UNCHANGED <<schemas, tables, of, foundSchemas, throughout, ever>>
        /\ \/ /\ foundTables' = foundTables \cup
                   {t \in tables : t[1] = s /\ Matches(t[2], of.table)}
              /\ unasked' = unasked \ {s}
              /\ stage' = IF unasked' = {} THEN "returned" ELSE "tables"
           \/ stage' = "raised" /\ foundTables' = foundTables
    BY DEF AskTables
  <1>2. Kept' BY <1>1 DEF Kept
  <1>3. SchemaAsked(s) BY <1>1 DEF Coming, FoundRightly
  <1>4. FoundRightly' BY <1>1, <1>3 DEF FoundRightly, SchemaAsked, TableAsked, Kept
  <1>5. Coming'
    <2>1. CASE /\ foundTables' = foundTables \cup
                    {t \in tables : t[1] = s /\ Matches(t[2], of.table)}
               /\ unasked' = unasked \ {s}
               /\ stage' = IF unasked' = {} THEN "returned" ELSE "tables"
      <3>1. ASSUME NEW t \in throughout, TableAsked(t)
            PROVE  t \in foundTables' \/ t[1] \in unasked'
        <4>1. t \in tables BY TableOf
        <4>2. t \in foundTables \/ t[1] \in unasked BY <1>1, <3>1 DEF Coming
        <4> QED BY <4>1, <4>2, <2>1, <3>1 DEF TableAsked
      <3>2. unasked' \subseteq foundSchemas' BY <2>1, <1>1 DEF Coming
      <3> QED BY <2>1, <3>1, <3>2, <1>1 DEF Coming, SchemaAsked, TableAsked
    <2>2. CASE stage' = "raised" BY <2>2 DEF Coming
    <2> QED BY <1>1, <2>1, <2>2
  <1> QED BY <1>2, <1>4, <1>5

LEMMA AskFailsKeeps == ASSUME ListingInv, AskFails PROVE ListingInv'
  BY DEF AskFails, ListingInv, Kept, FoundRightly, Coming, SchemaAsked, TableAsked

LEMMA ChangeKeeps == ASSUME ListingInv, Change PROVE ListingInv'
  <1> USE DEF ListingInv
  <1>1. /\ throughout' = throughout \cap tables' /\ ever' = ever \cup tables'
        /\ UNCHANGED <<of, stage, unasked, foundSchemas, foundTables>>
    BY DEF Change
  <1>2. schemas' \subseteq Universe /\ tables' \subseteq schemas' \X Names
    <2>1. CASE \E s \in Universe \ schemas : schemas' = schemas \cup {s} /\ UNCHANGED tables
      BY <2>1 DEF Kept
    <2>2. CASE \E s \in schemas : /\ schemas' = schemas \ {s}
                                  /\ tables' = {t \in tables : t[1] # s}
      <3>1. PICK s \in schemas : /\ schemas' = schemas \ {s}
                                 /\ tables' = {t \in tables : t[1] # s}
        BY <2>2
      <3>2. ASSUME NEW t \in tables' PROVE t \in schemas' \X Names
        <4>1. t \in schemas \X Names /\ t[1] # s BY <3>1 DEF Kept
        <4> QED BY <4>1, <3>1
      <3> QED BY <3>1, <3>2 DEF Kept
    <2>3. CASE \E t \in (schemas \X Names) \ tables : tables' = tables \cup {t} /\ UNCHANGED schemas
      BY <2>3 DEF Kept
    <2>4. CASE \E t \in tables : tables' = tables \ {t} /\ UNCHANGED schemas
      BY <2>4 DEF Kept
    <2> QED BY <2>1, <2>2, <2>3, <2>4 DEF Change
  <1>3. Kept' BY <1>1, <1>2 DEF Kept
  <1>4. FoundRightly' BY <1>1 DEF FoundRightly, SchemaAsked, TableAsked
  <1>5. Coming' BY <1>1 DEF Coming, SchemaAsked, TableAsked, SchemaComing
  <1> QED BY <1>3, <1>4, <1>5

LEMMA ListingInductive == ListingSpec => []ListingInv
  <1>1. ASSUME ListingInv, [ListingNext]_listingVars PROVE ListingInv'
    <2>1. CASE UNCHANGED listingVars
      BY <1>1, <2>1 DEF listingVars, ListingInv, Kept, FoundRightly, Coming, SchemaAsked,
         TableAsked, SchemaComing
    <2>2. CASE ListingNext
      BY <1>1, <2>2, AskCatalogsKeeps, AskSchemasKeeps, AskTablesKeeps, AskFailsKeeps,
         ChangeKeeps DEF ListingNext
    <2> QED BY <1>1, <2>1, <2>2
  <1> QED BY ListingInitHolds, <1>1, PTL DEF ListingSpec

\* A listing of tables that returns has every table that was there all along and
\* that its filter matches, and none that was never there or that it does not match.
ListingWhole ==
  stage = "returned" /\ of.what = "tables" =>
    /\ \A t \in throughout : TableAsked(t) => t \in foundTables
    /\ \A t \in foundTables : t \in ever /\ TableAsked(t)

\* Whatever the patterns, and whatever is created and dropped between the requests of
\* Cursor.tables, the listing that returns is whole (_metadata.py 39-104).
THEOREM ListsAllAlong == ListingSpec => []ListingWhole
  <1>1. ListingInv => ListingWhole BY DEF ListingInv, Coming, FoundRightly, ListingWhole
  <1> QED BY <1>1, ListingInductive, PTL

\* Without the glob's own characters the filter is LIKE.
LEMMA MatchesIsLike ==
  ASSUME NEW name \in Seq(Letters), NEW pattern \in Seq(Letters) \cup {Any},
         \A p \in {pattern} \ {Any} : \A n \in 1..Len(p) : p[n] \notin GlobOnly
  PROVE  Matches(name, pattern) <=> Like(name, pattern)
  <1>1. CASE pattern = Any BY <1>1 DEF Matches, Like
  <1>2. CASE pattern # Any
    <2>1. pattern \in Seq(Letters) /\ \A k \in 1..Len(pattern) : pattern[k] \notin GlobOnly
      BY <1>2
    <2>2. 1 \in GlobPlaces(Glob(pattern), name)[1] <=> 1 \in LikePlaces(pattern, name)[1]
      BY <2>1, SamePlaces
    <2> QED BY <1>2, <2>2 DEF Matches, FitsGlob, Like
  <1> QED BY <1>1, <1>2

LEMMA AskedIsMeant ==
  ASSUME Kept, ~HasGlobOnly, NEW t \in ever
  PROVE  TableAsked(t) <=> /\ of.catalog \in {Any, t[1][1]}
                           /\ Like(t[1][2], of.schema) /\ Like(t[2], of.table)
  <1>1. t \in Universe \X Names BY DEF Kept
  <1>2. t[1] \in Universe /\ t[2] \in Names BY <1>1
  <1>3. t[1][2] \in Seq(Letters) /\ t[2] \in Seq(Letters) BY <1>2, UniverseAssumption
  <1>4. of.schema \in Seq(Letters) \cup {Any} /\ of.table \in Seq(Letters) \cup {Any}
    BY UniverseAssumption DEF Kept
  <1>5. \A p \in {of.schema, of.table} \ {Any} : \A n \in 1..Len(p) : p[n] \notin GlobOnly
    BY DEF HasGlobOnly
  <1>6. Matches(t[1][2], of.schema) <=> Like(t[1][2], of.schema)
    BY <1>3, <1>4, <1>5, MatchesIsLike
  <1>7. Matches(t[2], of.table) <=> Like(t[2], of.table)
    BY <1>3, <1>4, <1>5, MatchesIsLike
  <1> QED BY <1>6, <1>7 DEF TableAsked, SchemaAsked

\* A listing of tables whose patterns hold no character of the glob's own has every
\* table LIKE means that was there all along, and none it does not mean or that was
\* never there, for any names, patterns and changes meanwhile (_metadata.py 18-104).
THEOREM ListsExactly == ListingSpec => []ListingExact
  <1>1. ASSUME ListingInv PROVE ListingExact
    <2> SUFFICES ASSUME stage = "returned", of.what = "tables", ~HasGlobOnly PROVE Exact
      BY DEF ListingExact
    <2>1. Kept /\ ListingWhole BY <1>1 DEF ListingInv, Coming, FoundRightly, ListingWhole
    <2>2. throughout \subseteq ever BY <2>1 DEF Kept
    <2>3. Meant(throughout) \subseteq foundTables
      BY <2>1, <2>2, AskedIsMeant DEF Meant, ListingWhole
    <2>4. foundTables \subseteq Meant(ever)
      BY <2>1, AskedIsMeant DEF Meant, ListingWhole
    <2> QED BY <2>3, <2>4 DEF Exact
  <1> QED BY <1>1, ListingInductive, PTL

-----------------------------------------------------------------------------
(* Parameters.  How a text is read. *)

Enclosures == {"code", "string", "name", "line", "opening", "block", "star"}

\* What encloses a character is one of these.
LEMMA EnclosesType == \A in \in Enclosures : \A c, next : Encloses(in, c, next) \in Enclosures
  BY DEF Encloses, Enclosures

\* The characters that matter to SQL differ.
LEMMA Marks ==
  /\ Quote # NameQuote /\ Quote # "-" /\ Quote # "/" /\ Quote # "*" /\ Quote # "?"
  /\ NameQuote # "-" /\ NameQuote # "/" /\ NameQuote # "*" /\ NameQuote # "?"
  /\ Newline # Quote /\ Newline # NameQuote /\ Newline # "-" /\ Newline # "/"
  /\ Newline # "*" /\ Newline # "?"
  <1>1. Quote # NameQuote /\ Newline # Quote /\ Newline # NameQuote
    BY Zenon DEF Quote, NameQuote, Newline
  <1>2. Quote # "-" /\ Quote # "/" /\ Quote # "*" /\ Quote # "?" BY Zenon DEF Quote
  <1>3. NameQuote # "-" /\ NameQuote # "/" /\ NameQuote # "*" /\ NameQuote # "?"
    BY Zenon DEF NameQuote
  <1>4. Newline # "-" /\ Newline # "/" /\ Newline # "*" /\ Newline # "?" BY Zenon DEF Newline
  <1> QED BY <1>1, <1>2, <1>3, <1>4

\* Encloses, a state and a character at a time.
LEMMA Steps ==
  ASSUME NEW c, NEW next
  PROVE  /\ Encloses("code", Quote, next) = "string"
         /\ Encloses("code", NameQuote, next) = "name"
         /\ Encloses("code", "-", next) = IF next = "-" THEN "line" ELSE "code"
         /\ Encloses("code", "/", next) = IF next = "*" THEN "opening" ELSE "code"
         /\ c \notin {Quote, NameQuote, "-", "/"} => Encloses("code", c, next) = "code"
         /\ Encloses("string", c, next) = IF c = Quote THEN "code" ELSE "string"
         /\ Encloses("name", c, next) = IF c = NameQuote THEN "code" ELSE "name"
         /\ Encloses("line", c, next) = IF c = Newline THEN "code" ELSE "line"
         /\ Encloses("opening", c, next) = "block"
         /\ Encloses("block", c, next) = IF c = "*" THEN "star" ELSE "block"
         /\ c \notin {"/", "*"} => Encloses("star", c, next) = "block"
         /\ Encloses("star", "/", next) = "code" /\ Encloses("star", "*", next) = "star"
  BY Marks DEF Encloses

\* Only behind a minus or a slash in code does the character behind matter.
LEMMA LooksAhead ==
  ASSUME NEW in, NEW c, NEW next, NEW other, in # "code" \/ c \notin {"-", "/"} \/ next = other
  PROVE  Encloses(in, c, next) = Encloses(in, c, other)
  BY DEF Encloses

Ahead(text, n) == IF n < Len(text) THEN text[n + 1] ELSE Newline

\* Reading goes from one character to the next.
LEMMA ReadingUnfolds ==
  ASSUME NEW text \in Seq(Alphabet)
  PROVE  /\ Reading(text) \in [1..Len(text) + 1 -> Enclosures]
         /\ Reading(text)[1] = "code"
         /\ \A n \in 1..Len(text) :
              Reading(text)[n + 1] = Encloses(Reading(text)[n], text[n], Ahead(text, n))
  <1> DEFINE N == Len(text)
             h == [n \in 1..N |-> [in \in Enclosures |-> Encloses(in, text[n], Ahead(text, n))]]
  <1>1. N \in Nat /\ "code" \in Enclosures BY DEF Enclosures
  <1>2. h \in [1..N -> [Enclosures -> Enclosures]] BY EnclosesType
  <1>3. PICK g \in [1..N + 1 -> Enclosures] :
          g[1] = "code" /\ \A m \in 1..N : g[m + 1] = h[m][g[m]]
    <2> HIDE DEF N, h
    <2>1. Reachable(N, Enclosures, "code", h) BY <1>1, <1>2, Upward
    <2> QED BY <2>1 DEF Reachable
  <1>4. ASSUME NEW n \in 1..N PROVE g[n + 1] = Encloses(g[n], text[n], Ahead(text, n))
    <2>1. n \in 1..N + 1 OBVIOUS
    <2>2. g[n] \in Enclosures BY <2>1
    <2>3. h[n][g[n]] = Encloses(g[n], text[n], Ahead(text, n)) BY <2>2
    <2> QED BY <2>3, <1>3
  <1>5. g = [n \in 1..Len(text) + 1 |->
               IF n = 1 THEN "code"
               ELSE Encloses(g[n - 1], text[n - 1],
                             IF n <= Len(text) THEN text[n] ELSE Newline)]
    <2> SUFFICES ASSUME NEW n \in 1..Len(text) + 1
                 PROVE  g[n] = IF n = 1 THEN "code"
               ELSE Encloses(g[n - 1], text[n - 1],
                             IF n <= Len(text) THEN text[n] ELSE Newline)
      BY <1>3
    <2>1. CASE n = 1 BY <2>1, <1>3
    <2>2. CASE n # 1
      <3>1. n - 1 \in 1..N /\ n - 1 + 1 = n /\ (n - 1 < Len(text) <=> n <= Len(text)) BY <2>2
      <3>2. Ahead(text, n - 1) = IF n <= Len(text) THEN text[n] ELSE Newline BY <3>1 DEF Ahead
      <3>3. g[n - 1 + 1] = Encloses(g[n - 1], text[n - 1], Ahead(text, n - 1)) BY <3>1, <1>4
      <3> QED BY <3>1, <3>2, <3>3, <2>2
    <2> QED BY <2>1, <2>2
  <1> DEFINE r == Reading(text)
  <1>6. r = [n \in 1..Len(text) + 1 |->
               IF n = 1 THEN "code"
               ELSE Encloses(r[n - 1], text[n - 1],
                             IF n <= Len(text) THEN text[n] ELSE Newline)]
    BY <1>5, Zenon DEF Reading
  <1> HIDE DEF r
  <1>7. r[1] = "code" BY <1>6, <1>1
  <1>8. ASSUME NEW n \in 1..N PROVE r[n + 1] = Encloses(r[n], text[n], Ahead(text, n))
    <2>1. n + 1 \in 1..Len(text) + 1 /\ n + 1 # 1 /\ n + 1 - 1 = n
          /\ (n + 1 <= Len(text) <=> n < Len(text)) BY <1>1
    <2>2. Ahead(text, n) = IF n + 1 <= Len(text) THEN text[n + 1] ELSE Newline BY <2>1 DEF Ahead
    <2>3. r[n + 1] = Encloses(r[n + 1 - 1], text[n + 1 - 1],
                              IF n + 1 <= Len(text) THEN text[n + 1] ELSE Newline)
      BY <2>1, <1>6
    <2> QED BY <2>1, <2>2, <2>3
  <1>9. ASSUME NEW n \in 1..N + 1 PROVE r[n] \in Enclosures
    <2> DEFINE S == {k \in 0..N : r[k + 1] \in Enclosures}
    <2>1. 0 \in S BY <1>1, <1>7
    <2>2. ASSUME NEW k \in 0..N, k \in S, k < N PROVE k + 1 \in S
      <3>1. k + 1 \in 1..N /\ k + 1 \in 0..N BY <2>2
      <3>2. r[k + 1 + 1] = Encloses(r[k + 1], text[k + 1], Ahead(text, k + 1)) BY <3>1, <1>8
      <3>3. r[k + 1] \in Enclosures BY <2>2
      <3> QED BY <3>1, <3>2, <3>3, EnclosesType
    <2> HIDE DEF S, N
    <2>3. 0..N \subseteq S BY <1>1, <2>1, <2>2, CountUp
    <2>4. n - 1 \in 0..N /\ n - 1 + 1 = n BY <1>1
    <2> QED BY <2>3, <2>4 DEF S
  <1>10. r \in [1..N + 1 -> Enclosures]
    <2>1. DOMAIN r = 1..N + 1 /\ r = [n \in 1..N + 1 |-> r[n]]
      BY <1>6
    <2> QED BY <2>1, <1>9
  <1> QED BY <1>7, <1>8, <1>10 DEF r

-----------------------------------------------------------------------------
(* What a value is written as. *)

Values == {v \in [kind : {"text", "plain"}, chars : Seq(Alphabet)] : v.kind = "plain" => StandsAlone(v.chars)}

Doubled(chars) ==
  [n \in 1..Len(chars) |-> IF chars[n] = Quote THEN <<Quote, Quote>> ELSE <<chars[n]>>]

\* A quote is a character.
LEMMA QuoteIs == Quote \in Alphabet
  BY BindingAssumption, SMTT(40)

\* A string's literal is its characters between quotes, each quote of them doubled.
LEMMA LiteralUnfolds ==
  ASSUME NEW v \in Values, v.kind = "text"
  PROVE  \E d : /\ Assembles(d, Len(v.chars), Doubled(v.chars))
                /\ Literal(v) = <<Quote>> \o d[Len(v.chars)] \o <<Quote>>
  <1> DEFINE N == Len(v.chars)
             h == Doubled(v.chars)
  <1>1. N \in Nat BY DEF Values
  <1>2. PICK g : g = [k \in 0..N |-> IF k = 0 THEN <<>> ELSE g[k - 1] \o h[k]]
    <2> HIDE DEF N, h
    <2> QED BY <1>1, Concatenated
  <1>3. ASSUME NEW g1
        PROVE  g1 = [k \in 0..N |-> IF k = 0 THEN <<>> ELSE g1[k - 1] \o h[k]]
                 <=> g1 = [n \in 0..Len(v.chars) |->
                             IF n = 0 THEN <<>>
                             ELSE g1[n - 1] \o IF v.chars[n] = Quote THEN <<Quote, Quote>>
                                               ELSE <<v.chars[n]>>]
    <2>1. \A n \in 0..N : n # 0 =>
            h[n] = IF v.chars[n] = Quote THEN <<Quote, Quote>> ELSE <<v.chars[n]>>
      BY <1>1 DEF Doubled
    <2> HIDE DEF h
    <2> QED BY <2>1
  <1>4. \E d : /\ d = [n \in 0..Len(v.chars) |->
                         IF n = 0 THEN <<>>
                         ELSE d[n - 1] \o IF v.chars[n] = Quote THEN <<Quote, Quote>>
                                          ELSE <<v.chars[n]>>]
               /\ Literal(v) = IF v.kind = "text"
                               THEN <<Quote>> \o d[Len(v.chars)] \o <<Quote>> ELSE v.chars
    <2>1. g = [n \in 0..Len(v.chars) |->
                 IF n = 0 THEN <<>>
                 ELSE g[n - 1] \o IF v.chars[n] = Quote THEN <<Quote, Quote>>
                                  ELSE <<v.chars[n]>>]
      BY <1>2, <1>3
    <2> DEFINE dd == CHOOSE d : d = [n \in 0..Len(v.chars) |->
                         IF n = 0 THEN <<>>
                         ELSE d[n - 1] \o IF v.chars[n] = Quote THEN <<Quote, Quote>>
                                          ELSE <<v.chars[n]>>]
    <2>2. dd = [n \in 0..Len(v.chars) |->
                 IF n = 0 THEN <<>>
                 ELSE dd[n - 1] \o IF v.chars[n] = Quote THEN <<Quote, Quote>>
                                  ELSE <<v.chars[n]>>]
      BY <2>1, Zenon
    <2>3. Literal(v) = IF v.kind = "text"
                       THEN <<Quote>> \o dd[Len(v.chars)] \o <<Quote>> ELSE v.chars
      BY Zenon DEF Literal
    <2> HIDE DEF dd
    <2> QED BY <2>2, <2>3
  <1> QED BY <1>3, <1>4 DEF Assembles

\* What each character of a string is written as.
LEMMA DoubledType ==
  ASSUME NEW chars \in Seq(Alphabet)
  PROVE  Doubled(chars) \in [1..Len(chars) -> Seq(Alphabet)]
  <1> SUFFICES ASSUME NEW n \in 1..Len(chars) PROVE Doubled(chars)[n] \in Seq(Alphabet)
    BY DEF Doubled
  <1>1. chars[n] \in Alphabet OBVIOUS
  <1>2. <<Quote, Quote>> \in Seq(Alphabet) /\ <<chars[n]>> \in Seq(Alphabet) BY <1>1, QuoteIs
  <1> QED BY <1>2 DEF Doubled

\* A string's literal, character by character.
LEMMA LiteralOfText ==
  ASSUME NEW v \in Values, v.kind = "text"
  PROVE  \E d : /\ Assembles(d, Len(v.chars), Doubled(v.chars))
                /\ LET L == Literal(v)
                       D == d[Len(v.chars)]
                   IN  /\ D \in Seq(Alphabet) /\ L \in Seq(Alphabet) /\ Len(L) = Len(D) + 2
                       /\ L[1] = Quote /\ L[Len(D) + 2] = Quote
                       /\ \A i \in 1..Len(D) : L[i + 1] = D[i]
  <1>1. PICK d : /\ Assembles(d, Len(v.chars), Doubled(v.chars))
                 /\ Literal(v) = <<Quote>> \o d[Len(v.chars)] \o <<Quote>>
    BY LiteralUnfolds
  <1> DEFINE D == d[Len(v.chars)]
             q == <<Quote>>
  <1>2. v.chars \in Seq(Alphabet) /\ Len(v.chars) \in Nat BY DEF Values
  <1>3. D \in Seq(Alphabet)
    <2>1. Len(v.chars) \in 0..Len(v.chars) BY <1>2
    <2>2. Placed(d, Len(v.chars), Doubled(v.chars), Alphabet)
      BY <1>1, <1>2, DoubledType, Assembled
    <2> QED BY <2>1, <2>2 DEF Placed
  <1>4. q \in Seq(Alphabet) /\ Len(q) = 1 /\ q[1] = Quote BY QuoteIs
  <1>5. Literal(v) = (q \o D) \o q BY <1>1
  <1> HIDE DEF D, q
  <1> DEFINE s == q \o D
             L == s \o q
  <1>6. /\ s \in Seq(Alphabet) /\ Len(s) = 1 + Len(D)
        /\ \A i \in 1..Len(q) : s[i] = q[i]
        /\ \A i \in 1..Len(D) : s[Len(q) + i] = D[i]
    <2>1. /\ s \in Seq(Alphabet) /\ Len(s) = Len(q) + Len(D)
          /\ \A i \in 1..Len(q) : s[i] = q[i]
          /\ \A i \in 1..Len(D) : s[Len(q) + i] = D[i]
      <3>1. q \in Seq(Alphabet) BY <1>4
      <3> QED BY <1>3, <3>1, ConcatAt
    <2> HIDE DEF s
    <2> QED BY <1>4, <2>1
  <1> HIDE DEF s
  <1>7. /\ L \in Seq(Alphabet) /\ Len(L) = Len(s) + 1
        /\ \A i \in 1..Len(s) : L[i] = s[i]
        /\ \A i \in 1..Len(q) : L[Len(s) + i] = q[i]
    <2>1. /\ L \in Seq(Alphabet) /\ Len(L) = Len(s) + Len(q)
          /\ \A i \in 1..Len(s) : L[i] = s[i]
          /\ \A i \in 1..Len(q) : L[Len(s) + i] = q[i]
      BY <1>4, <1>6, ConcatAt, SMTT(60)
    <2> HIDE DEF L
    <2> QED BY <1>4, <2>1
  <1> HIDE DEF L
  <1>8. Len(D) \in Nat BY <1>3
  <1>9. Len(L) = Len(D) + 2 BY <1>6, <1>7, <1>8
  <1>10. L[1] = Quote /\ L[Len(D) + 2] = Quote
    <2>1. 1 \in 1..Len(q) /\ 1 \in 1..Len(s) /\ Len(s) + 1 = Len(D) + 2 BY <1>4, <1>6, <1>8
    <2> QED BY <2>1, <1>4, <1>6, <1>7
  <1>11. ASSUME NEW i \in 1..Len(D) PROVE L[i + 1] = D[i]
    <2>1. Len(q) + i = i + 1 /\ i + 1 \in 1..Len(s) BY <1>4, <1>6, <1>8
    <2> QED BY <2>1, <1>6, <1>7
  <1>12. Literal(v) = L BY <1>5 DEF L, s
  <1> QED BY <1>1, <1>3, <1>7, <1>9, <1>10, <1>11, <1>12 DEF D

\* A value is written as something, and never begins with a star.
LEMMA LiteralType ==
  ASSUME NEW v \in Values
  PROVE  /\ Literal(v) \in Seq(Alphabet) /\ Len(Literal(v)) >= 1 /\ Literal(v)[1] # "*"
  <1>1. CASE v.kind = "text"
    <2>1. PICK d : LET L == Literal(v)
                       D == d[Len(v.chars)]
                   IN  /\ D \in Seq(Alphabet) /\ L \in Seq(Alphabet) /\ Len(L) = Len(D) + 2
                       /\ L[1] = Quote
      BY <1>1, LiteralOfText
    <2> QED BY <2>1, Marks
  <1>2. CASE v.kind # "text"
    <2>1. Literal(v) = v.chars BY <1>2, Zenon DEF Literal
    <2> QED BY <1>2, <2>1 DEF Values, StandsAlone
  <1> QED BY <1>1, <1>2

\* Where a value is written in code, code goes on behind it.
LEMMA ReadsOver ==
  ASSUME NEW v \in Values, NEW text \in Seq(Alphabet), NEW p \in Nat,
         p + Len(Literal(v)) <= Len(text),
         \A i \in 1..Len(Literal(v)) : text[p + i] = Literal(v)[i],
         Reading(text)[p + 1] = "code"
  PROVE  Reading(text)[p + Len(Literal(v)) + 1] = "code"
  <1> DEFINE r == Reading(text)
             L == Literal(v)
  <1>1. /\ L \in Seq(Alphabet) /\ Len(L) \in Nat /\ Len(L) >= 1 /\ Len(text) \in Nat
    BY LiteralType
  <1>2. /\ p + Len(L) <= Len(text) /\ r[p + 1] = "code"
        /\ \A i \in 1..Len(L) : text[p + i] = L[i]
    OBVIOUS
  <1>3. \A n, k : n \in 1..Len(text) /\ k = n + 1
                    => r[k] = Encloses(r[n], text[n], Ahead(text, n))
    BY ReadingUnfolds
  <1>4. v.chars \in Seq(Alphabet) /\ Len(v.chars) \in Nat BY DEF Values
  <1> HIDE DEF r
  <1>5. CASE v.kind = "text"
    <2>1. PICK d : /\ Assembles(d, Len(v.chars), Doubled(v.chars))
                   /\ LET D == d[Len(v.chars)]
                      IN  /\ D \in Seq(Alphabet) /\ Len(L) = Len(D) + 2
                          /\ L[1] = Quote /\ L[Len(D) + 2] = Quote
                          /\ \A i \in 1..Len(D) : L[i + 1] = D[i]
      BY <1>5, LiteralOfText
    <2> DEFINE N == Len(v.chars)
               h == Doubled(v.chars)
               D == d[N]
    <2>2. /\ d[0] = <<>>
          /\ \A k \in 0..N : d[k] \in Seq(Alphabet)
          /\ \A k \in 0..N : Len(d[k]) <= Len(D)
          /\ \A j \in 0..N : \A k \in 1..N : k = j + 1 =>
               /\ Len(d[k]) = Len(d[j]) + Len(h[k])
               /\ \A i \in 1..Len(h[k]) : D[Len(d[j]) + i] = h[k][i]
      <3>1. h \in [1..N -> Seq(Alphabet)] BY <1>4, DoubledType
      <3> HIDE DEF h, N
      <3>2. N \in Nat BY <1>4 DEF N
      <3>3. Assembles(d, N, h) BY <2>1 DEF N, h
      <3>4. Placed(d, N, h, Alphabet) BY <3>1, <3>2, <3>3, Assembled
      <3> QED BY <3>4 DEF Placed
    <2>3. D \in Seq(Alphabet) /\ Len(D) \in Nat /\ Len(L) = Len(D) + 2 BY <2>1
    <2>4. text[p + 1] = Quote /\ text[p + Len(D) + 2] = Quote
      <3>1. 1 \in 1..Len(L) /\ Len(D) + 2 \in 1..Len(L) BY <2>3
      <3>2. text[p + (Len(D) + 2)] = L[Len(D) + 2] /\ text[p + 1] = L[1] BY <3>1, <1>2
      <3>3. p + (Len(D) + 2) = p + Len(D) + 2 BY <2>3, SMTT(60)
      <3> QED BY <3>2, <3>3, <2>1
    <2>5. \A i \in 1..Len(D) : text[p + 1 + i] = D[i]
      <3> TAKE i \in 1..Len(D)
      <3>1. i + 1 \in 1..Len(L) /\ p + (i + 1) = p + 1 + i BY <2>3, SMTT(40)
      <3>2. text[p + (i + 1)] = L[i + 1] BY <3>1, <1>2
      <3>3. L[i + 1] = D[i] BY <2>1
      <3> QED BY <3>1, <3>2, <3>3
    <2>6. r[p + 2] = "string"
      <3>1. p + 1 \in 1..Len(text) /\ p + 2 = p + 1 + 1 BY <1>2, <2>3, SMTT(60)
      <3>2. r[p + 2] = Encloses(r[p + 1], text[p + 1], Ahead(text, p + 1)) BY <3>1, <1>3
      <3> QED BY <3>2, <2>4, <1>2, Steps
    <2> DEFINE S == {k \in 0..N : r[p + 2 + Len(d[k])] = "string"}
    <2>7. 0 \in S
      <3>1. Len(d[0]) = 0 /\ 0 \in 0..N /\ p + 2 + 0 = p + 2 BY <2>2, <1>4
      <3> QED BY <3>1, <2>6
    <2>8. ASSUME NEW k \in 0..N, k \in S, k < N PROVE k + 1 \in S
      <3> DEFINE a == Len(d[k])
                 b == Len(d[k + 1])
                 c == v.chars[k + 1]
      <3>1. k + 1 \in 1..N /\ k + 1 \in 0..N BY <2>8
      <3>2. a \in Nat /\ b \in Nat /\ a <= Len(D) /\ b <= Len(D) BY <3>1, <2>2, SMTT(40)
      <3>3. /\ b = a + Len(h[k + 1])
            /\ \A i \in 1..Len(h[k + 1]) : D[a + i] = h[k + 1][i]
        <4> HIDE DEF h, D, N, S
        <4> QED BY <2>2, <3>1, Zenon
      <3>4. h[k + 1] = IF c = Quote THEN <<Quote, Quote>> ELSE <<c>> BY <3>1 DEF Doubled
      <3>5. r[p + 2 + a] = "string" BY <2>8
      <3> HIDE DEF a, b, c, h, S, D, N, L
      <3>6. p + Len(D) + 2 <= Len(text) BY <1>2, <2>3
      <3>7. CASE c = Quote
        <4>1. Len(h[k + 1]) = 2 /\ h[k + 1][1] = Quote /\ h[k + 1][2] = Quote BY <3>4, <3>7
        <4>2. b = a + 2 /\ D[a + 1] = Quote /\ D[a + 2] = Quote BY <3>3, <4>1
        <4>3. a + 1 \in 1..Len(D) /\ a + 2 \in 1..Len(D) BY <3>2, <4>2, <2>3
        <4>4. /\ text[p + 2 + a] = Quote /\ text[p + 3 + a] = Quote
          <5>1. p + 1 + (a + 1) = p + 2 + a /\ p + 1 + (a + 2) = p + 3 + a BY <3>2
          <5> QED BY <5>1, <4>2, <4>3, <2>5
        <4>5. /\ p + 2 + a \in 1..Len(text) /\ p + 3 + a \in 1..Len(text)
              /\ p + 3 + a = p + 2 + a + 1 /\ p + 2 + b = p + 3 + a + 1
          BY <3>2, <3>6, <4>2, <2>3
        <4>6. r[p + 3 + a] = "code" BY <4>4, <4>5, <1>3, <3>5, Steps
        <4>7. r[p + 2 + b] = "string" BY <4>4, <4>5, <4>6, <1>3, Steps
        <4> QED BY <4>7, <3>1 DEF S, b
      <3>8. CASE c # Quote
        <4>1. Len(h[k + 1]) = 1 /\ h[k + 1][1] = c BY <3>4, <3>8
        <4>2. b = a + 1 /\ D[a + 1] = c BY <3>3, <4>1
        <4>3. a + 1 \in 1..Len(D) BY <3>2, <4>2, <2>3
        <4>4. text[p + 2 + a] = c
          <5>1. p + 1 + (a + 1) = p + 2 + a BY <3>2
          <5> QED BY <5>1, <4>2, <4>3, <2>5
        <4>5. p + 2 + a \in 1..Len(text) /\ p + 2 + b = p + 2 + a + 1
          BY <3>2, <3>6, <4>2, <2>3
        <4>6. r[p + 2 + b] = "string" BY <4>4, <4>5, <1>3, <3>5, <3>8, Steps
        <4> QED BY <4>6, <3>1 DEF S, b
      <3> QED BY <3>7, <3>8
    <2>9. r[p + 2 + Len(D)] = "string"
      <3> HIDE DEF S, N
      <3>1. N \in Nat BY <1>4 DEF N
      <3>2. 0..N \subseteq S BY <3>1, <2>7, <2>8, CountUp
      <3>3. N \in S BY <3>1, <3>2
      <3> QED BY <3>3 DEF S
    <2>10. /\ p + 2 + Len(D) \in 1..Len(text) /\ p + Len(D) + 2 = p + 2 + Len(D)
           /\ p + Len(L) + 1 = p + 2 + Len(D) + 1
      <3> HIDE DEF L, D
      <3> QED BY <1>2, <1>1, <2>3
    <2>11. r[p + Len(L) + 1] = "code"
      <3> HIDE DEF L, D
      <3> QED BY <2>4, <2>9, <2>10, <1>3, Steps
    <2> QED BY <2>11 DEF r
  <1>6. CASE v.kind # "text"
    <2> DEFINE q == Reading(L)
    <2>1. L = v.chars BY <1>6, Zenon DEF Literal
    <2>2. StandsAlone(v.chars) BY <1>6 DEF Values
    <2>3. L[Len(L)] \notin {"-", "/"} /\ q[Len(L) + 1] = "code" BY <2>1, <2>2 DEF StandsAlone
    <2>4. /\ q[1] = "code"
          /\ \A n, k : n \in 1..Len(L) /\ k = n + 1
                    => q[k] = Encloses(q[n], L[n], Ahead(L, n))
      BY <1>1, ReadingUnfolds
    <2> HIDE DEF L, q
    <2> DEFINE S == {k \in 0..Len(L) : r[p + k + 1] = q[k + 1]}
    <2>5. 0 \in S BY <1>1, <1>2, <2>4
    <2>10. \A k \in 0..Len(L) : k \in S <=> r[p + k + 1] = q[k + 1] OBVIOUS
    <2> HIDE DEF S
    <2>6. ASSUME NEW k \in 0..Len(L), k \in S, k < Len(L) PROVE k + 1 \in S
      <3> DEFINE n == k + 1
      <3>1. /\ n \in 1..Len(L) /\ n \in 0..Len(L) /\ p + n \in 1..Len(text)
            /\ p + k + 1 = p + n
        BY <1>1, <1>2, <2>6
      <3>2. text[p + n] = L[n] BY <3>1, <1>2
      <3>3. r[p + n] = q[n] BY <2>6, <2>10, <3>1
      <3>4. /\ r[p + n + 1] = Encloses(r[p + n], text[p + n], Ahead(text, p + n))
            /\ q[n + 1] = Encloses(q[n], L[n], Ahead(L, n))
        <4> HIDE DEF n
        <4> QED BY <3>1, <1>3, <2>4
      <3>5. CASE n = Len(L)
        <4> HIDE DEF n
        <4>1. Encloses(q[n], L[n], Ahead(text, p + n)) = Encloses(q[n], L[n], Ahead(L, n))
          BY <2>3, <3>5, LooksAhead
        <4>2. r[p + n + 1] = q[n + 1] BY <4>1, <3>2, <3>3, <3>4
        <4>3. n \in S BY <4>2, <3>1, <2>10
        <4> QED BY <4>3 DEF n
      <3>6. CASE n # Len(L)
        <4>1. n + 1 \in 1..Len(L) /\ n < Len(L) /\ p + n < Len(text) /\ p + n + 1 = p + (n + 1)
          BY <1>1, <1>2, <3>1, <3>6
        <4>2. text[p + (n + 1)] = L[n + 1] BY <4>1, <1>2
        <4>3. Ahead(text, p + n) = Ahead(L, n) BY <4>1, <4>2 DEF Ahead
        <4> HIDE DEF n
        <4>4. r[p + n + 1] = q[n + 1] BY <4>3, <3>2, <3>3, <3>4
        <4>5. n \in S BY <4>4, <3>1, <2>10
        <4> QED BY <4>5 DEF n
      <3> QED BY <3>5, <3>6
    <2>7. 0..Len(L) \subseteq S BY <1>1, <2>5, <2>6, CountUp
    <2>8. Len(L) \in S BY <1>1, <2>7
    <2>9. r[p + Len(L) + 1] = "code" BY <1>1, <2>3, <2>8, <2>10
    <2> QED BY <2>9 DEF r, L
  <1> QED BY <1>5, <1>6

-----------------------------------------------------------------------------
(* The text with a value in each place. *)

Counted(n) == Cardinality({p \in Places : p < n})

Piece(k) ==
  IF k \in Places THEN Literal(parameters[Cardinality({p \in Places : p <= k})]) ELSE <<sql[k]>>

PiecesOf == [k \in 1..Len(sql) |-> Piece(k)]

\* The places are the question marks in code.
LEMMA PlacesType ==
  ASSUME sql \in Seq(Alphabet)
  PROVE  /\ Places \subseteq 1..Len(sql) /\ IsFiniteSet(Places)
         /\ \A n \in Places : sql[n] = "?" /\ Reading(sql)[n] = "code"
         /\ \A n \in 1..Len(sql) : sql[n] = "?" /\ Reading(sql)[n] = "code" => n \in Places
  <1>1. Len(sql) \in Nat OBVIOUS
  <1>2. Places = {n \in 1..Len(sql) : sql[n] = "?" /\ Reading(sql)[n] = "code"} BY Zenon DEF Places
  <1>3. IsFiniteSet(1..Len(sql)) BY <1>1, FS_Interval
  <1>4. Places \subseteq 1..Len(sql) BY <1>2
  <1>5. IsFiniteSet(Places) BY <1>3, <1>4, FS_Subset
  <1> QED BY <1>2, <1>4, <1>5

\* The place at k is the next one to be counted.
LEMMA CountsOne ==
  ASSUME sql \in Seq(Alphabet), NEW k \in Nat, NEW j \in Nat, j = k + 1
  PROVE  /\ Counted(k) \in Nat /\ Counted(k) <= Cardinality(Places)
         /\ Cardinality(Places) \in Nat
         /\ {p \in Places : p <= k} = {p \in Places : p < j}
         /\ k \in Places => Counted(j) = Counted(k) + 1
         /\ k \notin Places => Counted(j) = Counted(k)
  <1> DEFINE A == {p \in Places : p < k}
             B == {p \in Places : p < j}
  <1>1. Places \subseteq Nat /\ IsFiniteSet(Places)
    <2>1. 1..Len(sql) \subseteq Nat OBVIOUS
    <2> QED BY <2>1, PlacesType
  <1>2. A \subseteq Places /\ k \notin A BY <1>1
  <1>3. IsFiniteSet(A) /\ Cardinality(A) <= Cardinality(Places) BY <1>1, <1>2, FS_Subset
  <1>4. Cardinality(A) \in Nat /\ Cardinality(Places) \in Nat
    BY <1>1, <1>3, FS_CardinalityType
  <1>5. {p \in Places : p <= k} = B
    <2>1. \A p \in Nat : p <= k <=> p < j OBVIOUS
    <2> QED BY <2>1, <1>1
  <1>6. ASSUME k \in Places PROVE Cardinality(B) = Cardinality(A) + 1
    <2>1. \A p \in Nat : p < j <=> p < k \/ p = k OBVIOUS
    <2>2. B = A \cup {k} BY <2>1, <1>1, <1>6
    <2> HIDE DEF A, B
    <2> QED BY <2>2, <1>2, <1>3, FS_AddElement
  <1>7. ASSUME k \notin Places PROVE A = B
    <2>1. \A p \in Nat : p < j <=> p < k \/ p = k OBVIOUS
    <2> QED BY <2>1, <1>1, <1>7
  <1> QED BY <1>3, <1>4, <1>5, <1>6, <1>7 DEF Counted

\* What is expected is put together from its pieces.
LEMMA ExpectedUnfolds ==
  ASSUME sql \in Seq(Alphabet)
  PROVE  \E e : /\ Assembles(e, Len(sql), PiecesOf)
                /\ \A n : Expected(n) = e[n]
  <1> DEFINE N == Len(sql)
             h == PiecesOf
  <1>1. N \in Nat OBVIOUS
  <1>2. PICK g : g = [k \in 0..N |-> IF k = 0 THEN <<>> ELSE g[k - 1] \o h[k]]
    <2> HIDE DEF N, h
    <2> QED BY <1>1, Concatenated
  <1>3. ASSUME NEW f
        PROVE  f = [k \in 0..N |-> IF k = 0 THEN <<>> ELSE f[k - 1] \o h[k]]
                 <=> f = [k \in 0..Len(sql) |->
                            IF k = 0 THEN <<>>
                            ELSE f[k - 1] \o
                              IF k \in Places
                                THEN Literal(parameters[Cardinality({p \in Places : p <= k})])
                                ELSE <<sql[k]>>]
    <2>1. \A k \in 0..N : k # 0 =>
            h[k] = IF k \in Places
                     THEN Literal(parameters[Cardinality({p \in Places : p <= k})])
                     ELSE <<sql[k]>>
      BY <1>1 DEF PiecesOf, Piece
    <2> HIDE DEF h
    <2> QED BY <2>1
  <1> DEFINE e == CHOOSE f : f = [k \in 0..Len(sql) |->
                            IF k = 0 THEN <<>>
                            ELSE f[k - 1] \o
                              IF k \in Places
                                THEN Literal(parameters[Cardinality({p \in Places : p <= k})])
                                ELSE <<sql[k]>>]
  <1>4. e = [k \in 0..Len(sql) |->
                            IF k = 0 THEN <<>>
                            ELSE e[k - 1] \o
                              IF k \in Places
                                THEN Literal(parameters[Cardinality({p \in Places : p <= k})])
                                ELSE <<sql[k]>>]
    BY <1>2, <1>3, ZenonT(60)
  <1>5. \A n : Expected(n) = e[n] BY Zenon DEF Expected
  <1> HIDE DEF e
  <1> QED BY <1>3, <1>4, <1>5 DEF Assembles

\* Each piece is a value's literal or a character of the text.
LEMMA PiecesType ==
  ASSUME sql \in Seq(Alphabet), parameters \in Seq(Values), Len(parameters) = Cardinality(Places)
  PROVE  /\ PiecesOf \in [1..Len(sql) -> Seq(Alphabet)]
         /\ \A k \in Places : \E v \in Values : PiecesOf[k] = Literal(v)
         /\ \A k \in 1..Len(sql) : k \notin Places => PiecesOf[k] = <<sql[k]>>
  <1>1. ASSUME NEW k \in Places PROVE \E v \in Values : PiecesOf[k] = Literal(v)
    <2> DEFINE j == k + 1
               n == Cardinality({p \in Places : p <= k})
    <2>1. k \in 1..Len(sql) BY PlacesType
    <2>2. k \in Nat /\ j \in Nat BY <2>1
    <2>3. n = Counted(j) /\ Counted(j) = Counted(k) + 1 /\ Counted(k) \in Nat
      BY <2>2, CountsOne DEF Counted
    <2>4. Counted(j) <= Cardinality(Places) BY <2>2, CountsOne
    <2>5. n \in 1..Len(parameters) BY <2>3, <2>4
    <2>6. parameters[n] \in Values BY <2>5
    <2>7. PiecesOf[k] = Literal(parameters[n]) BY <2>1, Zenon DEF PiecesOf, Piece
    <2> QED BY <2>6, <2>7
  <1>2. ASSUME NEW k \in 1..Len(sql), k \notin Places PROVE PiecesOf[k] = <<sql[k]>>
    BY <1>2 DEF PiecesOf, Piece
  <1>3. ASSUME NEW k \in 1..Len(sql) PROVE PiecesOf[k] \in Seq(Alphabet)
    <2>1. CASE k \in Places
      <3>1. PICK v \in Values : PiecesOf[k] = Literal(v) BY <2>1, <1>1
      <3>2. Literal(v) \in Seq(Alphabet) BY LiteralType
      <3> QED BY <3>1, <3>2
    <2>2. CASE k \notin Places
      <3>1. sql[k] \in Alphabet OBVIOUS
      <3>2. <<sql[k]>> \in Seq(Alphabet) BY <3>1
      <3> QED BY <2>2, <3>2, <1>2
    <2> QED BY <2>1, <2>2
  <1>4. PiecesOf = [k \in 1..Len(sql) |-> PiecesOf[k]] BY DEF PiecesOf
  <1> QED BY <1>1, <1>2, <1>3, <1>4

\* With a value in each place and no negative number behind a minus, every character is
\* read as before.
LEMMA ValuesLeaveReading ==
  ASSUME sql \in Seq(Alphabet), parameters \in Seq(Values),
         Len(parameters) = Cardinality(Places), out = Expected(Len(sql)), ~MinusMeetsMinus
  PROVE  ReadsAlike
  <1> DEFINE N == Len(sql)
             h == PiecesOf
             r == Reading(sql)
             ro == Reading(out)
  <1>1. N \in Nat OBVIOUS
  <1>2. PICK e : Assembles(e, N, h) /\ \A n : Expected(n) = e[n] BY ExpectedUnfolds
  <1>3. /\ h \in [1..N -> Seq(Alphabet)]
        /\ \A k \in Places : \E v \in Values : h[k] = Literal(v)
        /\ \A k \in 1..N : k \notin Places => h[k] = <<sql[k]>>
    BY PiecesType
  <1>4. Placed(e, N, h, Alphabet)
    <2> HIDE DEF N, h
    <2> QED BY <1>1, <1>2, <1>3, Assembled
  <1>5. out = e[N] BY <1>2
  <1>6. out \in Seq(Alphabet) /\ Len(out) \in Nat
    <2>1. N \in 0..N BY <1>1
    <2> QED BY <2>1, <1>4, <1>5 DEF Placed
  <1>7. \A k \in Places : k \in 1..N /\ sql[k] = "?" /\ r[k] = "code" BY PlacesType
  <1>8. \A k \in 1..N : sql[k] = "?" /\ r[k] = "code" => k \in Places BY PlacesType
  <1>9. /\ r[1] = "code"
        /\ \A n \in 1..N : \A k : k = n + 1 => r[k] = Encloses(r[n], sql[n], Ahead(sql, n))
    BY ReadingUnfolds
  <1>10. /\ ro[1] = "code"
         /\ \A n \in 1..Len(out) : \A k : k = n + 1 =>
              ro[k] = Encloses(ro[n], out[n], Ahead(out, n))
    BY <1>6, ReadingUnfolds
  <1>11. \A k \in 1..N : sql[k] # "-" \/ k + 1 \notin Places \/ out[Len(e[k]) + 1] # "-"
    <2> SUFFICES ASSUME NEW k \in 1..N, sql[k] = "-", k + 1 \in Places, out[Len(e[k]) + 1] = "-"
                 PROVE  MinusMeetsMinus
      OBVIOUS
    <2> DEFINE n == k + 1
    <2>1. n > 1 /\ n - 1 = k BY <1>1
    <2>2. n \in Places /\ n > 1 /\ sql[n - 1] = "-" /\ out[Len(Expected(n - 1)) + 1] = "-"
      BY <2>1, <1>2
    <2> HIDE DEF n
    <2> QED BY <2>2 DEF MinusMeetsMinus
  <1>12. \A j \in 0..N : \A k \in 1..N : k = j + 1 =>
           /\ Len(e[k]) = Len(e[j]) + Len(h[k])
           /\ \A i \in 1..Len(h[k]) : out[Len(e[j]) + i] = h[k][i]
    <2>1. \A j \in 0..N : \A k \in 1..N : k = j + 1 =>
            /\ Len(e[k]) = Len(e[j]) + Len(h[k])
            /\ \A i \in 1..Len(h[k]) : e[N][Len(e[j]) + i] = h[k][i]
      BY <1>4 DEF Placed
    <2> DEFINE last == e[N]
    <2>2. \A j \in 0..N : \A k \in 1..N : k = j + 1 =>
            /\ Len(e[k]) = Len(e[j]) + Len(h[k])
            /\ \A i \in 1..Len(h[k]) : last[Len(e[j]) + i] = h[k][i]
      BY <2>1, Zenon
    <2>3. out = last BY <1>5
    <2> HIDE DEF last, N, h, r, ro
    <2>4. ASSUME NEW j \in 0..N, NEW k \in 1..N, k = j + 1
          PROVE  /\ Len(e[k]) = Len(e[j]) + Len(h[k])
                 /\ \A i \in 1..Len(h[k]) : out[Len(e[j]) + i] = h[k][i]
      <3>1. /\ Len(e[k]) = Len(e[j]) + Len(h[k])
            /\ \A i \in 1..Len(h[k]) : last[Len(e[j]) + i] = h[k][i]
        BY <2>2, <2>4
      <3> QED BY <3>1, <2>3
    <2> QED BY <2>4
  <1>13. e[0] = <<>> /\ \A k \in 0..N : Len(e[k]) \in Nat /\ Len(e[k]) <= Len(out)
    BY <1>4, <1>5 DEF Placed
  <1> HIDE DEF N, h, r, ro
  <1> DEFINE S == {n \in 0..N : ro[Len(e[n]) + 1] = r[n + 1]}
  <1>14. 0 \in S
    <2>1. Len(e[0]) = 0 /\ 0 \in 0..N BY <1>1, <1>13
    <2> QED BY <2>1, <1>9, <1>10
  <1>15. ASSUME NEW n \in 0..N, n \in S, n < N PROVE n + 1 \in S
    <2> DEFINE k == n + 1
               a == Len(e[n])
               b == Len(e[k])
    <2>1. k \in 1..N /\ k \in 0..N BY <1>1, <1>15
    <2>2. a \in Nat /\ b \in Nat /\ b <= Len(out) BY <2>1, <1>13
    <2>3. b = a + Len(h[k]) /\ \A i \in 1..Len(h[k]) : out[a + i] = h[k][i]
      <3> HIDE DEF S
      <3> QED BY <2>1, <1>12, Zenon
    <2>4. ro[a + 1] = r[k] BY <1>15
    <2>5. r[k + 1] = Encloses(r[k], sql[k], Ahead(sql, k)) BY <2>1, <1>9
    <2>6. h[k] \in Seq(Alphabet) /\ Len(h[k]) \in Nat BY <2>1, <1>3
    <2> SUFFICES ro[b + 1] = r[k + 1] BY <2>1
    <2> HIDE DEF S
    <2>7. CASE k \in Places
      <3>1. PICK v \in Values : h[k] = Literal(v) BY <2>7, <1>3
      <3>2. r[k] = "code" /\ r[k + 1] = "code"
        <4>1. sql[k] = "?" /\ r[k] = "code" BY <2>7, <1>7
        <4>2. "?" \notin {Quote, NameQuote, "-", "/"} BY Marks
        <4> HIDE DEF k
        <4> QED BY <4>1, <4>2, <2>5, Steps
      <3>3. a + Len(Literal(v)) <= Len(out) BY <2>2, <2>3, <3>1
      <3>4. \A i \in 1..Len(Literal(v)) : out[a + i] = Literal(v)[i] BY <2>3, <3>1
      <3>5. Reading(out)[a + 1] = "code" BY <2>4, <3>2 DEF ro
      <3> HIDE DEF a, b, k
      <3>6. Reading(out)[a + Len(Literal(v)) + 1] = "code"
        BY <1>6, <2>2, <3>3, <3>4, <3>5, ReadsOver
      <3>7. b = a + Len(Literal(v)) BY <2>3, <3>1
      <3> QED BY <3>2, <3>6, <3>7 DEF ro
    <2>8. CASE k \notin Places
      <3>1. h[k] = <<sql[k]>> BY <2>1, <2>8, <1>3
      <3>2. Len(h[k]) = 1 /\ h[k][1] = sql[k] BY <3>1
      <3>3. b = a + 1 /\ out[b] = sql[k] /\ b \in 1..Len(out) BY <3>2, <2>2, <2>3
      <3>4. ro[b] = r[k]
        <4> HIDE DEF a, b, k
        <4> QED BY <2>4, <3>3
      <3>5. ro[b + 1] = Encloses(r[k], sql[k], Ahead(out, b))
        <4>1. ro[b + 1] = Encloses(ro[b], out[b], Ahead(out, b))
          <5> HIDE DEF b
          <5> QED BY <3>3, <1>10
        <4> HIDE DEF b, k
        <4> QED BY <4>1, <3>3, <3>4
      <3>6. CASE r[k] # "code" \/ sql[k] \notin {"-", "/"}
        <4>1. Encloses(r[k], sql[k], Ahead(sql, k)) = Encloses(r[k], sql[k], Ahead(out, b))
          BY <3>6, LooksAhead
        <4> QED BY <4>1, <3>5, <2>5
      <3>7. CASE r[k] = "code" /\ sql[k] \in {"-", "/"} /\ k = N
        <4>1. b = Len(out) BY <3>7, <1>5
        <4>2. Ahead(out, b) = Newline /\ Ahead(sql, k) = Newline
          BY <4>1, <3>7, <1>1, <2>2 DEF Ahead, N
        <4> QED BY <4>2, <3>5, <2>5
      <3>8. CASE r[k] = "code" /\ sql[k] \in {"-", "/"} /\ k # N
        <4> DEFINE m == k + 1
        <4>1. m \in 1..N /\ k < N BY <2>1, <3>8, <1>1
        <4>2. Ahead(sql, k) = sql[m] BY <4>1 DEF Ahead, N
        <4>3. /\ Len(e[m]) = b + Len(h[m]) /\ Len(e[m]) <= Len(out)
              /\ \A i \in 1..Len(h[m]) : out[b + i] = h[m][i]
          <5>1. m \in 0..N BY <4>1, <1>1
          <5> HIDE DEF k
          <5> QED BY <2>1, <4>1, <5>1, <1>12, <1>13, Zenon
        <4>4. h[m] \in Seq(Alphabet) /\ Len(h[m]) \in Nat BY <4>1, <1>3
        <4>5. CASE m \notin Places
          <5>1. h[m] = <<sql[m]>> BY <4>1, <4>5, <1>3
          <5>2. Len(h[m]) = 1 /\ h[m][1] = sql[m] BY <5>1
          <5>3. b < Len(out) /\ out[b + 1] = sql[m]
            <6> HIDE DEF b, m
            <6> QED BY <5>2, <4>3, <2>2, <1>6
          <5>4. Ahead(out, b) = sql[m] BY <5>3 DEF Ahead
          <5> QED BY <5>4, <4>2, <3>5, <2>5
        <4>6. CASE m \in Places
          <5>1. PICK v \in Values : h[m] = Literal(v) BY <4>6, <1>3
          <5>2. Len(h[m]) >= 1 /\ h[m][1] # "*" BY <5>1, LiteralType
          <5>3. b < Len(out) /\ out[b + 1] = h[m][1]
            <6> HIDE DEF b, m
            <6> QED BY <5>2, <4>3, <4>4, <2>2, <1>6
          <5>4. Ahead(out, b) = out[b + 1] /\ out[b + 1] # "*" BY <5>2, <5>3 DEF Ahead
          <5>5. sql[k] = "-" => out[b + 1] # "-" BY <1>11, <2>1, <4>6
          <5>6. Ahead(sql, k) = "?" BY <4>2, <4>6, <1>7
          <5> HIDE DEF a, b, k, m
          <5>7. CASE sql[k] = "-"
            <6>1. Encloses("code", "-", Ahead(out, b)) = "code" BY <5>4, <5>5, <5>7, Steps
            <6>2. Encloses("code", "-", Ahead(sql, k)) = "code" BY <5>6, Steps
            <6> QED BY <6>1, <6>2, <5>7, <3>5, <2>5, <3>8
          <5>8. CASE sql[k] = "/"
            <6>1. Encloses("code", "/", Ahead(out, b)) = "code" BY <5>4, Steps
            <6>2. Encloses("code", "/", Ahead(sql, k)) = "code" BY <5>6, Steps
            <6> QED BY <6>1, <6>2, <5>8, <3>5, <2>5, <3>8
          <5> QED BY <5>7, <5>8, <3>8
        <4> QED BY <4>5, <4>6
      <3> QED BY <3>6, <3>7, <3>8
    <2> QED BY <2>7, <2>8
  <1> HIDE DEF S
  <1>16. 0..N \subseteq S BY <1>1, <1>14, <1>15, CountUp
  <1>17. \A n \in 0..N : Reading(out)[Len(Expected(n)) + 1] = Reading(sql)[n + 1]
    BY <1>2, <1>16 DEF S, r, ro
  <1> QED BY <1>17 DEF ReadsAlike, N

-----------------------------------------------------------------------------
(* The scanner.  It is in code, or at the end of a line that is a comment, whenever it *)
(* looks at a character, and what it skips has no place.                          *)

Settled(n) ==
  n < Last => \/ Reading(sql)[n] = "code"
              \/ Reading(sql)[n] = "line" /\ sql[n] = Newline

Skips(n, end) ==
  end \in n + 1..Last /\ (\A j \in n..end - 1 : j \notin Places) /\ Settled(end)

\* One character on.
LEMMA ReadsOn ==
  ASSUME sql \in Seq(Alphabet)
  PROVE  /\ Len(sql) \in Nat /\ Last = Len(sql) + 1
         /\ \A n \in 1..Len(sql) : \A k : k = n + 1 =>
              Reading(sql)[k] = Encloses(Reading(sql)[n], sql[n], Ahead(sql, n))
  BY ReadingUnfolds DEF Last

QuotedEnds(q, f) ==
  /\ \A n : AfterQuoted(q, n) = f[n]
  /\ f[Last] = Last
  /\ \A k \in 1..Len(sql) : f[k] = IF Pair(k, q, q) THEN f[k + 2]
                                   ELSE IF sql[k] = q THEN k + 1 ELSE f[k + 1]

\* AfterQuoted obeys the equation it is written as, and ends in the text.
LEMMA AfterQuotedUnfolds ==
  ASSUME sql \in Seq(Alphabet), NEW q
  PROVE  \E f \in [1..Last -> 1..Last] : QuotedEnds(q, f)
  <1> DEFINE N == Len(sql)
             P == 1..Last
             h == [m \in 1..N |-> [x \in P |-> IF sql[m] = q /\ ~Pair(m, q, q) THEN m + 1 ELSE x]]
             next == [m \in 1..N |-> IF Pair(m, q, q) THEN m + 2 ELSE m + 1]
  <1>1. N \in Nat /\ Last = N + 1 /\ P = 1..N + 1 BY DEF Last
  <1>2. h \in [1..N -> [P -> P]] BY <1>1
  <1>3. next \in [1..N -> 1..N + 1] /\ \A m \in 1..N : m < next[m]
    <2>1. \A m \in 1..N : Pair(m, q, q) => m + 2 \in 1..N + 1 BY <1>1 DEF Pair
    <2> QED BY <2>1, <1>1
  <1>4. Last \in P BY <1>1
  <1>5. PICK g \in [1..N + 1 -> P] :
          g[N + 1] = Last /\ \A m \in 1..N : g[m] = h[m][g[next[m]]]
    <2> HIDE DEF N, P, h, next
    <2>1. Recurs(N, P, Last, h, next) BY <1>1, <1>2, <1>3, <1>4 DEF Recurs
    <2>2. Solvable(N, P, Last, h, next) BY <2>1, Downward
    <2> QED BY <2>2 DEF Solvable
  <1>6. ASSUME NEW k \in 1..Len(sql)
        PROVE  g[k] = IF Pair(k, q, q) THEN g[k + 2]
                      ELSE IF sql[k] = q THEN k + 1 ELSE g[k + 1]
    <2>1. next[k] \in 1..N + 1 /\ next[k] = IF Pair(k, q, q) THEN k + 2 ELSE k + 1 BY <1>3
    <2>2. g[next[k]] \in P BY <2>1, <1>5
    <2>3. h[k][g[next[k]]] = IF sql[k] = q /\ ~Pair(k, q, q) THEN k + 1 ELSE g[next[k]]
      BY <2>2
    <2>4. g[k] = h[k][g[next[k]]] BY <1>5
    <2> HIDE DEF h, next, P
    <2> QED BY <2>1, <2>3, <2>4
  <1>7. g = [k \in 1..Last |-> IF k = Last THEN Last
                               ELSE IF Pair(k, q, q) THEN g[k + 2]
                               ELSE IF sql[k] = q THEN k + 1 ELSE g[k + 1]]
    <2> SUFFICES ASSUME NEW k \in 1..Last
                 PROVE  g[k] = IF k = Last THEN Last
                               ELSE IF Pair(k, q, q) THEN g[k + 2]
                               ELSE IF sql[k] = q THEN k + 1 ELSE g[k + 1]
      BY <1>1, <1>5
    <2>1. CASE k = Last BY <2>1, <1>1, <1>5
    <2>2. CASE k # Last
      <3>1. k \in 1..Len(sql) BY <2>2, <1>1
      <3> QED BY <3>1, <2>2, <1>6
    <2> QED BY <2>1, <2>2
  <1> DEFINE f == CHOOSE f : f = [k \in 1..Last |-> IF k = Last THEN Last
                               ELSE IF Pair(k, q, q) THEN f[k + 2]
                               ELSE IF sql[k] = q THEN k + 1 ELSE f[k + 1]]
  <1>8. f = [k \in 1..Last |-> IF k = Last THEN Last
                               ELSE IF Pair(k, q, q) THEN f[k + 2]
                               ELSE IF sql[k] = q THEN k + 1 ELSE f[k + 1]]
    BY <1>7, Zenon
  <1>9. \A n : AfterQuoted(q, n) = f[n] BY Zenon DEF AfterQuoted
  <1> HIDE DEF f
  <1>10. f[Last] = Last BY <1>8, <1>4
  <1>11. \A k \in 1..Len(sql) :
                f[k] = IF Pair(k, q, q) THEN f[k + 2]
                       ELSE IF sql[k] = q THEN k + 1 ELSE f[k + 1]
    <2> TAKE k \in 1..Len(sql)
    <2>1. k \in 1..Last /\ k # Last BY <1>1
    <2> QED BY <2>1, <1>8
  <1>12. \A n \in 1..Last : f[n] \in 1..Last
    <2> DEFINE S == {d \in 0..N : \A k \in N + 1 - d..N + 1 : f[k] \in 1..Last}
    <2>1. 0 \in S
      <3>1. \A k \in N + 1 - 0..N + 1 : k = Last BY <1>1
      <3>2. 0 \in 0..N BY <1>1
      <3> QED BY <3>1, <3>2, <1>10, <1>4
    <2>2. ASSUME NEW d \in 0..N, d \in S, d < N PROVE d + 1 \in S
      <3> DEFINE k == N - d
      <3>1. k \in 1..Len(sql) /\ N + 1 - (d + 1) = k /\ N + 1 - d = k + 1 /\ d + 1 \in 0..N
        BY <1>1, <2>2
      <3>2. \A m \in k + 1..N + 1 : f[m] \in 1..Last BY <2>2, <3>1
      <3>3. f[k] = IF Pair(k, q, q) THEN f[k + 2] ELSE IF sql[k] = q THEN k + 1 ELSE f[k + 1]
        BY <3>1, <1>11
      <3>4. k + 1 \in k + 1..N + 1 /\ k + 1 \in 1..Last /\ (Pair(k, q, q) => k + 2 \in k + 1..N + 1)
        BY <3>1, <1>1 DEF Pair
      <3>5. f[k] \in 1..Last
        <4> HIDE DEF k, S
        <4> QED BY <3>2, <3>3, <3>4
      <3>6. \A m \in k..N + 1 : m = k \/ m \in k + 1..N + 1 BY <1>1, <3>1
      <3> HIDE DEF k
      <3> QED BY <3>1, <3>2, <3>5, <3>6
    <2> HIDE DEF S, N
    <2>3. 0..N \subseteq S BY <1>1, <2>1, <2>2, CountUp
    <2>4. CASE N = 0 BY <2>4, <1>1, <1>10
    <2>5. CASE N # 0
      <3>1. N \in S BY <1>1, <2>3
      <3>2. \A k \in N + 1 - N..N + 1 : f[k] \in 1..Last BY <3>1 DEF S
      <3>3. N + 1 - N = 1 BY <1>1
      <3> QED BY <3>2, <3>3, <1>1
    <2> QED BY <2>4, <2>5
  <1>13. f = [k \in 1..Last |-> f[k]] BY <1>8
  <1>14. f \in [1..Last -> 1..Last] BY <1>12, <1>13
  <1> QED BY <1>9, <1>10, <1>11, <1>14 DEF QuotedEnds

\* Each of the three skips ends in code, at the end of a line or of the text, and has
\* no place in it.
LEMMA QuotedSkips ==
  ASSUME sql \in Seq(Alphabet), NEW n \in 1..Len(sql), NEW q,
         \/ q = Quote /\ Reading(sql)[n + 1] = "string"
         \/ q = NameQuote /\ Reading(sql)[n + 1] = "name",
         n \notin Places
  PROVE  Skips(n, AfterQuoted(q, n + 1))
  <1> DEFINE N == Len(sql)
             r == Reading(sql)
             in == IF q = Quote THEN "string" ELSE "name"
  <1>1. N \in Nat /\ Last = N + 1 BY ReadsOn
  <1>2. \A m \in 1..N : \A k : k = m + 1 => r[k] = Encloses(r[m], sql[m], Ahead(sql, m))
    BY ReadsOn
  <1>3. PICK f \in [1..Last -> 1..Last] : QuotedEnds(q, f) BY AfterQuotedUnfolds
  <1>4. /\ q # "?" /\ in # "code" /\ r[n + 1] = in
        /\ \A c, next : Encloses(in, c, next) = IF c = q THEN "code" ELSE in
        /\ \A next : Encloses("code", q, next) = in
    <2>1. CASE q = Quote /\ r[n + 1] = "string"
      <3>1. in = "string" BY <2>1
      <3>2. \A c, next : Encloses("string", c, next) = IF c = Quote THEN "code" ELSE "string"
        BY Steps
      <3>3. \A next : Encloses("code", Quote, next) = "string" BY Steps
      <3> HIDE DEF in, r
      <3> QED BY <2>1, <3>1, <3>2, <3>3, Marks
    <2>2. CASE q = NameQuote /\ r[n + 1] = "name"
      <3>1. in = "name" BY <2>2, Marks
      <3>2. \A c, next : Encloses("name", c, next) = IF c = NameQuote THEN "code" ELSE "name"
        BY Steps
      <3>3. \A next : Encloses("code", NameQuote, next) = "name" BY Steps
      <3> HIDE DEF in, r
      <3> QED BY <2>2, <3>1, <3>2, <3>3, Marks
    <2> QED BY <2>1, <2>2
  <1>5. \A m \in Places : sql[m] = "?" /\ r[m] = "code" BY PlacesType
  <1> DEFINE Closes(k) == r[k] = in \/ k = Last =>
               /\ f[k] \in k..Last /\ Settled(f[k])
               /\ \A j \in k..f[k] - 1 : j \notin Places
  <1> HIDE DEF N, r, in
  <1>6. Closes(Last)
    <2>1. f[Last] = Last BY <1>3 DEF QuotedEnds
    <2>2. Last \in Last..Last /\ Last..Last - 1 = {} /\ ~(Last < Last) BY <1>1
    <2>3. Settled(Last) BY <2>2 DEF Settled
    <2> QED BY <2>1, <2>2, <2>3
  <1>7. ASSUME NEW k \in 1..N, Closes(k + 1), k + 1 <= N => Closes(k + 2), r[k] = in
        PROVE  Closes(k)
    <2>1. r[k + 1] = IF sql[k] = q THEN "code" ELSE in
      <3>1. r[k + 1] = Encloses(r[k], sql[k], Ahead(sql, k)) BY <1>2
      <3> HIDE DEF Closes
      <3> QED BY <3>1, <1>4, <1>7
    <2>2. k \notin Places BY <1>4, <1>5, <1>7
    <2>3. CASE Pair(k, q, q)
      <3>1. k + 1 \in 1..N /\ sql[k] = q /\ sql[k + 1] = q BY <2>3, <1>1 DEF Pair, N
      <3>2. r[k + 2] = in
        <4>1. k + 2 = k + 1 + 1 OBVIOUS
        <4>2. r[k + 2] = Encloses(r[k + 1], sql[k + 1], Ahead(sql, k + 1)) BY <3>1, <4>1, <1>2
        <4>3. r[k + 1] = "code" /\ sql[k + 1] = q BY <3>1, <2>1
        <4> HIDE DEF Closes
        <4> QED BY <4>2, <4>3, <1>4
      <3>3. k + 1 \notin Places BY <3>1, <1>4, <1>5
      <3>4. f[k] = f[k + 2] BY <1>3, <2>3 DEF QuotedEnds, N
      <3>5. /\ f[k + 2] \in k + 2..Last /\ Settled(f[k + 2])
            /\ \A j \in k + 2..f[k + 2] - 1 : j \notin Places
        <4>1. Closes(k + 2) BY <1>7, <3>1
        <4> QED BY <4>1, <3>2
      <3>6. \A j \in k..f[k + 2] - 1 : j = k \/ j = k + 1 \/ j \in k + 2..f[k + 2] - 1
        BY <3>5
      <3>7. f[k + 2] \in k..Last BY <3>5
      <3> QED BY <3>3, <3>4, <3>5, <3>6, <3>7, <2>2
    <2>4. CASE ~Pair(k, q, q) /\ sql[k] = q
      <3>1. f[k] = k + 1 BY <1>3, <2>4 DEF QuotedEnds, N
      <3>2. Settled(k + 1) BY <2>1, <2>4 DEF Settled, r
      <3>3. k + 1 \in k..Last /\ \A j \in k..k + 1 - 1 : j = k BY <1>1
      <3> QED BY <3>1, <3>2, <3>3, <2>2
    <2>5. CASE ~Pair(k, q, q) /\ sql[k] # q
      <3>1. f[k] = f[k + 1] BY <1>3, <2>5 DEF QuotedEnds, N
      <3>2. /\ f[k + 1] \in k + 1..Last /\ Settled(f[k + 1])
            /\ \A j \in k + 1..f[k + 1] - 1 : j \notin Places
        BY <1>7, <2>1, <2>5
      <3>3. \A j \in k..f[k + 1] - 1 : j = k \/ j \in k + 1..f[k + 1] - 1 BY <3>2
      <3>4. f[k + 1] \in k..Last BY <3>2
      <3> QED BY <3>1, <3>2, <3>3, <3>4, <2>2
    <2> QED BY <2>3, <2>4, <2>5
  <1> HIDE DEF Closes
  <1> DEFINE S == {d \in 0..N : \A k \in N + 1 - d..N + 1 : Closes(k)}
  <1>8. 0 \in S
    <2>1. 0 \in 0..N /\ \A k \in N + 1 - 0..N + 1 : k = Last BY <1>1
    <2> QED BY <2>1, <1>6
  <1>9. ASSUME NEW d \in 0..N, d \in S, d < N PROVE d + 1 \in S
    <2> DEFINE k == N - d
    <2>1. /\ k \in 1..N /\ N + 1 - (d + 1) = k /\ N + 1 - d = k + 1 /\ d + 1 \in 0..N
          /\ k + 1 \in k + 1..N + 1 /\ (k + 1 <= N => k + 2 \in k + 1..N + 1) /\ k # Last
      BY <1>1, <1>9
    <2>2. \A m \in k + 1..N + 1 : Closes(m) BY <1>9, <2>1
    <2> HIDE DEF k, S
    <2>3. Closes(k)
      <3>1. CASE r[k] = in BY <3>1, <2>1, <2>2, <1>7
      <3>2. CASE r[k] # in BY <3>2, <2>1 DEF Closes
      <3> QED BY <3>1, <3>2
    <2>4. \A m \in k..N + 1 : m = k \/ m \in k + 1..N + 1 BY <1>1, <2>1
    <2> QED BY <2>1, <2>2, <2>3, <2>4 DEF S
  <1> HIDE DEF S
  <1>10. 0..N \subseteq S BY <1>1, <1>8, <1>9, CountUp
  <1>11. Closes(n + 1)
    <2>1. n \in 1..N BY DEF N
    <2>2. N \in S /\ n + 1 \in N + 1 - N..N + 1 BY <1>1, <1>10, <2>1
    <2> QED BY <2>2 DEF S
  <1>12. /\ f[n + 1] \in n + 1..Last /\ Settled(f[n + 1])
         /\ \A j \in n + 1..f[n + 1] - 1 : j \notin Places
    BY <1>4, <1>11 DEF Closes
  <1>13. \A j \in n..f[n + 1] - 1 : j = n \/ j \in n + 1..f[n + 1] - 1 BY <1>12
  <1>14. AfterQuoted(q, n + 1) = f[n + 1] BY <1>3 DEF QuotedEnds
  <1> QED BY <1>12, <1>13, <1>14 DEF Skips

\* The first of the places from n on that a test picks, or the end.
HasFirst(n, N, T) == \E k \in n..N : (k = N \/ k \in T) /\ \A j \in n..k - 1 : j \notin T

LEMMA FirstFrom ==
  ASSUME NEW N \in Nat, NEW n \in Nat, n <= N, NEW T
  PROVE  HasFirst(n, N, T)
  <1> DEFINE A == {k \in n..N : k = N \/ k \in T}
  <1>1. A \subseteq Nat /\ N \in A OBVIOUS
  <1>2. PICK k \in A : \A j \in A : k <= j
    <2> HIDE DEF A
    <2> QED BY <1>1, LeastOf
  <1>3. ASSUME NEW j \in n..k - 1 PROVE j \notin T
    <2>1. j \in n..N /\ ~(k <= j) BY <1>2
    <2> QED BY <2>1, <1>2
  <1> QED BY <1>2, <1>3 DEF HasFirst

\* A line comment.
LEMMA LineSkips ==
  ASSUME sql \in Seq(Alphabet), NEW n \in 1..Len(sql), Pair(n, "-", "-"), Reading(sql)[n] = "code"
  PROVE  Skips(n, AfterLine(n))
  <1> DEFINE N == Len(sql)
             r == Reading(sql)
             T == {k \in 1..N : sql[k] = Newline}
             m == AfterLine(n)
  <1>1. N \in Nat /\ Last = N + 1 /\ n \in 1..N BY ReadsOn
  <1>2. \A i \in 1..N : \A k : k = i + 1 => r[k] = Encloses(r[i], sql[i], Ahead(sql, i))
    BY ReadsOn
  <1>3. m \in n..Last /\ (m = Last \/ sql[m] = Newline) /\ \A j \in n..m - 1 : sql[j] # Newline
    <2>1. \E k \in n..Last : (k = Last \/ k \in T) /\ \A j \in n..k - 1 : j \notin T
      <3>1. Last \in Nat /\ n \in Nat /\ n <= Last BY <1>1
      <3> HIDE DEF T, N, r, m
      <3>2. HasFirst(n, Last, T) BY <3>1, FirstFrom
      <3> QED BY <3>2 DEF HasFirst
    <2>2. \A k \in n..Last : k \in 1..N \/ k = Last BY <1>1
    <2>3. \E k \in n..Last : /\ k = Last \/ sql[k] = Newline
                             /\ \A j \in n..k - 1 : sql[j] # Newline
      BY <2>1, <2>2, <1>1
    <2> HIDE DEF m
    <2> QED BY <2>3, Zenon DEF AfterLine, m
  <1> HIDE DEF r, m, N
  <1>4. n < N /\ sql[n] = "-" /\ sql[n + 1] = "-" /\ r[n] = "code" BY DEF Pair, N, r
  <1>5. r[n + 1] = "line"
    <2>1. Ahead(sql, n) = "-" BY <1>4 DEF Ahead, N
    <2>2. r[n + 1] = Encloses("code", "-", "-") BY <2>1, <1>1, <1>2, <1>4
    <2> QED BY <2>2, Steps
  <1>6. m \in n + 1..Last
    <2>1. m # n BY <1>1, <1>3, <1>4, Marks
    <2> QED BY <2>1, <1>1, <1>3
  <1> DEFINE S == {d \in 0..m - (n + 1) : r[n + 1 + d] = "line"}
  <1>7. 0 \in S BY <1>1, <1>5, <1>6
  <1>8. ASSUME NEW d \in 0..m - (n + 1), d \in S, d < m - (n + 1) PROVE d + 1 \in S
    <2> DEFINE k == n + 1 + d
    <2>1. k \in 1..N /\ k \in n..m - 1 /\ k + 1 = n + 1 + (d + 1) /\ d + 1 \in 0..m - (n + 1)
      BY <1>1, <1>6, <1>8
    <2>2. r[k] = "line" /\ sql[k] # Newline BY <1>3, <1>8, <2>1
    <2>3. r[k + 1] = "line"
      <3> HIDE DEF k, S
      <3> QED BY <2>1, <2>2, <1>2, Steps
    <2> QED BY <2>1, <2>3
  <1> HIDE DEF S
  <1>9. 0..m - (n + 1) \subseteq S
    <2>1. m - (n + 1) \in Nat BY <1>1, <1>6
    <2> QED BY <2>1, <1>7, <1>8, CountUp
  <1>10. \A k \in n + 1..m : r[k] = "line"
    <2> TAKE k \in n + 1..m
    <2>1. k - (n + 1) \in 0..m - (n + 1) /\ n + 1 + (k - (n + 1)) = k BY <1>1, <1>6
    <2> QED BY <2>1, <1>9 DEF S
  <1>11. \A j \in Places : sql[j] = "?" /\ r[j] = "code" BY PlacesType DEF r
  <1>12. ASSUME NEW j \in n..m - 1 PROVE j \notin Places
    <2>1. j = n \/ j \in n + 1..m BY <1>1, <1>6
    <2> QED BY <2>1, <1>4, <1>10, <1>11
  <1>13. Settled(m)
    <2>1. m \in n + 1..m BY <1>1, <1>6
    <2>2. r[m] = "line" BY <2>1, <1>10
    <2> QED BY <2>2, <1>3, <1>6, <1>1 DEF Settled, r
  <1> QED BY <1>6, <1>12, <1>13 DEF Skips, m

\* A block comment.
LEMMA BlockSkips ==
  ASSUME sql \in Seq(Alphabet), NEW n \in 1..Len(sql), Pair(n, "/", "*"), Reading(sql)[n] = "code"
  PROVE  Skips(n, AfterBlock(n))
  <1> DEFINE N == Len(sql)
             r == Reading(sql)
             ends == {k \in n + 2..Last - 2 : Pair(k, "*", "/")}
             least == CHOOSE k \in ends : \A j \in ends : k <= j
             m == IF ends = {} THEN Last ELSE least
  <1>1. N \in Nat /\ Last = N + 1 /\ n \in 1..N BY ReadsOn
  <1>2. \A i \in 1..N : \A k : k = i + 1 => r[k] = Encloses(r[i], sql[i], Ahead(sql, i))
    BY ReadsOn
  <1>3. AfterBlock(n) = IF ends = {} THEN Last ELSE least + 2 BY DEF AfterBlock
  <1>4. ends # {} => least \in ends /\ \A j \in ends : least <= j
    <2>1. ends \subseteq Nat BY <1>1
    <2> HIDE DEF ends
    <2>2. ends # {} => \E k \in ends : \A j \in ends : k <= j BY <2>1, LeastOf
    <2> QED BY <2>2
  <1>5. n < N /\ sql[n] = "/" /\ sql[n + 1] = "*" /\ r[n] = "code" BY DEF Pair
  <1>6. /\ m \in n + 2..Last /\ \A k \in n + 2..m - 1 : ~Pair(k, "*", "/")
        /\ ends # {} => m \in n + 2..Last - 2 /\ Pair(m, "*", "/") /\ m = least
    <2>1. CASE ends = {}
      <3>1. m = Last BY <2>1
      <3>2. \A k \in n + 2..Last - 1 : Pair(k, "*", "/") => k \in n + 2..Last - 2
        BY <1>1 DEF Pair
      <3> HIDE DEF m
      <3> QED BY <3>1, <3>2, <2>1, <1>1, <1>5
    <2>2. CASE ends # {}
      <3>1. m = least /\ m \in ends /\ \A j \in ends : m <= j BY <2>2, <1>4
      <3> HIDE DEF m, least
      <3>2. m \in n + 2..Last - 2 /\ Pair(m, "*", "/") BY <3>1
      <3>3. ASSUME NEW k \in n + 2..m - 1, Pair(k, "*", "/") PROVE FALSE
        <4>1. k \in ends /\ ~(m <= k) BY <3>2, <3>3, <1>1
        <4> QED BY <4>1, <3>1
      <3>4. m \in n + 2..Last BY <3>2, <1>1
      <3> QED BY <3>1, <3>2, <3>3, <3>4
    <2> QED BY <2>1, <2>2
  <1> HIDE DEF N, r, ends, least, m
  <1>7. r[n + 1] = "opening" /\ r[n + 2] = "block"
    <2>1. Ahead(sql, n) = "*" BY <1>5 DEF Ahead, N
    <2>2. r[n + 1] = Encloses("code", "/", "*") BY <2>1, <1>1, <1>2, <1>5
    <2>3. r[n + 1] = "opening" BY <2>2, Steps
    <2>4. n + 1 \in 1..N /\ n + 2 = n + 1 + 1 BY <1>1, <1>5
    <2>5. r[n + 2] = Encloses(r[n + 1], sql[n + 1], Ahead(sql, n + 1)) BY <2>4, <1>2
    <2> QED BY <2>3, <2>5, Steps
  <1> DEFINE Within(k) == \/ r[k] = "block"
                          \/ r[k] = "star" /\ k - 1 \in n + 2..m - 1 /\ sql[k - 1] = "*"
             S == {d \in 0..m - (n + 2) : Within(n + 2 + d)}
  <1>8. 0 \in S BY <1>1, <1>6, <1>7
  <1>9. ASSUME NEW d \in 0..m - (n + 2), d \in S, d < m - (n + 2) PROVE d + 1 \in S
    <2> DEFINE k == n + 2 + d
    <2>1. /\ k \in 1..N /\ k \in n + 2..m - 1 /\ k + 1 = n + 2 + (d + 1)
          /\ d + 1 \in 0..m - (n + 2) /\ k + 1 - 1 = k /\ k - 1 + 1 = k
      BY <1>1, <1>6, <1>9
    <2>2. Within(k) BY <1>9
    <2> HIDE DEF k, S
    <2>3. r[k + 1] = Encloses(r[k], sql[k], Ahead(sql, k)) BY <2>1, <1>2
    <2>4. CASE r[k] = "block" /\ sql[k] = "*"
      <3>1. r[k + 1] = "star" BY <2>3, <2>4, Steps
      <3> QED BY <3>1, <2>1, <2>4 DEF S
    <2>5. CASE r[k] = "block" /\ sql[k] # "*"
      <3>1. r[k + 1] = "block" BY <2>3, <2>5, Steps
      <3> QED BY <3>1, <2>1 DEF S
    <2>6. CASE r[k] = "star" /\ k - 1 \in n + 2..m - 1 /\ sql[k - 1] = "*"
      <3>1. sql[k] # "/"
        <4> SUFFICES ASSUME sql[k] = "/" PROVE FALSE OBVIOUS
        <4>1. k - 1 < N BY <2>1, <1>1
        <4>2. Pair(k - 1, "*", "/") BY <4>1, <2>1, <2>6 DEF Pair, N
        <4> QED BY <4>2, <2>6, <1>6
      <3>2. r[k + 1] = "block" \/ (r[k + 1] = "star" /\ sql[k] = "*")
        <4>1. CASE sql[k] = "*" BY <4>1, <2>3, <2>6, Steps
        <4>2. CASE sql[k] # "*" BY <4>2, <3>1, <2>3, <2>6, Steps
        <4> QED BY <4>1, <4>2
      <3> QED BY <3>2, <2>1 DEF S
    <2> QED BY <2>2, <2>4, <2>5, <2>6
  <1> HIDE DEF S, Within
  <1>10. 0..m - (n + 2) \subseteq S
    <2>1. m - (n + 2) \in Nat BY <1>1, <1>6
    <2> QED BY <2>1, <1>8, <1>9, CountUp
  <1>11. \A k \in n + 2..m : r[k] \in {"block", "star"}
    <2> TAKE k \in n + 2..m
    <2>1. k - (n + 2) \in 0..m - (n + 2) /\ n + 2 + (k - (n + 2)) = k BY <1>1, <1>6
    <2> QED BY <2>1, <1>10 DEF S, Within
  <1>12. \A j \in Places : sql[j] = "?" /\ r[j] = "code" BY PlacesType DEF r
  <1>13. ASSUME NEW j \in n..m - 1 PROVE j \notin Places
    <2>1. j = n \/ j = n + 1 \/ j \in n + 2..m BY <1>1, <1>6
    <2> QED BY <2>1, <1>5, <1>11, <1>12
  <1>14. CASE ends = {}
    <2>1. AfterBlock(n) = Last /\ m = Last BY <1>3, <1>14 DEF m
    <2> QED BY <2>1, <1>6, <1>13, <1>1 DEF Skips, Settled
  <1>15. CASE ends # {}
    <2>1. m \in n + 2..Last - 2 /\ m < N /\ sql[m] = "*" /\ sql[m + 1] = "/"
      BY <1>6, <1>15, <1>1 DEF Pair, N
    <2>2. m \in 1..N /\ m + 1 \in 1..N /\ m + 2 = m + 1 + 1 /\ m \in n + 2..m BY <2>1, <1>1
    <2>3. r[m] \in {"block", "star"} BY <2>2, <1>11
    <2>4. r[m + 1] = Encloses(r[m], sql[m], Ahead(sql, m)) BY <2>2, <1>2
    <2>5. r[m + 1] = "star" BY <2>1, <2>3, <2>4, Steps
    <2>6. r[m + 2] = Encloses(r[m + 1], sql[m + 1], Ahead(sql, m + 1)) BY <2>2, <1>2
    <2>7. r[m + 2] = "code" BY <2>1, <2>5, <2>6, Steps
    <2>8. AfterBlock(n) = m + 2 BY <1>3, <1>6, <1>15
    <2> DEFINE end == m + 2
    <2>9. end \in n + 1..Last /\ \A j \in n..end - 1 : j \in n..m - 1 \/ j = m \/ j = m + 1
      BY <2>1, <1>1
    <2>10. r[end] = "code" BY <2>7
    <2> HIDE DEF end
    <2>11. Settled(end) BY <2>10 DEF Settled, r
    <2>12. \A j \in n..end - 1 : j \notin Places BY <2>1, <2>9, <1>12, <1>13
    <2>13. Skips(n, end) BY <2>9, <2>11, <2>12 DEF Skips
    <2> QED BY <2>8, <2>13 DEF end
  <1> QED BY <1>14, <1>15

-----------------------------------------------------------------------------
(* The invariant: the text up to where the scanner stands is written as expected. *)

BindingInv ==
  /\ sql \in Seq(Alphabet) /\ parameters \in Seq(Values)
  /\ at \in 1..Last /\ bound \in 0..Len(parameters)
  /\ scan \in {"scanning", "rendered", "raised"}
  /\ scan = "scanning" => /\ Settled(at) /\ bound = Counted(at)
                          /\ out \in Seq(Alphabet) /\ out = Expected(at - 1)
  /\ scan = "rendered" => Len(parameters) = Cardinality(Places) /\ out = Expected(Len(sql))
  /\ scan = "raised" => Len(parameters) # Cardinality(Places)

\* The invariant holds at the start.
LEMMA BindingInitHolds == BindingInit => BindingInv
  <1> SUFFICES ASSUME BindingInit PROVE BindingInv OBVIOUS
  <1>1. sql \in Seq(Alphabet) BY BindingAssumption DEF BindingInit
  <1>2. parameters \in Seq(Values)
    <2> DEFINE R == [kind : {"text", "plain"}, chars : Seq(Alphabet)]
    <2>1. parameters \in Parameters BY DEF BindingInit
    <2>2. parameters \in Seq(R) BY <2>1, BindingAssumption
    <2>3. \A n \in 1..Len(parameters) : parameters[n] \in R
      <3> HIDE DEF R
      <3> QED BY <2>2
    <2>4. \A n \in 1..Len(parameters) : parameters[n] \in Values
      BY <2>1, <2>3, BindingAssumption DEF Values
    <2>5. Len(parameters) \in Nat /\ parameters \in [1..Len(parameters) -> R]
      BY <2>2, LenProperties
    <2> HIDE DEF R
    <2>6. parameters \in [1..Len(parameters) -> Values] BY <2>4, <2>5
    <2> QED BY <2>5, <2>6, SeqDef
  <1>3. PICK e : Assembles(e, Len(sql), PiecesOf) /\ \A n : Expected(n) = e[n]
    BY <1>1, ExpectedUnfolds
  <1>4. Expected(0) = <<>>
    <2>1. 0 \in 0..Len(sql) BY <1>1
    <2> QED BY <2>1, <1>3, Zenon DEF Assembles
  <1>5. Counted(1) = 0
    <2>1. {p \in Places : p < 1} = {} BY <1>1, PlacesType
    <2> QED BY <2>1, FS_EmptySet DEF Counted
  <1>6. at = 1 /\ out = <<>> /\ bound = 0 /\ scan = "scanning" /\ at - 1 = 0
    BY DEF BindingInit
  <1>7. Settled(1)
    <2>1. Reading(sql)[1] = "code" BY <1>1, ReadingUnfolds
    <2> QED BY <2>1 DEF Settled
  <1>8. 1 \in 1..Last /\ 0 \in 0..Len(parameters) /\ <<>> \in Seq(Alphabet)
    BY <1>1, <1>2 DEF Last
  <1> QED BY <1>1, <1>2, <1>4, <1>5, <1>6, <1>7, <1>8 DEF BindingInv

\* The steps change neither the text nor the values, nor what is to be written.
LEMMA TextRests ==
  ASSUME sql' = sql, parameters' = parameters
  PROVE  /\ Last' = Last /\ Places' = Places
         /\ \A n : Expected(n)' = Expected(n) /\ Counted(n)' = Counted(n)
                   /\ Settled(n)' = Settled(n)
  <1>1. Last' = Last BY DEF Last
  <1>2. Places' = Places BY DEF Places
  <1>3. \A n : Expected(n)' = Expected(n) BY <1>2 DEF Expected
  <1>4. \A n : Counted(n)' = Counted(n) BY <1>2 DEF Counted
  <1>5. \A n : Settled(n)' = Settled(n) BY <1>1 DEF Settled
  <1> QED BY <1>1, <1>2, <1>3, <1>4, <1>5

\* What is written of the text one character on.
LEMMA ExpectedGrows ==
  ASSUME sql \in Seq(Alphabet)
  PROVE  \A j \in 0..Len(sql) : \A k \in 1..Len(sql) : k = j + 1 =>
           Expected(k) = Expected(j) \o Piece(k)
  <1>1. PICK e : Assembles(e, Len(sql), PiecesOf) /\ \A n : Expected(n) = e[n]
    BY ExpectedUnfolds
  <1> TAKE j \in 0..Len(sql)
  <1> TAKE k \in 1..Len(sql)
  <1> HAVE k = j + 1
  <1>2. k \in 0..Len(sql) /\ k # 0 /\ k - 1 = j OBVIOUS
  <1>3. e[k] = e[k - 1] \o PiecesOf[k] BY <1>1, <1>2, Zenon DEF Assembles
  <1>4. PiecesOf[k] = Piece(k) BY DEF PiecesOf
  <1>5. e[k] = e[j] \o Piece(k) BY <1>2, <1>3, <1>4, Zenon
  <1> QED BY <1>1, <1>5, Zenon

\* What the scanner skips is written as it is.
LEMMA CopiesOver ==
  ASSUME sql \in Seq(Alphabet), NEW n \in 1..Len(sql), NEW end, Skips(n, end),
         NEW m \in Nat, n = m + 1, NEW last \in Nat, end = last + 1,
         Expected(m) \in Seq(Alphabet)
  PROVE  /\ Expected(last) = Expected(m) \o SubSeq(sql, n, last)
         /\ Expected(last) \in Seq(Alphabet) /\ Counted(end) = Counted(n)
  <1> DEFINE N == Len(sql)
             a == Expected(m)
             M == last - m
             Holds(j) == /\ Expected(j) = a \o SubSeq(sql, n, j)
                         /\ \A k : k = j + 1 => Counted(k) = Counted(n)
             S == {d \in 0..M : Holds(m + d)}
  <1>1. N \in Nat /\ Last = N + 1 BY ReadsOn
  <1>2. last \in n..N /\ M \in Nat /\ m + M = last /\ \A j \in n..last : j \notin Places
    <2>1. end \in n + 1..Last /\ \A j \in n..end - 1 : j \notin Places BY DEF Skips
    <2>2. end - 1 = last OBVIOUS
    <2> QED BY <2>1, <2>2, <1>1
  <1>3. \A j \in 0..N : \A k \in 1..N : k = j + 1 /\ k \notin Places =>
          Expected(k) = Expected(j) \o <<sql[k]>>
    BY ExpectedGrows, Zenon DEF Piece
  <1>4. a \in Seq(Alphabet) OBVIOUS
  <1> HIDE DEF a, N, M
  <1>5. 0 \in S
    <2>1. m + 0 = m /\ 0 \in 0..M BY <1>2
    <2>2. SubSeq(sql, n, m) = <<>> BY SubSeqEmpty
    <2>3. a \o <<>> = a BY <1>4
    <2>4. Holds(m) BY <2>2, <2>3 DEF a
    <2> HIDE DEF Holds
    <2> QED BY <2>1, <2>4
  <1>6. ASSUME NEW d \in 0..M, d \in S, d < M PROVE d + 1 \in S
    <2> DEFINE j == m + d
               k == n + d
               s == SubSeq(sql, n, j)
               c == <<sql[k]>>
    <2>1. /\ k = j + 1 /\ j \in 0..N /\ k \in 1..N /\ k \in n..last /\ m + (d + 1) = k
          /\ d + 1 \in 0..M /\ j \in Nat /\ k \in Nat
      BY <1>1, <1>2, <1>6
    <2>2. Holds(j) BY <1>6
    <2>3. Expected(j) = a \o s BY <2>2
    <2>4. Counted(k) = Counted(n)
      <3> HIDE DEF k, j
      <3> QED BY <2>1, <2>2
    <2>5. k \notin Places BY <2>1, <1>2
    <2>6. Expected(k) = Expected(j) \o c
      <3> HIDE DEF k, j, S
      <3> QED BY <2>1, <2>5, <1>3
    <2>7. SubSeq(sql, n, k) = s \o c
      <3>1. k \in n..Len(sql) /\ n \in 1..Len(sql) /\ k - 1 = j BY <2>1, <1>2 DEF N
      <3> HIDE DEF k, j, S
      <3>2. SubSeq(sql, n, k) = SubSeq(sql, n, k - 1) \o <<sql[k]>>
        BY <3>1, SubSeqRecursiveSecond
      <3> QED BY <3>1, <3>2
    <2>8. s \in Seq(Alphabet) /\ c \in Seq(Alphabet)
      <3> HIDE DEF S
      <3>1. \A i \in n..j : sql[i] \in Alphabet BY <1>1, <1>2, <2>1 DEF N
      <3>2. s \in Seq(Alphabet)
        <4> HIDE DEF j
        <4> QED BY <3>1, <2>1, SubSeqProperties
      <3>3. sql[k] \in Alphabet BY <2>1 DEF N
      <3> QED BY <3>2, <3>3
    <2> HIDE DEF s, c
    <2>9. Expected(k) = a \o (s \o c)
      <3> HIDE DEF S, Holds, j, k
      <3>1. a \in Seq(Alphabet) /\ s \in Seq(Alphabet) /\ c \in Seq(Alphabet) BY <1>4, <2>8
      <3>2. Associate(a, s, c) BY <3>1, Associates
      <3>3. (a \o s) \o c = a \o (s \o c) BY <3>2, Zenon DEF Associate
      <3> QED BY <3>3, <2>3, <2>6
    <2>10. \A i : i = k + 1 => Counted(i) = Counted(n)
      <3> HIDE DEF k, j, S
      <3> TAKE i
      <3> HAVE i = k + 1
      <3>1. i \in Nat BY <2>1
      <3>2. Counted(i) = Counted(k) BY <2>1, <2>5, <3>1, CountsOne
      <3> QED BY <3>2, <2>4
    <2>11. Holds(k) BY <2>7, <2>9, <2>10
    <2> HIDE DEF Holds, k
    <2> QED BY <2>1, <2>11
  <1> HIDE DEF S, Holds
  <1>7. 0..M \subseteq S BY <1>2, <1>5, <1>6, CountUp
  <1>8. Holds(last)
    <2>1. M \in S BY <1>2, <1>7
    <2> QED BY <2>1, <1>2 DEF S
  <1>9. Expected(last) = a \o SubSeq(sql, n, last) /\ Counted(end) = Counted(n)
    BY <1>8 DEF Holds
  <1>10. SubSeq(sql, n, last) \in Seq(Alphabet)
    <2>1. \A i \in n..last : sql[i] \in Alphabet BY <1>1, <1>2 DEF N
    <2> QED BY <2>1, SubSeqProperties
  <1>11. a \o SubSeq(sql, n, last) \in Seq(Alphabet) BY <1>4, <1>10, ConcatProperties
  <1> QED BY <1>9, <1>11 DEF a

\* Copying what has no place keeps the invariant.
LEMMA CopyKeeps ==
  ASSUME BindingInv, Scanning, NEW end, Skips(at, end), Copy(end)
  PROVE  BindingInv'
  <1> DEFINE m == at - 1
             last == end - 1
  <1>1. /\ sql \in Seq(Alphabet) /\ parameters \in Seq(Values) /\ at \in 1..Len(sql)
        /\ bound \in 0..Len(parameters) /\ scan = "scanning" /\ bound = Counted(at)
        /\ out \in Seq(Alphabet) /\ out = Expected(m)
    <2>1. Len(sql) \in Nat /\ Last = Len(sql) + 1 BY ReadsOn DEF BindingInv
    <2> QED BY <2>1 DEF BindingInv, Scanning
  <1>2. end \in 1..Last /\ Settled(end) /\ end \in at + 1..Last
    <2>1. Last = Len(sql) + 1 /\ Len(sql) \in Nat BY <1>1, ReadsOn
    <2> QED BY <2>1, <1>1 DEF Skips
  <1>3. m \in Nat /\ at = m + 1 /\ last \in Nat /\ end = last + 1 BY <1>1, <1>2
  <1>4. /\ out' = out \o SubSeq(sql, at, last) /\ at' = end
        /\ sql' = sql /\ parameters' = parameters /\ bound' = bound /\ scan' = scan
    BY DEF Copy
  <1>5. /\ Expected(last) = Expected(m) \o SubSeq(sql, at, last)
        /\ Expected(last) \in Seq(Alphabet) /\ Counted(end) = Counted(at)
    <2> HIDE DEF m, last
    <2> QED BY <1>1, <1>3, CopiesOver
  <1>6. /\ Last' = Last
        /\ \A n : Expected(n)' = Expected(n) /\ Counted(n)' = Counted(n)
                  /\ Settled(n)' = Settled(n)
    BY <1>4, TextRests
  <1>7. out' = Expected(last) /\ out' \in Seq(Alphabet) BY <1>1, <1>4, <1>5
  <1>8. at' - 1 = last /\ Places' = Places BY <1>4, TextRests
  <1> HIDE DEF last, m
  <1>9. Settled(at)' BY <1>2, <1>4, <1>6 DEF Settled
  <1>10. Counted(at)' = bound' BY <1>1, <1>4, <1>5, <1>8 DEF Counted
  <1>11. Expected(at - 1)' = Expected(last) BY <1>6, <1>8
  <1>12. at' \in 1..Last' /\ (bound \in 0..Len(parameters))' BY <1>1, <1>2, <1>4, <1>6
  <1> QED BY <1>1, <1>4, <1>7, <1>9, <1>10, <1>11, <1>12 DEF BindingInv

\* Where the scanner stands, a question mark is a place.
LEMMA InCode ==
  ASSUME BindingInv, Scanning
  PROVE  /\ sql \in Seq(Alphabet) /\ at \in 1..Len(sql) /\ Last = Len(sql) + 1
         /\ \/ Reading(sql)[at] = "code"
            \/ Reading(sql)[at] = "line" /\ sql[at] = Newline
         /\ \A k : k = at + 1 =>
              Reading(sql)[k] = Encloses(Reading(sql)[at], sql[at], Ahead(sql, at))
         /\ at \in Places <=> sql[at] = "?"
  <1>1. sql \in Seq(Alphabet) /\ at \in 1..Last /\ at < Last /\ Settled(at)
    BY DEF BindingInv, Scanning
  <1>2. /\ Len(sql) \in Nat /\ Last = Len(sql) + 1
        /\ \A n \in 1..Len(sql) : \A k : k = n + 1 =>
              Reading(sql)[k] = Encloses(Reading(sql)[n], sql[n], Ahead(sql, n))
    BY <1>1, ReadsOn
  <1>3. at \in 1..Len(sql) BY <1>1, <1>2
  <1>4. \/ Reading(sql)[at] = "code"
        \/ Reading(sql)[at] = "line" /\ sql[at] = Newline
    BY <1>1 DEF Settled
  <1>5. at \in Places <=> sql[at] = "?"
    <2>1. at \in Places => sql[at] = "?" BY <1>1, PlacesType
    <2>2. sql[at] = "?" => Reading(sql)[at] = "code" BY <1>4, Marks
    <2>3. sql[at] = "?" => at \in Places BY <1>1, <1>3, <2>2, PlacesType
    <2> QED BY <2>1, <2>3
  <1> QED BY <1>1, <1>2, <1>3, <1>4, <1>5

\* Each step of the scanner keeps the invariant.
LEMMA CopyingKeeps == BindingInv /\ (Quoted \/ LineComment \/ BlockComment \/ Plain) => BindingInv'
  <1> SUFFICES ASSUME BindingInv, Quoted \/ LineComment \/ BlockComment \/ Plain PROVE BindingInv'
    OBVIOUS
  <1>1. Scanning BY DEF Quoted, LineComment, BlockComment, Plain
  <1>2. /\ sql \in Seq(Alphabet) /\ at \in 1..Len(sql) /\ Last = Len(sql) + 1
        /\ \/ Reading(sql)[at] = "code"
           \/ Reading(sql)[at] = "line" /\ sql[at] = Newline
        /\ \A k : k = at + 1 =>
             Reading(sql)[k] = Encloses(Reading(sql)[at], sql[at], Ahead(sql, at))
        /\ at \in Places <=> sql[at] = "?"
    BY <1>1, InCode
  <1>3. CASE Quoted
    <2> DEFINE q == sql[at]
    <2>1. q \in {Quote, NameQuote} /\ Copy(AfterQuoted(q, at + 1)) BY <1>3 DEF Quoted
    <2>2. Reading(sql)[at] = "code" /\ at \notin Places BY <1>2, <2>1, Marks
    <2>3. \/ q = Quote /\ Reading(sql)[at + 1] = "string"
          \/ q = NameQuote /\ Reading(sql)[at + 1] = "name"
      <3>1. Reading(sql)[at + 1] = Encloses("code", q, Ahead(sql, at)) BY <1>2, <2>2
      <3> HIDE DEF q
      <3> QED BY <2>1, <3>1, Steps
    <2> HIDE DEF q
    <2>4. Skips(at, AfterQuoted(q, at + 1)) BY <1>2, <2>2, <2>3, QuotedSkips
    <2> QED BY <1>1, <2>1, <2>4, CopyKeeps
  <1>4. CASE LineComment
    <2>1. Pair(at, "-", "-") /\ Copy(AfterLine(at)) BY <1>4 DEF LineComment
    <2>2. Reading(sql)[at] = "code" BY <1>2, <2>1, Marks DEF Pair
    <2>3. Skips(at, AfterLine(at)) BY <1>2, <2>1, <2>2, LineSkips
    <2> QED BY <1>1, <2>1, <2>3, CopyKeeps
  <1>5. CASE BlockComment
    <2>1. Pair(at, "/", "*") /\ Copy(AfterBlock(at)) BY <1>5 DEF BlockComment
    <2>2. Reading(sql)[at] = "code" BY <1>2, <2>1, Marks DEF Pair
    <2>3. Skips(at, AfterBlock(at)) BY <1>2, <2>1, <2>2, BlockSkips
    <2> QED BY <1>1, <2>1, <2>3, CopyKeeps
  <1>6. CASE Plain
    <2> DEFINE c == sql[at]
               end == at + 1
    <2>1. /\ c \notin {Quote, NameQuote, "?"} /\ Copy(end)
          /\ ~Pair(at, "-", "-") /\ ~Pair(at, "/", "*")
      BY <1>6 DEF Plain
    <2>2. at \notin Places BY <1>2, <2>1
    <2>3. Reading(sql)[end] = Encloses(Reading(sql)[at], c, Ahead(sql, at)) BY <1>2
    <2>4. Reading(sql)[end] = "code"
      <3>1. CASE Reading(sql)[at] = "line" /\ c = Newline
        <4> HIDE DEF c, end
        <4> QED BY <2>3, <3>1, Steps
      <3>2. CASE Reading(sql)[at] = "code" /\ c \notin {"-", "/"}
        <4> HIDE DEF c, end
        <4> QED BY <2>1, <2>3, <3>2, Steps
      <3>3. CASE Reading(sql)[at] = "code" /\ c = "-"
        <4>1. Ahead(sql, at) # "-" BY <1>2, <2>1, <3>3, Marks DEF Ahead, Pair
        <4> HIDE DEF c, end
        <4> QED BY <2>3, <3>3, <4>1, Steps
      <3>4. CASE Reading(sql)[at] = "code" /\ c = "/"
        <4>1. Ahead(sql, at) # "*" BY <1>2, <2>1, <3>4, Marks DEF Ahead, Pair
        <4> HIDE DEF c, end
        <4> QED BY <2>3, <3>4, <4>1, Steps
      <3> QED BY <1>2, <3>1, <3>2, <3>3, <3>4
    <2>5. Skips(at, end)
      <3>1. end \in at + 1..Last /\ \A j \in at..end - 1 : j = at BY <1>2
      <3>2. Settled(end) BY <2>4 DEF Settled
      <3> HIDE DEF end
      <3> QED BY <3>1, <3>2, <2>2 DEF Skips
    <2> HIDE DEF end
    <2> QED BY <1>1, <2>1, <2>5, CopyKeeps
  <1> QED BY <1>3, <1>4, <1>5, <1>6

\* Writing a value in its place keeps the invariant, and a value too few is noticed.
LEMMA PlaceholderKeeps == BindingInv /\ Placeholder => BindingInv'
  <1> SUFFICES ASSUME BindingInv, Placeholder PROVE BindingInv' OBVIOUS
  <1> DEFINE m == at - 1
             next == at + 1
  <1>1. Scanning /\ sql[at] = "?" /\ sql' = sql /\ parameters' = parameters BY DEF Placeholder
  <1>2. /\ sql \in Seq(Alphabet) /\ at \in 1..Len(sql) /\ Last = Len(sql) + 1
        /\ \/ Reading(sql)[at] = "code"
           \/ Reading(sql)[at] = "line" /\ sql[at] = Newline
        /\ \A k : k = at + 1 =>
             Reading(sql)[k] = Encloses(Reading(sql)[at], sql[at], Ahead(sql, at))
        /\ at \in Places
    BY <1>1, InCode
  <1>3. /\ parameters \in Seq(Values) /\ bound \in 0..Len(parameters) /\ bound = Counted(at)
        /\ out \in Seq(Alphabet) /\ out = Expected(m) /\ scan = "scanning"
    BY <1>1 DEF BindingInv, Scanning
  <1>4. /\ Last' = Last /\ Places' = Places
        /\ \A n : Expected(n)' = Expected(n) /\ Counted(n)' = Counted(n)
                  /\ Settled(n)' = Settled(n)
    BY <1>1, TextRests
  <1>5. /\ at \in Nat /\ next \in Nat /\ m \in 0..Len(sql) /\ at = m + 1 /\ next - 1 = at
        /\ next \in 1..Last
    BY <1>2
  <1>6. /\ Counted(next) = bound + 1 /\ {p \in Places : p <= at} = {p \in Places : p < next}
        /\ Counted(next) <= Cardinality(Places) /\ Cardinality(Places) \in Nat
        /\ bound \in Nat /\ Len(parameters) \in Nat
    <2> HIDE DEF next
    <2>1. next = at + 1 BY DEF next
    <2>2. Counted(next) <= Cardinality(Places) BY <1>2, <1>5, CountsOne
    <2>3. /\ Counted(next) = Counted(at) + 1
          /\ {p \in Places : p <= at} = {p \in Places : p < next}
          /\ Cardinality(Places) \in Nat
      BY <1>2, <1>5, <2>1, CountsOne
    <2> QED BY <2>2, <2>3, <1>3
  <1>7. CASE bound = Len(parameters)
    <2>1. scan' = "raised" /\ at' = at /\ out' = out /\ bound' = bound
      BY <1>7 DEF Placeholder
    <2>2. Len(parameters) # Cardinality(Places) BY <1>6, <1>7
    <2> HIDE DEF next, m
    <2>3. (at \in 1..Last)' /\ (bound \in 0..Len(parameters))' BY <1>1, <1>2, <1>3, <1>4, <2>1
    <2> QED BY <1>1, <1>2, <1>3, <1>4, <2>1, <2>2, <2>3 DEF BindingInv
  <1>8. CASE bound # Len(parameters)
    <2> DEFINE v == parameters[bound + 1]
    <2>1. /\ scan' = scan /\ at' = next /\ bound' = bound + 1 /\ out' = out \o Literal(v)
      BY <1>8 DEF Placeholder
    <2>2. bound + 1 \in 1..Len(parameters) /\ bound + 1 \in 0..Len(parameters)
      BY <1>3, <1>6, <1>8
    <2>3. v \in Values BY <1>3, <2>2
    <2>4. Literal(v) \in Seq(Alphabet) BY <2>3, LiteralType
    <2>5. Piece(at) = Literal(v)
      <3>1. Cardinality({p \in Places : p <= at}) = bound + 1 BY <1>6 DEF Counted
      <3> QED BY <3>1, <1>2, Zenon DEF Piece
    <2> HIDE DEF v, next, m
    <2>6. Expected(at) = Expected(m) \o Piece(at) BY <1>2, <1>5, ExpectedGrows
    <2>7. out' = Expected(at) /\ out' \in Seq(Alphabet)
      BY <2>1, <2>4, <2>5, <2>6, <1>3, ConcatProperties
    <2>8. Settled(at)'
      <3>1. "?" \notin {Quote, NameQuote, "-", "/"} BY Marks
      <3>2. Reading(sql)[at] = "code" BY <1>1, <1>2, Marks
      <3>3. Reading(sql)[next] = "code" BY <1>1, <1>2, <3>1, <3>2, Steps DEF next
      <3> QED BY <3>3, <2>1, <1>1 DEF Settled
    <2>9. Counted(at)' = bound' BY <1>4, <1>6, <2>1 DEF Counted
    <2>10. Expected(at - 1)' = Expected(at)
      <3>1. at' - 1 = at BY <1>5, <2>1
      <3> QED BY <1>4, <3>1
    <2>11. (at \in 1..Last)' /\ (bound \in 0..Len(parameters))'
      BY <1>1, <1>4, <1>5, <2>1, <2>2
    <2> QED BY <1>1, <1>2, <1>3, <2>1, <2>7, <2>8, <2>9, <2>10, <2>11 DEF BindingInv
  <1> QED BY <1>7, <1>8

\* At the end a value too many is noticed.
LEMMA FinishedKeeps == BindingInv /\ Finished => BindingInv'
  <1> SUFFICES ASSUME BindingInv, Finished PROVE BindingInv' OBVIOUS
  <1>1. /\ scan = "scanning" /\ at = Last /\ sql' = sql /\ parameters' = parameters
        /\ at' = at /\ out' = out /\ bound' = bound
        /\ scan' = IF bound = Len(parameters) THEN "rendered" ELSE "raised"
    BY DEF Finished
  <1>2. /\ sql \in Seq(Alphabet) /\ parameters \in Seq(Values) /\ bound \in 0..Len(parameters)
        /\ bound = Counted(at) /\ out \in Seq(Alphabet) /\ out = Expected(at - 1)
        /\ at \in 1..Last
    BY <1>1 DEF BindingInv
  <1>3. Len(sql) \in Nat /\ Last = Len(sql) + 1 BY <1>2, ReadsOn
  <1>4. at - 1 = Len(sql) BY <1>1, <1>3
  <1>5. out = Expected(Len(sql)) BY <1>2, <1>4
  <1>6. Counted(at) = Cardinality(Places)
    <2>1. \A p \in Places : p < at BY <1>1, <1>2, <1>3, PlacesType
    <2>2. {p \in Places : p < at} = Places BY <2>1
    <2> QED BY <2>2 DEF Counted
  <1>7. /\ Last' = Last /\ Places' = Places
        /\ \A n : Expected(n)' = Expected(n) /\ Counted(n)' = Counted(n)
                  /\ Settled(n)' = Settled(n)
    BY <1>1, TextRests
  <1>8. scan' # "scanning" BY <1>1
  <1>9. scan' = "rendered" => Len(parameters) = Cardinality(Places) /\ out' = Expected(Len(sql))'
    BY <1>1, <1>2, <1>5, <1>6, <1>7
  <1>10. scan' = "raised" => Len(parameters) # Cardinality(Places)
    BY <1>1, <1>2, <1>6
  <1> QED BY <1>1, <1>2, <1>7, <1>8, <1>9, <1>10 DEF BindingInv

\* The invariant is inductive.
THEOREM BindingInductive == BindingSpec => []BindingInv
  <1>1. BindingInv /\ [BindingNext]_bindingVars => BindingInv'
    <2> SUFFICES ASSUME BindingInv, [BindingNext]_bindingVars PROVE BindingInv' OBVIOUS
    <2>1. CASE Quoted \/ LineComment \/ BlockComment \/ Plain BY <2>1, CopyingKeeps
    <2>2. CASE Placeholder BY <2>2, PlaceholderKeeps
    <2>3. CASE Finished BY <2>3, FinishedKeeps
    <2>4. CASE UNCHANGED bindingVars
      <3>1. /\ sql' = sql /\ parameters' = parameters /\ at' = at /\ out' = out
            /\ bound' = bound /\ scan' = scan
        BY <2>4 DEF bindingVars
      <3>2. /\ Last' = Last /\ Places' = Places
            /\ \A n : Expected(n)' = Expected(n) /\ Counted(n)' = Counted(n)
                      /\ Settled(n)' = Settled(n)
        BY <3>1, TextRests
      <3>3. Settled(at)' <=> Settled(at) BY <3>1, <3>2 DEF Settled
      <3>4. Counted(at)' = Counted(at) BY <3>1, <3>2 DEF Counted
      <3>5. Expected(at - 1)' = Expected(at - 1) BY <3>1, <3>2
      <3>6. Expected(Len(sql))' = Expected(Len(sql)) BY <3>1, <3>2
      <3> QED BY <3>1, <3>2, <3>3, <3>4, <3>5, <3>6 DEF BindingInv
    <2> QED BY <2>1, <2>2, <2>3, <2>4 DEF BindingNext
  <1> QED BY <1>1, BindingInitHolds, PTL DEF BindingSpec

\* The values end up in the places of the text, each where the statement has its
\* placeholder, the count fits, and the text around them is read as it was before.
THEOREM ValuesInPlace == BindingSpec => []BoundAsWritten
  <1>1. BindingInv => BoundAsWritten
    <2> SUFFICES ASSUME BindingInv PROVE BoundAsWritten OBVIOUS
    <2>1. CASE scan = "rendered"
      <3>1. /\ Len(parameters) = Cardinality(Places) /\ out = Expected(Len(sql))
            /\ sql \in Seq(Alphabet) /\ parameters \in Seq(Values)
        BY <2>1 DEF BindingInv
      <3>2. MinusMeetsMinus \/ ReadsAlike BY <3>1, ValuesLeaveReading
      <3> QED BY <2>1, <3>1, <3>2 DEF BoundAsWritten
    <2>2. CASE scan = "raised" BY <2>2 DEF BindingInv, BoundAsWritten
    <2>3. CASE scan \notin {"rendered", "raised"} BY <2>3 DEF BoundAsWritten
    <2> QED BY <2>1, <2>2, <2>3
  <1> QED BY <1>1, BindingInductive, PTL

-----------------------------------------------------------------------------
(* Sequences put together. *)

\* What is put together is put together once.
LEMMA AssembledOnce ==
  ASSUME NEW N \in Nat, NEW h, NEW e, NEW g, Assembles(e, N, h), Assembles(g, N, h)
  PROVE  \A k \in 0..N : e[k] = g[k]
  <1> DEFINE S == {k \in 0..N : e[k] = g[k]}
  <1>1. 0 \in S
    <2>1. 0 \in 0..N OBVIOUS
    <2>2. e[0] = <<>> /\ g[0] = <<>> BY <2>1, Zenon DEF Assembles
    <2> QED BY <2>1, <2>2
  <1>2. ASSUME NEW n \in 0..N, n \in S, n < N PROVE n + 1 \in S
    <2> DEFINE k == n + 1
    <2>1. k \in 0..N /\ k # 0 /\ k - 1 = n /\ e[n] = g[n] BY <1>2
    <2> HIDE DEF k
    <2>2. e[k] = e[k - 1] \o h[k] /\ g[k] = g[k - 1] \o h[k] BY <2>1, Zenon DEF Assembles
    <2>3. e[k] = g[k] BY <2>1, <2>2
    <2> QED BY <2>1, <2>3 DEF k
  <1> HIDE DEF S
  <1>3. 0..N \subseteq S BY <1>1, <1>2, CountUp
  <1> QED BY <1>3 DEF S

\* The same from the end: f[k] is what is put together from k on, with t behind it.
Trails(f, N, h, t) ==
  /\ f[N + 1] = t
  /\ \A k \in 1..N : \A j \in 1..N + 1 : j = k + 1 => f[k] = h[k] \o f[j]

LEMMA Trailing ==
  ASSUME NEW N \in Nat, NEW T, NEW h \in [1..N -> Seq(T)], NEW t \in Seq(T)
  PROVE  \E f \in [1..N + 1 -> Seq(T)] : Trails(f, N, h, t)
  <1> DEFINE P == Seq(T)
             H == [m \in 1..N |-> [x \in P |-> h[m] \o x]]
             next == [m \in 1..N |-> m + 1]
  <1>1. H \in [1..N -> [P -> P]]
    <2>1. \A m \in 1..N : \A x \in P : h[m] \o x \in P BY ConcatProperties
    <2> QED BY <2>1
  <1>2. next \in [1..N -> 1..N + 1] /\ \A m \in 1..N : m < next[m] OBVIOUS
  <1>3. PICK f \in [1..N + 1 -> P] : f[N + 1] = t /\ \A m \in 1..N : f[m] = H[m][f[next[m]]]
    <2> HIDE DEF P, H, next
    <2>1. t \in P BY DEF P
    <2>2. Recurs(N, P, t, H, next) BY <1>1, <1>2, <2>1 DEF Recurs
    <2>3. Solvable(N, P, t, H, next) BY <2>2, Downward
    <2> QED BY <2>3 DEF Solvable
  <1>4. ASSUME NEW k \in 1..N, NEW j \in 1..N + 1, j = k + 1 PROVE f[k] = h[k] \o f[j]
    <2>1. next[k] = j BY <1>4
    <2>2. f[j] \in P OBVIOUS
    <2>3. f[k] = H[k][f[j]] BY <1>3, <2>1
    <2> HIDE DEF P
    <2> QED BY <2>2, <2>3
  <1> QED BY <1>3, <1>4 DEF Trails

\* The two meet anywhere.
Meets(e, f, N, h, t, T) ==
  /\ e[N] \o t = f[1]
  /\ \A k \in 0..N : e[k] \in Seq(T)
  /\ e[0] = <<>>
  /\ \A j \in 0..N : \A k \in 1..N : k = j + 1 => e[k] = e[j] \o h[k]

LEMMA Joins ==
  ASSUME NEW N \in Nat, NEW T, NEW h \in [1..N -> Seq(T)], NEW t \in Seq(T),
         NEW e, Assembles(e, N, h), NEW f \in [1..N + 1 -> Seq(T)], Trails(f, N, h, t)
  PROVE  Meets(e, f, N, h, t, T)
  <1>1. /\ e[0] = <<>>
        /\ \A k \in 0..N : e[k] \in Seq(T)
        /\ \A j \in 0..N : \A k \in 1..N : k = j + 1 => e[k] = e[j] \o h[k]
    <2>1. Placed(e, N, h, T) BY Assembled
    <2> QED BY <2>1, Zenon DEF Placed
  <1> DEFINE S == {j \in 0..N : \A k \in 1..N + 1 : k = j + 1 => e[j] \o f[k] = f[1]}
  <1>2. 0 \in S
    <2>1. 1 \in 1..N + 1 /\ f[1] \in Seq(T) /\ 0 \in 0..N OBVIOUS
    <2>2. <<>> \o f[1] = f[1] BY <2>1
    <2>3. e[0] \o f[1] = f[1] BY <2>2, <1>1
    <2>4. \A k \in 1..N + 1 : k = 0 + 1 => k = 1 OBVIOUS
    <2>5. \A k \in 1..N + 1 : k = 0 + 1 => e[0] \o f[k] = f[1] BY <2>3, <2>4, Zenon
    <2> QED BY <2>1, <2>5
  <1>3. ASSUME NEW n \in 0..N, n \in S, n < N PROVE n + 1 \in S
    <2> DEFINE j == n + 1
    <2>1. j \in 1..N /\ j \in 0..N /\ j \in 1..N + 1 BY <1>3
    <2> SUFFICES ASSUME NEW k \in 1..N + 1, k = j + 1 PROVE e[j] \o f[k] = f[1]
      BY <2>1
    <2>2. e[n] \o f[j] = f[1] BY <1>3, <2>1
    <2> HIDE DEF S
    <2>3. e[j] = e[n] \o h[j] BY <1>1, <2>1
    <2>4. f[j] = h[j] \o f[k]
      <3> HIDE DEF j
      <3> QED BY <2>1, Zenon DEF Trails
    <2>5. e[n] \in Seq(T) /\ h[j] \in Seq(T) /\ f[k] \in Seq(T) BY <1>1, <2>1
    <2> HIDE DEF j
    <2>6. Associate(e[n], h[j], f[k]) BY <2>5, Associates
    <2>7. (e[n] \o h[j]) \o f[k] = e[n] \o (h[j] \o f[k]) BY <2>6, Zenon DEF Associate
    <2> QED BY <2>2, <2>3, <2>4, <2>7
  <1> HIDE DEF S
  <1>4. 0..N \subseteq S BY <1>2, <1>3, CountUp
  <1>5. e[N] \o t = f[1]
    <2>1. N \in S /\ N + 1 \in 1..N + 1 BY <1>4
    <2>2. e[N] \o f[N + 1] = f[1] BY <2>1 DEF S
    <2> QED BY <2>2 DEF Trails
  <1> QED BY <1>1, <1>5 DEF Meets

\* What adds nothing can be passed over.
Silent(h, m, k) == \A i \in m..k : h[i] = <<>>

PassedOver(N, T, h, t, f, m, j, k) ==
  /\ N \in Nat /\ h \in [1..N -> Seq(T)] /\ t \in Seq(T)
  /\ f \in [1..N + 1 -> Seq(T)] /\ Trails(f, N, h, t)
  /\ m \in 1..N + 1 /\ k \in m..N + 1 /\ k = j + 1 /\ j \in 0..N /\ Silent(h, m, j)

LEMMA PassesOver ==
  ASSUME NEW N, NEW T, NEW h, NEW t, NEW f, NEW m, NEW j, NEW k,
         PassedOver(N, T, h, t, f, m, j, k)
  PROVE  f[m] = f[k]
  <1>0. /\ N \in Nat /\ h \in [1..N -> Seq(T)] /\ t \in Seq(T)
        /\ f \in [1..N + 1 -> Seq(T)] /\ Trails(f, N, h, t)
        /\ m \in 1..N + 1 /\ k \in m..N + 1 /\ \A i \in m..k - 1 : h[i] = <<>>
    <2>1. k - 1 = j BY DEF PassedOver
    <2> QED BY <2>1 DEF PassedOver, Silent
  <1> DEFINE S == {d \in 0..k - m : f[m + d] = f[m]}
  <1>1. 0 \in S BY <1>0
  <1>2. ASSUME NEW d \in 0..k - m, d \in S, d < k - m PROVE d + 1 \in S
    <2> DEFINE i == m + d
               n == i + 1
    <2>1. i \in m..k - 1 /\ i \in 1..N /\ n \in 1..N + 1 /\ m + (d + 1) = n /\ d + 1 \in 0..k - m
      BY <1>0, <1>2
    <2>2. f[i] = f[m] BY <1>2
    <2>3. f[i] = h[i] \o f[n]
      <3> HIDE DEF S, i
      <3> QED BY <1>0, <2>1, Zenon DEF Trails
    <2>4. h[i] = <<>> /\ f[n] \in Seq(T) BY <1>0, <2>1
    <2> HIDE DEF i, n, S
    <2>5. <<>> \o f[n] = f[n] BY <2>4
    <2>6. f[n] = f[m] BY <2>2, <2>3, <2>4, <2>5
    <2> QED BY <2>1, <2>6 DEF S
  <1> HIDE DEF S
  <1>3. k - m \in Nat /\ m + (k - m) = k BY <1>0
  <1>4. 0..k - m \subseteq S BY <1>1, <1>2, <1>3, CountUp
  <1>5. k - m \in S BY <1>3, <1>4
  <1> QED BY <1>3, <1>5 DEF S

PassedUnder(N, T, h, e, p, m, q) ==
  /\ N \in Nat /\ h \in [1..N -> Seq(T)] /\ Assembles(e, N, h)
  /\ p \in 0..N /\ q \in p..N /\ m = p + 1 /\ Silent(h, m, q)

LEMMA PassesUnder ==
  ASSUME NEW N, NEW T, NEW h, NEW e, NEW p, NEW m, NEW q, PassedUnder(N, T, h, e, p, m, q)
  PROVE  e[p] = e[q]
  <1>0. /\ N \in Nat /\ h \in [1..N -> Seq(T)] /\ Assembles(e, N, h)
        /\ p \in 0..N /\ q \in p..N /\ \A i \in p + 1..q : h[i] = <<>>
    BY DEF PassedUnder, Silent
  <1>1. /\ \A k \in 0..N : e[k] \in Seq(T)
        /\ \A j \in 0..N : \A k \in 1..N : k = j + 1 => e[k] = e[j] \o h[k]
    <2>1. Placed(e, N, h, T) BY <1>0, Assembled
    <2> QED BY <2>1, Zenon DEF Placed
  <1> DEFINE S == {d \in 0..q - p : e[p + d] = e[p]}
  <1>2. 0 \in S BY <1>0
  <1>3. ASSUME NEW d \in 0..q - p, d \in S, d < q - p PROVE d + 1 \in S
    <2> DEFINE j == p + d
               k == j + 1
    <2>1. j \in 0..N /\ k \in 1..N /\ k \in p + 1..q /\ p + (d + 1) = k /\ d + 1 \in 0..q - p
      BY <1>0, <1>3
    <2>2. e[j] = e[p] BY <1>3
    <2>3. h[k] = <<>> /\ e[j] \in Seq(T) BY <1>0, <2>1, <1>1
    <2>4. e[k] = e[j] \o h[k]
      <3> HIDE DEF S, j
      <3> QED BY <2>1, <1>1
    <2> HIDE DEF j, k, S
    <2>5. e[j] \o <<>> = e[j] BY <2>3
    <2>6. e[k] = e[p] BY <2>2, <2>3, <2>4, <2>5
    <2> QED BY <2>1, <2>6 DEF S
  <1> HIDE DEF S
  <1>4. q - p \in Nat /\ p + (q - p) = q BY <1>0
  <1>5. 0..q - p \subseteq S BY <1>2, <1>3, <1>4, CountUp
  <1>6. q - p \in S BY <1>4, <1>5
  <1> QED BY <1>4, <1>6 DEF S

-----------------------------------------------------------------------------
(* The command line.  A line is told twice: what is typed for its pieces, and what is *)
(* heard of them.                                                               *)

Spelt == Words \cup OptionNames \cup {Argument, NoValue, "--"}
Tokens == Seq(Spelt)
Heard == Spelt \X Spelt

TypedFor(l, which) ==
  [n \in 1..Len(l.pieces) |-> IF n \in which THEN Typed(l.pieces[n]) ELSE <<>>]

HeardOf(l, which) ==
  [n \in 1..Len(l.pieces) |->
     IF n \in which THEN << <<l.pieces[n].option, l.pieces[n].value>> >> ELSE <<>>]

\* What is typed behind the pieces.
Marked(l) ==
  IF l.literal = <<>> THEN <<>>
  ELSE << <<"--">> >> \o [n \in 1..Len(l.literal) |-> <<l.literal[n]>>]

\* Of the pieces at these positions, what is typed for the first k, what is typed from
\* the k-th on with a tail behind it, and what is heard of the first k.
TypedTo(l, which) == CHOOSE e : Assembles(e, Len(l.pieces), TypedFor(l, which))

TypedFrom(l, which, tail) ==
  CHOOSE f \in [1..Len(l.pieces) + 1 -> Seq(Tokens)] :
    Trails(f, Len(l.pieces), TypedFor(l, which), tail)

HeardTo(l, which) == CHOOSE e : Assembles(e, Len(l.pieces), HeardOf(l, which))

LEMMA LineType ==
  ASSUME NEW l \in Lines
  PROVE  /\ Len(l.pieces) \in Nat /\ l.literal \in Seq(Words)
         /\ \A n \in 1..Len(l.pieces) :
              /\ l.pieces[n].option \in OptionNames \cup {Argument}
              /\ l.pieces[n].value \in Words \cup {NoValue}
              /\ l.pieces[n].joined \in BOOLEAN
              /\ l.pieces[n].option = Argument => l.pieces[n].value \notin OptionNames \cup {"--"}
  <1> DEFINE P == [option : OptionNames \cup {Argument}, value : Words \cup {NoValue},
                   joined : BOOLEAN]
             N == Len(l.pieces)
             p == l.pieces
  <1>1. l \in [pieces : Seq(P), literal : Seq(Words)] BY OptionsAssumption
  <1>2. p \in Seq(P) /\ l.literal \in Seq(Words) /\ N \in Nat BY <1>1
  <1>3. \A n \in 1..N : p[n] \in P
    <2> HIDE DEF P, p
    <2> QED BY <1>2 DEF p
  <1>4. \A n \in 1..N : /\ p[n].option \in OptionNames \cup {Argument}
                        /\ p[n].value \in Words \cup {NoValue} /\ p[n].joined \in BOOLEAN
    <2> HIDE DEF p
    <2> QED BY <1>3
  <1>5. \A n \in 1..N : p[n].option = Argument => p[n].value \notin OptionNames \cup {"--"}
    BY OptionsAssumption
  <1> QED BY <1>2, <1>4, <1>5

LEMMA TypedForType ==
  ASSUME NEW l \in Lines, NEW which
  PROVE  /\ TypedFor(l, which) \in [1..Len(l.pieces) -> Seq(Tokens)]
         /\ HeardOf(l, which) \in [1..Len(l.pieces) -> Seq(Heard)]
         /\ Marked(l) \in Seq(Tokens)
  <1>1. ASSUME NEW n \in 1..Len(l.pieces)
        PROVE  Typed(l.pieces[n]) \in Seq(Tokens) /\ HeardOf(l, which)[n] \in Seq(Heard)
    <2> DEFINE o == l.pieces[n].option
               v == l.pieces[n].value
    <2>1. o \in Spelt /\ v \in Spelt BY LineType DEF Spelt
    <2>2. <<o>> \in Tokens /\ <<v>> \in Tokens /\ <<o, v>> \in Tokens BY <2>1 DEF Tokens
    <2>3. /\ << <<o>> >> \in Seq(Tokens) /\ << <<v>> >> \in Seq(Tokens)
          /\ << <<o, v>> >> \in Seq(Tokens) /\ << <<o>>, <<v>> >> \in Seq(Tokens)
      <3> DEFINE a == <<o>>  b == <<v>>  c == <<o, v>>
      <3>1. a \in Tokens /\ b \in Tokens /\ c \in Tokens BY <2>2
      <3> HIDE DEF a, b, c
      <3>2. <<a>> \in Seq(Tokens) /\ <<b>> \in Seq(Tokens) /\ <<c>> \in Seq(Tokens)
            /\ <<a, b>> \in Seq(Tokens)
        BY <3>1
      <3> QED BY <3>2 DEF a, b, c
    <2>4. \/ Typed(l.pieces[n]) = << <<v>> >>
          \/ Typed(l.pieces[n]) = << <<o>> >>
          \/ Typed(l.pieces[n]) = << <<o, v>> >>
          \/ Typed(l.pieces[n]) = << <<o>>, <<v>> >>
      BY DEF Typed
    <2>5. <<o, v>> \in Heard BY <2>1 DEF Heard
    <2>6. << <<o, v>> >> \in Seq(Heard) /\ <<>> \in Seq(Heard)
      <3> DEFINE c == <<o, v>>
      <3>1. c \in Heard BY <2>5
      <3> HIDE DEF c
      <3>2. <<c>> \in Seq(Heard) /\ <<>> \in Seq(Heard) BY <3>1
      <3> QED BY <3>2 DEF c
    <2> QED BY <2>3, <2>4, <2>6 DEF HeardOf
  <1>2. <<>> \in Seq(Tokens) OBVIOUS
  <1>3. TypedFor(l, which) \in [1..Len(l.pieces) -> Seq(Tokens)] BY <1>1, <1>2 DEF TypedFor
  <1>4. HeardOf(l, which) \in [1..Len(l.pieces) -> Seq(Heard)]
    <2>1. HeardOf(l, which) = [n \in 1..Len(l.pieces) |-> HeardOf(l, which)[n]] BY DEF HeardOf
    <2> QED BY <1>1, <2>1
  <1>5. Marked(l) \in Seq(Tokens)
    <2> DEFINE w == [n \in 1..Len(l.literal) |-> <<l.literal[n]>>]
               d == << <<"--">> >>
    <2>1. l.literal \in Seq(Words) /\ Len(l.literal) \in Nat BY LineType
    <2>2. \A n \in 1..Len(l.literal) : <<l.literal[n]>> \in Tokens
      <3> TAKE n \in 1..Len(l.literal)
      <3>1. l.literal[n] \in Spelt BY <2>1 DEF Spelt
      <3> QED BY <3>1 DEF Tokens
    <2>3. w \in Seq(Tokens) BY <2>1, <2>2
    <2>4. d \in Seq(Tokens)
      <3> DEFINE c == <<"--">>
      <3>1. "--" \in Spelt BY DEF Spelt
      <3>2. c \in Tokens BY <3>1 DEF Tokens
      <3> HIDE DEF c
      <3>3. <<c>> \in Seq(Tokens) BY <3>2
      <3> QED BY <3>3 DEF c
    <2> HIDE DEF w, d
    <2>5. d \o w \in Seq(Tokens) BY <2>3, <2>4, ConcatProperties
    <2>6. Marked(l) = IF l.literal = <<>> THEN <<>> ELSE d \o w BY Zenon DEF Marked, d, w
    <2> QED BY <2>5, <2>6, <1>2
  <1> QED BY <1>3, <1>4, <1>5

LEMMA TypedUnfolds ==
  ASSUME NEW l \in Lines, NEW which, NEW tail \in Seq(Tokens)
  PROVE  /\ Assembles(TypedTo(l, which), Len(l.pieces), TypedFor(l, which))
         /\ Assembles(HeardTo(l, which), Len(l.pieces), HeardOf(l, which))
         /\ TypedFrom(l, which, tail) \in [1..Len(l.pieces) + 1 -> Seq(Tokens)]
         /\ Trails(TypedFrom(l, which, tail), Len(l.pieces), TypedFor(l, which), tail)
  <1> DEFINE N == Len(l.pieces)
             h == TypedFor(l, which)
             g == HeardOf(l, which)
  <1>1. N \in Nat /\ h \in [1..N -> Seq(Tokens)] BY LineType, TypedForType
  <1> HIDE DEF N, h, g
  <1>2. (\E e : Assembles(e, N, h)) /\ (\E e : Assembles(e, N, g))
    BY <1>1, Concatenated DEF Assembles
  <1>3. \E f \in [1..N + 1 -> Seq(Tokens)] : Trails(f, N, h, tail) BY <1>1, Trailing
  <1>4. Assembles(TypedTo(l, which), N, h) BY <1>2, Zenon DEF TypedTo, N, h
  <1>5. Assembles(HeardTo(l, which), N, g) BY <1>2, Zenon DEF HeardTo, N, g
  <1>6. /\ TypedFrom(l, which, tail) \in [1..N + 1 -> Seq(Tokens)]
        /\ Trails(TypedFrom(l, which, tail), N, h, tail)
    BY <1>3, Zenon DEF TypedFrom, N, h
  <1> QED BY <1>4, <1>5, <1>6 DEF N, h, g

\* All that is typed.
LEMMA ArgvIs ==
  ASSUME NEW l \in Lines
  PROVE  Argv(l) = TypedFrom(l, 1..Len(l.pieces), Marked(l))[1]
  <1> DEFINE N == Len(l.pieces)
             h == TypedFor(l, 1..N)
             e == TypedTo(l, 1..N)
             f == TypedFrom(l, 1..N, Marked(l))
             c == CHOOSE tokens : tokens = [n \in 0..Len(l.pieces) |->
                    IF n = 0 THEN <<>> ELSE tokens[n - 1] \o Typed(l.pieces[n])]
  <1>1. N \in Nat /\ h \in [1..N -> Seq(Tokens)] /\ Marked(l) \in Seq(Tokens)
    BY LineType, TypedForType
  <1>2. Assembles(e, N, h) /\ f \in [1..N + 1 -> Seq(Tokens)] /\ Trails(f, N, h, Marked(l))
    BY <1>1, TypedUnfolds
  <1>3. ASSUME NEW g
        PROVE  g = [n \in 0..Len(l.pieces) |->
                      IF n = 0 THEN <<>> ELSE g[n - 1] \o Typed(l.pieces[n])]
               <=> Assembles(g, N, h)
    <2>1. \A n \in 0..N : n # 0 => h[n] = Typed(l.pieces[n]) BY <1>1 DEF TypedFor
    <2> HIDE DEF h
    <2> QED BY <2>1 DEF Assembles
  <1>4. c = [n \in 0..Len(l.pieces) |->
               IF n = 0 THEN <<>> ELSE c[n - 1] \o Typed(l.pieces[n])]
    <2>1. e = [n \in 0..Len(l.pieces) |->
                 IF n = 0 THEN <<>> ELSE e[n - 1] \o Typed(l.pieces[n])]
      BY <1>2, <1>3
    <2> HIDE DEF e
    <2> QED BY <2>1, Zenon
  <1>5. Argv(l) = c[N] \o Marked(l) BY Zenon DEF Argv, Marked
  <1> HIDE DEF c, h, f, e
  <1>6. Assembles(c, N, h) BY <1>3, <1>4
  <1> HIDE DEF N
  <1>7. c[N] \o Marked(l) = f[1]
    <2>1. Meets(c, f, N, h, Marked(l), Tokens) BY <1>1, <1>2, <1>6, Joins
    <2> QED BY <2>1 DEF Meets
  <1> QED BY <1>5, <1>7 DEF f, N

\* All that is heard of the pieces at some positions.
LEMMA PickIs ==
  ASSUME NEW l \in Lines, NEW which
  PROVE  Pick(l, which) = HeardTo(l, which)[Len(l.pieces)]
  <1> DEFINE N == Len(l.pieces)
             h == HeardOf(l, which)
             e == HeardTo(l, which)
             c == CHOOSE picked : picked = [n \in 0..Len(l.pieces) |->
                    IF n = 0 THEN <<>>
                    ELSE picked[n - 1]
                           \o IF n \in which THEN << <<l.pieces[n].option, l.pieces[n].value>> >>
                              ELSE <<>>]
  <1>1. N \in Nat BY LineType
  <1>2. Assembles(e, N, h)
    <2>1. Marked(l) \in Seq(Tokens) BY TypedForType
    <2> QED BY <2>1, TypedUnfolds
  <1>3. ASSUME NEW g
        PROVE  g = [n \in 0..Len(l.pieces) |->
                    IF n = 0 THEN <<>>
                    ELSE g[n - 1]
                           \o IF n \in which THEN << <<l.pieces[n].option, l.pieces[n].value>> >>
                              ELSE <<>>]
               <=> Assembles(g, N, h)
    <2>1. \A n \in 0..N : n # 0 =>
            h[n] = IF n \in which THEN << <<l.pieces[n].option, l.pieces[n].value>> >> ELSE <<>>
      BY <1>1 DEF HeardOf
    <2> HIDE DEF h
    <2> QED BY <2>1 DEF Assembles
  <1>4. c = [n \in 0..Len(l.pieces) |->
                    IF n = 0 THEN <<>>
                    ELSE c[n - 1]
                           \o IF n \in which THEN << <<l.pieces[n].option, l.pieces[n].value>> >>
                              ELSE <<>>]
    <2>1. e = [n \in 0..Len(l.pieces) |->
                    IF n = 0 THEN <<>>
                    ELSE e[n - 1]
                           \o IF n \in which THEN << <<l.pieces[n].option, l.pieces[n].value>> >>
                              ELSE <<>>]
      BY <1>2, <1>3
    <2> HIDE DEF e
    <2> QED BY <2>1, Zenon
  <1>5. Pick(l, which) = c[N] BY Zenon DEF Pick
  <1> HIDE DEF c, h, e
  <1>6. Assembles(c, N, h) BY <1>3, <1>4
  <1> HIDE DEF N
  <1>7. N \in 0..N BY <1>1
  <1>8. c[N] = e[N] BY <1>1, <1>2, <1>6, <1>7, AssembledOnce
  <1> QED BY <1>5, <1>8 DEF e, N

\* A line that can be read as it is meant.
Good(l) == Complete(l) /\ ~SharesOption(l) /\ ~MasksOption(l)

\* An option as it is typed, by one who knows which options take values.
Fits(piece, known) ==
  /\ piece.option \in DOMAIN known
  /\ \/ /\ ~known[piece.option] /\ piece.value = NoValue
        /\ Typed(piece) = << <<piece.option>> >>
     \/ known[piece.option] /\ Typed(piece) = << <<piece.option, piece.value>> >>
     \/ /\ known[piece.option] /\ ~piece.joined
        /\ Typed(piece) = << <<piece.option>>, <<piece.value>> >>

LEMMA FitsWhenKnown ==
  ASSUME NEW l \in Lines, NEW n \in 1..Len(l.pieces), NEW known,
         \A o \in DOMAIN known : known[o] \in BOOLEAN,
         DOMAIN known \subseteq OptionNames, l.pieces[n].option \in DOMAIN known,
         known[l.pieces[n].option] <=> l.pieces[n].value # NoValue
  PROVE  Fits(l.pieces[n], known)
  <1> DEFINE p == l.pieces[n]
  <1>1. p.joined \in BOOLEAN BY LineType
  <1>2. p.option # Argument BY OptionsAssumption
  <1>3. Typed(p) = IF p.value = NoValue THEN << <<p.option>> >>
                   ELSE IF p.joined THEN << <<p.option, p.value>> >>
                        ELSE << <<p.option>>, <<p.value>> >>
    BY <1>1, <1>2 DEF Typed
  <1>4. p.option \in DOMAIN known /\ (known[p.option] <=> p.value # NoValue) OBVIOUS
  <1> HIDE DEF p
  <1>5. Fits(p, known) BY <1>1, <1>3, <1>4 DEF Fits
  <1> QED BY <1>5 DEF p

\* What the pieces of such a line are.
LEMMA GoodPieces ==
  ASSUME NEW l \in Lines, Good(l)
  PROVE  /\ CommandAt(l) \in Arguments(l) /\ \A k \in Arguments(l) : CommandAt(l) <= k
         /\ l.pieces[CommandAt(l)].value \in Commands
         /\ Arguments(l) \subseteq 1..Len(l.pieces) /\ Owned(l) \subseteq 1..Len(l.pieces)
         /\ \A n \in Arguments(l) : /\ Typed(l.pieces[n]) = << <<l.pieces[n].value>> >>
                                    /\ l.pieces[n].value \notin OptionNames \cup {"--"}
                                    /\ n \notin Owned(l)
         /\ \A n \in Settings(l) : Fits(l.pieces[n], GLOBAL_OPTIONS)
         /\ \A n \in Owned(l) : /\ Fits(l.pieces[n], OwnOptions) /\ n > CommandAt(l)
                                /\ l.pieces[n].option \notin DOMAIN GLOBAL_OPTIONS
                                /\ ~l.pieces[n].joined =>
                                     l.pieces[n].value \notin DOMAIN GLOBAL_OPTIONS \cup {"--"}
  <1> DEFINE p == l.pieces
             N == Len(p)
             named == CommandAt(l)
  <1>1. /\ N \in Nat
        /\ \A n \in 1..N :
             /\ p[n].option \in OptionNames \cup {Argument}
             /\ p[n].option = Argument => p[n].value \notin OptionNames \cup {"--"}
    BY LineType
  <1>2. Arguments(l) \subseteq 1..N /\ Arguments(l) # {} BY DEF Good, Complete, Arguments
  <1>3. named \in Arguments(l) /\ \A k \in Arguments(l) : named <= k
    <2>1. Arguments(l) \subseteq Nat BY <1>1, <1>2
    <2>2. \E n \in Arguments(l) : \A k \in Arguments(l) : n <= k BY <1>2, <2>1, LeastOf
    <2> QED BY <2>2, Zenon DEF CommandAt
  <1>4. p[named].value \in Commands BY DEF Good, Complete
  <1>5. ASSUME NEW n \in Arguments(l)
        PROVE  /\ Typed(p[n]) = << <<p[n].value>> >>
               /\ p[n].value \notin OptionNames \cup {"--"} /\ n \notin Owned(l)
    <2>1. n \in 1..N /\ p[n].option = Argument BY DEF Arguments
    <2>2. Argument \notin DOMAIN OwnOptions BY OptionsAssumption DEF OptionNames
    <2>3. n \notin Owned(l) BY <2>1, <2>2 DEF Owned
    <2>4. Typed(p[n]) = << <<p[n].value>> >> BY <2>1 DEF Typed
    <2> QED BY <2>1, <2>3, <2>4, <1>1
  <1>6. ASSUME NEW n \in Settings(l) PROVE Fits(p[n], GLOBAL_OPTIONS)
    <2>1. n \in 1..N /\ p[n].option # Argument /\ n \notin Owned(l) BY DEF Settings, Arguments
    <2>2. p[n].option \in DOMAIN GLOBAL_OPTIONS
      <3>1. CASE n < named
        <4>1. n \in 1..named - 1 BY <3>1, <2>1, <1>2, <1>3
        <4> QED BY <4>1 DEF Good, Complete
      <3>2. CASE ~(n < named)
        <4>1. n # named BY <2>1, <1>3 DEF Arguments
        <4>2. n > named BY <3>2, <4>1, <2>1, <1>2, <1>3
        <4>3. p[n].option \notin DOMAIN OwnOptions BY <4>2, <2>1 DEF Owned
        <4> QED BY <4>3, <2>1, <1>1 DEF OptionNames
      <3> QED BY <3>1, <3>2
    <2>3. GLOBAL_OPTIONS[p[n].option] <=> p[n].value # NoValue BY DEF Good, Complete
    <2> QED BY <2>1, <2>2, <2>3, FitsWhenKnown, OptionsAssumption DEF OptionNames
  <1>7. ASSUME NEW n \in Owned(l)
        PROVE  /\ Fits(p[n], OwnOptions) /\ n > named
               /\ p[n].option \notin DOMAIN GLOBAL_OPTIONS
               /\ ~p[n].joined => p[n].value \notin DOMAIN GLOBAL_OPTIONS \cup {"--"}
    <2>1. n \in 1..N /\ n > named /\ p[n].option \in DOMAIN OwnOptions BY DEF Owned
    <2>2. OwnOptions[p[n].option] <=> p[n].value # NoValue BY DEF Good, Complete
    <2>3. Fits(p[n], OwnOptions)
      BY <2>1, <2>2, FitsWhenKnown, OptionsAssumption DEF OptionNames
    <2> QED BY <2>1, <2>3 DEF Good, SharesOption, MasksOption
  <1>8. Owned(l) \subseteq 1..N BY DEF Owned
  <1> QED BY <1>2, <1>3, <1>4, <1>5, <1>6, <1>7, <1>8

-----------------------------------------------------------------------------
(* Reading the line.  What is typed goes from one piece to the next, the pieces of dh *)
(* in front and those of the subcommand behind them once the line is hoisted.      *)

ForCommand(l) == Arguments(l) \cup Owned(l)

AllFrom(l) == TypedFrom(l, 1..Len(l.pieces), Marked(l))
HeadTo(l) == TypedTo(l, Settings(l))
RestTo(l) == TypedTo(l, ForCommand(l))
RestFrom(l) == TypedFrom(l, ForCommand(l), Marked(l))
HeadFrom(l) == TypedFrom(l, Settings(l), RestFrom(l)[1])

\* From one piece to the next.
Steady(l, which, tail) ==
  LET f == TypedFrom(l, which, tail)
      N == Len(l.pieces)
  IN /\ f \in [1..N + 1 -> Seq(Tokens)] /\ f[N + 1] = tail
     /\ \A k \in 1..N : \A j \in 1..N + 1 : j = k + 1 =>
          f[k] = IF k \in which THEN Typed(l.pieces[k]) \o f[j] ELSE f[j]

Building(l, which) ==
  LET e == TypedTo(l, which)
      g == HeardTo(l, which)
      N == Len(l.pieces)
  IN /\ e[0] = <<>> /\ g[0] = <<>>
     /\ \A k \in 0..N : e[k] \in Seq(Tokens) /\ g[k] \in Seq(Heard)
     /\ \A j \in 0..N : \A k \in 1..N : k = j + 1 =>
          IF k \in which
          THEN /\ e[k] = e[j] \o Typed(l.pieces[k])
               /\ g[k] = g[j] \o << <<l.pieces[k].option, l.pieces[k].value>> >>
          ELSE e[k] = e[j] /\ g[k] = g[j]

LEMMA GoesOn ==
  ASSUME NEW l \in Lines, NEW which, NEW tail \in Seq(Tokens)
  PROVE  /\ Steady(l, which, tail) /\ Building(l, which)
         /\ TypedTo(l, which)[Len(l.pieces)] \o tail = TypedFrom(l, which, tail)[1]
  <1> DEFINE N == Len(l.pieces)
             h == TypedFor(l, which)
             i == HeardOf(l, which)
             e == TypedTo(l, which)
             g == HeardTo(l, which)
             f == TypedFrom(l, which, tail)
  <1>1. N \in Nat /\ h \in [1..N -> Seq(Tokens)] /\ i \in [1..N -> Seq(Heard)]
    BY LineType, TypedForType
  <1>2. /\ Assembles(e, N, h) /\ Assembles(g, N, i)
        /\ f \in [1..N + 1 -> Seq(Tokens)] /\ Trails(f, N, h, tail)
    BY TypedUnfolds
  <1>3. \A k \in 1..N :
          /\ h[k] = IF k \in which THEN Typed(l.pieces[k]) ELSE <<>>
          /\ i[k] = IF k \in which THEN << <<l.pieces[k].option, l.pieces[k].value>> >> ELSE <<>>
    BY DEF TypedFor, HeardOf
  <1> HIDE DEF N, h, i, e, g, f
  <1>4. Meets(e, f, N, h, tail, Tokens) BY <1>1, <1>2, Joins
  <1>5. Placed(g, N, i, Heard) BY <1>1, <1>2, Assembled
  <1>6. Steady(l, which, tail)
    <2>1. ASSUME NEW k \in 1..N, NEW j \in 1..N + 1, j = k + 1
          PROVE  f[k] = IF k \in which THEN Typed(l.pieces[k]) \o f[j] ELSE f[j]
      <3>1. f[k] = h[k] \o f[j] BY <1>2, <2>1 DEF Trails
      <3>2. f[j] \in Seq(Tokens) BY <1>2
      <3>3. <<>> \o f[j] = f[j] BY <3>2
      <3> QED BY <3>1, <3>3, <1>3
    <2>2. f[N + 1] = tail BY <1>2 DEF Trails
    <2> QED BY <2>1, <2>2, <1>2 DEF Steady, f, N
  <1>7. Building(l, which)
    <2>1. /\ e[0] = <<>> /\ g[0] = <<>>
          /\ \A k \in 0..N : e[k] \in Seq(Tokens) /\ g[k] \in Seq(Heard)
      BY <1>4, <1>5 DEF Meets, Placed
    <2>2. ASSUME NEW j \in 0..N, NEW k \in 1..N, k = j + 1
          PROVE  IF k \in which
                 THEN /\ e[k] = e[j] \o Typed(l.pieces[k])
                      /\ g[k] = g[j] \o << <<l.pieces[k].option, l.pieces[k].value>> >>
                 ELSE e[k] = e[j] /\ g[k] = g[j]
      <3>1. e[k] = e[j] \o h[k] BY <1>4, <2>2 DEF Meets
      <3>2. g[k] = g[j] \o i[k]
        <4>1. \A jj \in 0..N : \A kk \in 1..N : kk = jj + 1 => g[kk] = g[jj] \o i[kk]
          BY <1>5, Zenon DEF Placed
        <4> QED BY <4>1, <2>2
      <3>3. e[j] \o <<>> = e[j] /\ g[j] \o <<>> = g[j]
        <4>1. e[j] \in Seq(Tokens) /\ g[j] \in Seq(Heard) BY <2>1
        <4> QED BY <4>1
      <3> QED BY <3>1, <3>2, <3>3, <1>3
    <2> QED BY <2>1, <2>2 DEF Building, e, g, N
  <1>8. e[N] \o tail = f[1] BY <1>4 DEF Meets
  <1> QED BY <1>6, <1>7, <1>8 DEF e, f, N

\* The next piece of those at some positions, or the end; nothing is typed or heard on
\* the way.
Nears(l, which, tail, m, p) ==
  \E k \in m..Len(l.pieces) + 1 : \E q \in 0..Len(l.pieces) :
    /\ k = q + 1 /\ (k = Len(l.pieces) + 1 \/ k \in which)
    /\ TypedFrom(l, which, tail)[m] = TypedFrom(l, which, tail)[k]
    /\ \A j \in m..q : j \notin which
    /\ \A s \in SUBSET which : HeardTo(l, s)[p] = HeardTo(l, s)[q]

LEMMA NextOf ==
  ASSUME NEW l \in Lines, NEW which, NEW tail \in Seq(Tokens),
         NEW p \in 0..Len(l.pieces), NEW m \in 1..Len(l.pieces) + 1, m = p + 1
  PROVE  Nears(l, which, tail, m, p)
  <1> DEFINE N == Len(l.pieces)
             h == TypedFor(l, which)
             f == TypedFrom(l, which, tail)
  <1>1. N \in Nat /\ h \in [1..N -> Seq(Tokens)] BY LineType, TypedForType
  <1>2. f \in [1..N + 1 -> Seq(Tokens)] /\ Trails(f, N, h, tail) BY TypedUnfolds
  <1>3. PICK k \in m..N + 1 : (k = N + 1 \/ k \in which) /\ \A j \in m..k - 1 : j \notin which
    <2> HIDE DEF h, f
    <2>1. HasFirst(m, N + 1, which)
      <3> DEFINE M == N + 1
      <3>1. M \in Nat /\ m \in Nat /\ m <= M BY <1>1
      <3> HIDE DEF M
      <3>2. HasFirst(m, M, which) BY <3>1, FirstFrom
      <3> QED BY <3>2 DEF M
    <2> QED BY <2>1 DEF HasFirst
  <1> DEFINE q == k - 1
  <1>4. q \in p..N /\ k = q + 1 /\ q \in 0..N BY <1>1
  <1>5. f[m] = f[k]
    <2>1. Silent(h, m, q) BY <1>1, <1>3 DEF TypedFor, Silent
    <2>2. k \in m..N + 1 /\ m \in 1..N + 1 /\ tail \in Seq(Tokens) OBVIOUS
    <2> HIDE DEF f, h, N, q
    <2>3. PassedOver(N, Tokens, h, tail, f, m, q, k)
      BY <1>1, <1>2, <1>4, <2>1, <2>2 DEF PassedOver
    <2> QED BY <2>3, PassesOver
  <1>6. ASSUME NEW s \in SUBSET which PROVE HeardTo(l, s)[p] = HeardTo(l, s)[q]
    <2> DEFINE e == HeardTo(l, s)
               i == HeardOf(l, s)
    <2>1. Assembles(e, N, i) /\ i \in [1..N -> Seq(Heard)] BY TypedUnfolds, TypedForType
    <2>2. Silent(i, m, q) BY <1>1, <1>3 DEF HeardOf, Silent
    <2>3. p \in 0..N /\ m = p + 1 OBVIOUS
    <2> HIDE DEF e, i, N, q
    <2>4. PassedUnder(N, Heard, i, e, p, m, q)
      BY <1>1, <1>4, <2>1, <2>2, <2>3 DEF PassedUnder
    <2>5. e[p] = e[q] BY <2>4, PassesUnder
    <2> QED BY <2>5 DEF e
  <1>7. \A j \in m..q : j \notin which BY <1>3
  <1> HIDE DEF q, f
  <1> QED BY <1>3, <1>4, <1>5, <1>6, <1>7 DEF Nears, f

\* The tokens in front.
Begins(s, a, x) ==
  /\ s # <<>> /\ Head(s) = a /\ Len(s) = Len(x) + 1 /\ Tail(s) = x
  /\ SubSeq(s, 1, 1) = <<a>> /\ SubSeq(s, 1 + 1, Len(s)) = x

LEMMA OneInFront ==
  ASSUME NEW T, NEW a \in T, NEW x \in Seq(T)
  PROVE  Begins(<<a>> \o x, a, x)
  <1> DEFINE s == <<a>> \o x
  <1>1. <<a>> \in Seq(T) /\ Len(<<a>>) = 1 /\ <<a>>[1] = a OBVIOUS
  <1>2. /\ s \in Seq(T) /\ Len(s) = 1 + Len(x) /\ s[1] = a
        /\ \A i \in 1..Len(x) : s[1 + i] = x[i]
    <2> DEFINE b == <<a>>
    <2>1. b \in Seq(T) /\ Len(b) = 1 /\ b[1] = a BY <1>1
    <2>2. s = b \o x OBVIOUS
    <2> HIDE DEF b, s
    <2>3. /\ b \o x \in Seq(T) /\ Len(b \o x) = Len(b) + Len(x)
          /\ \A i \in 1..Len(b) : (b \o x)[i] = b[i]
          /\ \A i \in 1..Len(x) : (b \o x)[Len(b) + i] = x[i]
      BY <2>1, ConcatAt
    <2> QED BY <2>1, <2>2, <2>3
  <1> HIDE DEF s
  <1>3. Len(x) \in Nat OBVIOUS
  <1>4. s # <<>> /\ Head(s) = a
    BY <1>2, <1>3
  <1>5. Tail(s) = x
    <2>1. Tail(s) \in Seq(T) /\ Len(Tail(s)) = Len(x)
          /\ \A i \in 1..Len(x) : Tail(s)[i] = s[i + 1]
      BY <1>2, <1>3, <1>4, HeadTailProperties
    <2>2. \A i \in 1..Len(x) : Tail(s)[i] = x[i] BY <2>1, <1>2
    <2> QED BY <2>1, <2>2, SeqEqual
  <1>6. SubSeq(s, 1, 1) = <<a>>
    <2>1. /\ SubSeq(s, 1, 1) \in Seq(T) /\ Len(SubSeq(s, 1, 1)) = 1 /\ SubSeq(s, 1, 1)[1] = a
      BY <1>2, <1>3
    <2>2. \A i \in 1..1 : SubSeq(s, 1, 1)[i] = <<a>>[i] BY <2>1, <1>1
    <2> QED BY <2>1, <2>2, <1>1, SeqEqual
  <1>7. SubSeq(s, 1 + 1, Len(s)) = x
    <2> DEFINE t == SubSeq(s, 1 + 1, Len(s))
    <2>1. t \in Seq(T) /\ Len(t) = Len(x) /\ \A i \in 1..Len(x) : t[i] = s[1 + i]
      BY <1>2, <1>3
    <2>2. \A i \in 1..Len(x) : t[i] = x[i] BY <2>1, <1>2
    <2> HIDE DEF t
    <2>3. t = x BY <2>1, <2>2, SeqEqual
    <2> QED BY <2>3 DEF t
  <1> QED BY <1>2, <1>3, <1>4, <1>5, <1>6, <1>7 DEF Begins, s

\* A pair is two put together.
LEMMA PairOf ==
  ASSUME NEW T, NEW a \in T, NEW b \in T
  PROVE  <<a, b>> = <<a>> \o <<b>>
  <1> DEFINE c == <<a>>  d == <<b>>
             e == <<a, b>>
  <1>1. /\ Len(c) = 1 /\ Len(d) = 1 /\ Len(e) = 2
        /\ c[1] = a /\ d[1] = b /\ e[1] = a /\ e[2] = b
    OBVIOUS
  <1>2. c \in Seq(T) /\ d \in Seq(T) /\ e \in Seq(T) OBVIOUS
  <1> HIDE DEF c, d, e
  <1>3. e = c \o d
    <2> DEFINE t == c \o d
    <2>1. /\ t \in Seq(T) /\ Len(t) = Len(c) + Len(d)
          /\ \A i \in 1..Len(c) : t[i] = c[i]
          /\ \A i \in 1..Len(d) : t[Len(c) + i] = d[i]
      BY <1>2, ConcatAt
    <2> HIDE DEF t
    <2>2. Len(t) = 2 /\ t[1] = a /\ t[2] = b BY <2>1, <1>1
    <2>3. \A i \in 1..2 : t[i] = e[i]
      <3>1. \A i \in 1..2 : i = 1 \/ i = 2 OBVIOUS
      <3> QED BY <3>1, <2>2, <1>1
    <2>4. t = e BY <2>1, <2>2, <2>3, <1>1, <1>2, SeqEqual
    <2> QED BY <2>4 DEF t
  <1> QED BY <1>3 DEF c, d, e

BeginsWithTwo(s, a, b, x) ==
  /\ Begins(s, a, <<b>> \o x) /\ Len(s) = Len(x) + 2 /\ s[2] = b
  /\ SubSeq(s, 1, 2) = <<a, b>> /\ SubSeq(s, 2 + 1, Len(s)) = x

LEMMA TwoInFront ==
  ASSUME NEW T, NEW a \in T, NEW b \in T, NEW x \in Seq(T)
  PROVE  BeginsWithTwo(<<a, b>> \o x, a, b, x)
  <1> DEFINE s == <<a, b>> \o x
             y == <<b>> \o x
  <1>1. Begins(y, b, x) BY OneInFront
  <1>2. y \in Seq(T) /\ <<a>> \in Seq(T) /\ <<b>> \in Seq(T) /\ <<a, b>> \in Seq(T) OBVIOUS
  <1>3. s = <<a>> \o y
    <2> DEFINE c == <<a>>  d == <<b>>
    <2>1. <<a, b>> = c \o d BY PairOf
    <2>2. c \in Seq(T) /\ d \in Seq(T) BY <1>2
    <2> HIDE DEF c, d
    <2>3. Associate(c, d, x) BY <2>2, Associates
    <2>4. (c \o d) \o x = c \o (d \o x) BY <2>3 DEF Associate
    <2> QED BY <2>1, <2>4 DEF c, d
  <1> HIDE DEF y
  <1>4. Begins(s, a, y)
    <2>1. Begins(<<a>> \o y, a, y) BY <1>2, OneInFront
    <2> QED BY <2>1, <1>3
  <1>5. s \in Seq(T)
    <2> DEFINE c == <<a>>
    <2>1. c \in Seq(T) BY <1>2
    <2> HIDE DEF c
    <2>2. c \o y \in Seq(T) BY <2>1, <1>2, ConcatProperties
    <2> QED BY <2>2, <1>3 DEF c
  <1> HIDE DEF s
  <1>6. /\ Len(x) \in Nat /\ Len(y) = Len(x) + 1 /\ Len(s) = Len(x) + 2 /\ Tail(s) = y
        /\ Head(y) = b /\ Head(s) = a /\ s # <<>> /\ y # <<>> /\ Tail(y) = x
    BY <1>1, <1>4 DEF Begins
  <1>7. /\ s[1] = a /\ s[2] = b /\ \A i \in 1..Len(x) : s[2 + i] = x[i]
    <2>1. \A i \in 1..Len(y) : y[i] = s[i + 1]
      BY <1>5, <1>6, HeadTailProperties
    <2>2. \A i \in 1..Len(x) : x[i] = y[i + 1]
      BY <1>2, <1>6, HeadTailProperties
    <2>3. s[1] = a /\ y[1] = b BY <1>6, <1>5, <1>2
    <2>4. s[2] = b BY <2>1, <2>3, <1>6
    <2>5. ASSUME NEW i \in 1..Len(x) PROVE s[2 + i] = x[i]
      <3>1. i + 1 \in 1..Len(y) /\ i + 1 + 1 = 2 + i BY <1>6
      <3>2. s[i + 1 + 1] = y[i + 1] BY <2>1, <3>1
      <3> QED BY <2>2, <3>1, <3>2
    <2> QED BY <2>3, <2>4, <2>5
  <1>8. SubSeq(s, 1, 2) = <<a, b>>
    <2> DEFINE t == SubSeq(s, 1, 2)
               c == <<a, b>>
    <2>1. t \in Seq(T) /\ Len(t) = 2 /\ t[1] = a /\ t[2] = b BY <1>5, <1>6, <1>7
    <2>2. c \in Seq(T) /\ Len(c) = 2 /\ c[1] = a /\ c[2] = b BY <1>2
    <2> HIDE DEF t, c
    <2>3. \A i \in 1..2 : t[i] = c[i] BY <2>1, <2>2
    <2>4. t = c BY <2>1, <2>2, <2>3, SeqEqual
    <2> QED BY <2>4 DEF t, c
  <1>9. SubSeq(s, 2 + 1, Len(s)) = x
    <2> DEFINE t == SubSeq(s, 2 + 1, Len(s))
    <2>1. t \in Seq(T) /\ Len(t) = Len(x) /\ \A i \in 1..Len(x) : t[i] = s[2 + i]
      BY <1>5, <1>6
    <2>2. \A i \in 1..Len(x) : t[i] = x[i] BY <2>1, <1>7
    <2> HIDE DEF t
    <2>3. t = x BY <2>1, <2>2, SeqEqual
    <2> QED BY <2>3 DEF t
  <1> QED BY <1>4, <1>6, <1>7, <1>8, <1>9 DEF BeginsWithTwo, s, y

\* A pass of the hoisting loop over one token, and over two.
LEMMA HoistsOne ==
  ASSUME NEW a \in Tokens, NEW x \in Seq(Tokens), left = <<a>> \o x, HoistToken,
         ~(/\ Head(a) \in DOMAIN GLOBAL_OPTIONS /\ Len(a) # 2 /\ GLOBAL_OPTIONS[Head(a)])
  PROVE  /\ left' = x
         /\ IF Head(a) \in DOMAIN GLOBAL_OPTIONS THEN head' = head \o <<a>> /\ rest' = rest
            ELSE rest' = rest \o <<a>> /\ head' = head
         /\ UNCHANGED <<line, reading, settings, options, arguments>>
  <1>1. Begins(left, a, x) BY OneInFront
  <1>2. /\ Head(left) = a /\ SubSeq(left, 1, 1) = <<a>> /\ SubSeq(left, 1 + 1, Len(left)) = x
    BY <1>1 DEF Begins
  <1>3. ~(IsGlobal /\ ~Joined /\ GLOBAL_OPTIONS[Name]) BY <1>2 DEF IsGlobal, Joined, Name
  <1>4. ~(IsGlobal /\ ~Joined /\ GLOBAL_OPTIONS[Name] /\ Len(left) > 1) BY <1>3
  <1>5. /\ IF IsGlobal THEN head' = head \o SubSeq(left, 1, 1) /\ UNCHANGED rest
           ELSE rest' = rest \o SubSeq(left, 1, 1) /\ UNCHANGED head
        /\ left' = SubSeq(left, 1 + 1, Len(left))
        /\ UNCHANGED <<line, reading, settings, options, arguments>>
    BY <1>4, Zenon DEF HoistToken
  <1>6. IsGlobal <=> Head(a) \in DOMAIN GLOBAL_OPTIONS BY <1>2 DEF IsGlobal, Name
  <1> QED BY <1>2, <1>5, <1>6

LEMMA HoistsTwo ==
  ASSUME NEW a \in Tokens, NEW b \in Tokens, NEW x \in Seq(Tokens), left = <<a, b>> \o x,
         HoistToken,
         Head(a) \in DOMAIN GLOBAL_OPTIONS, Len(a) # 2, GLOBAL_OPTIONS[Head(a)]
  PROVE  /\ left' = x /\ head' = head \o <<a, b>> /\ rest' = rest
         /\ UNCHANGED <<line, reading, settings, options, arguments>>
  <1>1. BeginsWithTwo(left, a, b, x) BY TwoInFront
  <1>2. /\ Head(left) = a /\ SubSeq(left, 1, 2) = <<a, b>> /\ SubSeq(left, 2 + 1, Len(left)) = x
        /\ Len(left) > 1
    BY <1>1 DEF BeginsWithTwo, Begins
  <1>3. IsGlobal /\ ~Joined /\ GLOBAL_OPTIONS[Name] BY <1>2 DEF IsGlobal, Joined, Name
  <1>5. /\ head' = head \o SubSeq(left, 1, 2) /\ UNCHANGED rest
        /\ left' = SubSeq(left, 2 + 1, Len(left))
        /\ UNCHANGED <<line, reading, settings, options, arguments>>
    BY <1>2, <1>3, Zenon DEF HoistToken
  <1> QED BY <1>2, <1>5

\* What the token in front looks like to the loop and to Click.
LEMMA InFront ==
  ASSUME NEW a \in Tokens, NEW x \in Seq(Tokens), left = <<a>> \o x, a # <<"--">>
  PROVE  /\ ~AtEnd /\ Name = Head(a) /\ left # <<>> /\ Tail(left) = x
         /\ Dashed <=> Head(a) \in OptionNames
  <1>1. Begins(left, a, x) BY OneInFront
  <1>2. left # <<>> /\ Head(left) = a /\ Tail(left) = x BY <1>1 DEF Begins
  <1> QED BY <1>2 DEF AtEnd, Name, Dashed

LEMMA MarkedInFront ==
  ASSUME NEW l \in Lines, left = Marked(l)
  PROVE  /\ AtEnd /\ ~Dashed
         /\ [n \in 1..Len(left) - 1 |-> left[n + 1][1]] = l.literal
  <1> DEFINE c == <<"--">>
             w == [n \in 1..Len(l.literal) |-> <<l.literal[n]>>]
             r == [n \in 1..Len(left) - 1 |-> left[n + 1][1]]
  <1>1. l.literal \in Seq(Words) /\ Len(l.literal) \in Nat BY LineType
  <1>2. CASE l.literal = <<>>
    <2>1. left = <<>> BY <1>2 DEF Marked
    <2>2. AtEnd /\ ~Dashed BY <2>1 DEF AtEnd, Dashed
    <2>3. Len(left) = 0 BY <2>1
    <2>4. r = <<>> BY <2>3
    <2> QED BY <2>2, <2>4, <1>2
  <1>3. CASE l.literal # <<>>
    <2>1. left = <<c>> \o w BY <1>3 DEF Marked
    <2>2. c \in Tokens
      <3>1. "--" \in Spelt BY DEF Spelt
      <3> QED BY <3>1 DEF Tokens
    <2>3. w \in Seq(Tokens) /\ Len(w) = Len(l.literal)
      <3>1. \A n \in 1..Len(l.literal) : <<l.literal[n]>> \in Tokens
        <4> TAKE n \in 1..Len(l.literal)
        <4>1. l.literal[n] \in Spelt BY <1>1 DEF Spelt
        <4> QED BY <4>1 DEF Tokens
      <3> QED BY <3>1, <1>1
    <2>4. Begins(left, c, w)
      <3> HIDE DEF c, w
      <3> QED BY <2>1, <2>2, <2>3, OneInFront
    <2>5. AtEnd /\ ~Dashed BY <2>4 DEF Begins, AtEnd, Dashed
    <2>6. \A n \in 1..Len(w) : left[n + 1] = w[n]
      <3>1. left \in Seq(Tokens)
        <4> DEFINE d == <<c>>
        <4>1. d \in Seq(Tokens) BY <2>2
        <4> HIDE DEF d, w
        <4>2. d \o w \in Seq(Tokens) BY <4>1, <2>3, ConcatProperties
        <4> QED BY <4>2, <2>1 DEF d
      <3> HIDE DEF w, c
      <3> QED BY <2>4, <3>1, HeadTailProperties DEF Begins
    <2>7. Len(left) - 1 = Len(l.literal) BY <2>3, <2>4, <1>1 DEF Begins
    <2>8. \A n \in 1..Len(l.literal) : r[n] = l.literal[n]
      <3> TAKE n \in 1..Len(l.literal)
      <3>1. left[n + 1] = w[n] BY <2>6, <2>3
      <3>2. w[n] = <<l.literal[n]>> OBVIOUS
      <3>3. r[n] = left[n + 1][1] BY <2>7
      <3> QED BY <3>1, <3>2, <3>3
    <2>9. r = [n \in 1..Len(l.literal) |-> r[n]] BY <2>7
    <2>10. l.literal = [n \in 1..Len(l.literal) |-> l.literal[n]] BY <1>1
    <2>11. r = l.literal
      <3> HIDE DEF r
      <3> QED BY <2>8, <2>9, <2>10
    <2> QED BY <2>5, <2>11
  <1> QED BY <1>2, <1>3

\* An option in front that is known and fits is heard, as one token or as two.
LEMMA Hears ==
  ASSUME NEW known, DOMAIN known \subseteq OptionNames,
         NEW piece, Fits(piece, known), piece.option \in Spelt, piece.value \in Spelt,
         NEW x \in Seq(Tokens), left = Typed(piece) \o x
  PROVE  /\ ~AtEnd /\ Dashed
         /\ ReadOption(known) =>
              /\ left' = x
              /\ IF reading = "dh"
                 THEN /\ settings' = Append(settings, <<piece.option, piece.value>>)
                      /\ options' = options
                 ELSE /\ options' = Append(options, <<piece.option, piece.value>>)
                      /\ settings' = settings
              /\ UNCHANGED <<line, reading, arguments>>
  <1> DEFINE o == piece.option
             v == piece.value
             a == <<o>>
             b == <<v>>
             ab == <<o, v>>
  <1>1. a \in Tokens /\ b \in Tokens /\ ab \in Tokens BY DEF Tokens
  <1>2. o \in DOMAIN known /\ o \in OptionNames /\ o # "--"
    BY OptionsAssumption DEF Fits
  <1>3. a # <<"--">> /\ ab # <<"--">> /\ Head(a) = o /\ Head(ab) = o /\ Len(a) = 1 /\ Len(ab) = 2
        /\ ab[2] = v /\ Head(b) = v
    BY <1>2
  <1>4. CASE ~known[o] /\ v = NoValue /\ Typed(piece) = <<a>>
    <2>1. Begins(left, a, x)
      <3> HIDE DEF a
      <3> QED BY <1>4, <1>1, OneInFront
    <2>2. Head(left) = a /\ left # <<>> /\ SubSeq(left, 1 + 1, Len(left)) = x /\ ~(1 > Len(left))
      BY <2>1 DEF Begins
    <2>3. ~AtEnd /\ Dashed BY <2>2, <1>2, <1>3 DEF AtEnd, Dashed, Name
    <2>4. Name = o /\ ~Joined
      <3> HIDE DEF o, v, a, b, ab
      <3>1. Len(Head(left)) = 1 BY <2>2, <1>3
      <3>2. Len(Head(left)) # 2
        <4>1. 1 # 2 OBVIOUS
        <4> QED BY <3>1, <4>1, Zenon
      <3> QED BY <2>2, <1>3, <3>2 DEF Name, Joined
    <2> HIDE DEF o, v, a, b, ab
    <2>5. ASSUME ReadOption(known)
          PROVE  /\ IF reading = "dh"
                    THEN settings' = Append(settings, <<Name, NoValue>>) /\ UNCHANGED options
                    ELSE options' = Append(options, <<Name, NoValue>>) /\ UNCHANGED settings
                 /\ left' = SubSeq(left, 1 + 1, Len(left))
                 /\ UNCHANGED <<line, reading, head, rest, arguments, problem>>
      <3>1. Name \in DOMAIN known /\ ~known[Name] BY <1>2, <1>4, <2>4
      <3> QED BY <2>2, <2>4, <2>5, <3>1, Zenon DEF ReadOption
    <2> QED BY <2>2, <2>3, <2>4, <2>5, <1>4 DEF o, v
  <1>5. CASE known[o] /\ Typed(piece) = <<ab>>
    <2>1. Begins(left, ab, x)
      <3> HIDE DEF ab
      <3> QED BY <1>5, <1>1, OneInFront
    <2>2. Head(left) = ab /\ left # <<>> /\ SubSeq(left, 1 + 1, Len(left)) = x /\ ~(1 > Len(left))
      BY <2>1 DEF Begins
    <2>3. ~AtEnd /\ Dashed BY <2>2, <1>2, <1>3 DEF AtEnd, Dashed, Name
    <2>4. Name = o /\ Joined /\ Head(left)[2] = v BY <2>2, <1>3 DEF Name, Joined
    <2> HIDE DEF o, v, a, b, ab
    <2>5. ASSUME ReadOption(known)
          PROVE  /\ IF reading = "dh"
                    THEN settings' = Append(settings, <<Name, Head(left)[2]>>) /\ UNCHANGED options
                    ELSE options' = Append(options, <<Name, Head(left)[2]>>) /\ UNCHANGED settings
                 /\ left' = SubSeq(left, 1 + 1, Len(left))
                 /\ UNCHANGED <<line, reading, head, rest, arguments, problem>>
      <3>1. Name \in DOMAIN known /\ known[Name] BY <1>2, <1>5, <2>4
      <3> QED BY <2>2, <2>4, <2>5, <3>1, Zenon DEF ReadOption
    <2> QED BY <2>2, <2>3, <2>4, <2>5, <1>5 DEF o, v
  <1>6. CASE known[o] /\ Typed(piece) = <<a, b>>
    <2>1. BeginsWithTwo(left, a, b, x)
      <3> HIDE DEF a, b
      <3> QED BY <1>6, <1>1, TwoInFront
    <2>2. /\ Head(left) = a /\ left # <<>> /\ SubSeq(left, 2 + 1, Len(left)) = x
          /\ left[2] = b /\ ~(2 > Len(left))
      BY <2>1 DEF Begins, BeginsWithTwo
    <2>3. ~AtEnd /\ Dashed BY <2>2, <1>2, <1>3 DEF AtEnd, Dashed, Name
    <2>4. Name = o /\ ~Joined /\ Head(left[2]) = v
      <3> HIDE DEF o, v, a, b, ab
      <3>1. Len(Head(left)) = 1 BY <2>2, <1>3
      <3>2. Len(Head(left)) # 2
        <4>1. 1 # 2 OBVIOUS
        <4> QED BY <3>1, <4>1, Zenon
      <3> QED BY <2>2, <1>3, <3>2 DEF Name, Joined
    <2> HIDE DEF o, v, a, b, ab
    <2>5. ASSUME ReadOption(known)
          PROVE  /\ IF reading = "dh"
                    THEN settings' = Append(settings, <<Name, Head(left[2])>>) /\ UNCHANGED options
                    ELSE options' = Append(options, <<Name, Head(left[2])>>) /\ UNCHANGED settings
                 /\ left' = SubSeq(left, 2 + 1, Len(left))
                 /\ UNCHANGED <<line, reading, head, rest, arguments, problem>>
      <3>1. Name \in DOMAIN known /\ known[Name] BY <1>2, <1>6, <2>4
      <3> QED BY <2>2, <2>4, <2>5, <3>1, Zenon DEF ReadOption
    <2> QED BY <2>2, <2>3, <2>4, <2>5, <1>6 DEF o, v
  <1>7. \/ ~known[o] /\ v = NoValue /\ Typed(piece) = <<a>>
        \/ known[o] /\ Typed(piece) = <<ab>>
        \/ known[o] /\ Typed(piece) = <<a, b>>
    BY DEF Fits
  <1> HIDE DEF o, v, a, b, ab
  <1> QED BY <1>4, <1>5, <1>6, <1>7

\* What one piece adds, to what is typed and to what is heard.
Adds(l, p, m, j) ==
  LET t == Typed(l.pieces[m])
      heard == << <<l.pieces[m].option, l.pieces[m].value>> >>
  IN /\ AllFrom(l)[m] = t \o AllFrom(l)[j]
     /\ AllFrom(l)[j] \in Seq(Tokens) /\ HeadFrom(l)[j] \in Seq(Tokens)
     /\ RestFrom(l)[j] \in Seq(Tokens) /\ RestTo(l)[p] \in Seq(Tokens)
     /\ \A s \in {Settings(l), Owned(l), Arguments(l)} : HeardTo(l, s)[p] \in Seq(Heard)
     /\ m \in Settings(l) \/ m \in Owned(l) \/ m \in Arguments(l)
     /\ m \in Settings(l) =>
          /\ HeadTo(l)[m] = HeadTo(l)[p] \o t /\ RestTo(l)[m] = RestTo(l)[p]
          /\ HeadFrom(l)[m] = t \o HeadFrom(l)[j]
     /\ m \in ForCommand(l) =>
          /\ RestTo(l)[m] = RestTo(l)[p] \o t /\ HeadTo(l)[m] = HeadTo(l)[p]
          /\ RestFrom(l)[m] = t \o RestFrom(l)[j]
     /\ \A s \in {Settings(l), Owned(l), Arguments(l)} :
          HeardTo(l, s)[m] = IF m \in s THEN HeardTo(l, s)[p] \o heard ELSE HeardTo(l, s)[p]

LEMMA PieceAdds ==
  ASSUME NEW l \in Lines, NEW p \in 0..Len(l.pieces), NEW m \in 1..Len(l.pieces),
         NEW j \in 1..Len(l.pieces) + 1, m = p + 1, j = m + 1
  PROVE  Adds(l, p, m, j)
  <1> DEFINE N == Len(l.pieces)
             t == Typed(l.pieces[m])
             heard == << <<l.pieces[m].option, l.pieces[m].value>> >>
             first == RestFrom(l)[1]
  <1>1. Marked(l) \in Seq(Tokens) /\ N \in Nat BY TypedForType, LineType
  <1>2. first \in Seq(Tokens)
    <2>1. Steady(l, ForCommand(l), Marked(l)) BY <1>1, GoesOn
    <2>2. 1 \in 1..N + 1 BY <1>1
    <2> QED BY <2>1, <2>2 DEF Steady, RestFrom
  <1>3. /\ Steady(l, 1..N, Marked(l)) /\ Steady(l, ForCommand(l), Marked(l))
        /\ Steady(l, Settings(l), first)
    <2> HIDE DEF N, first
    <2> QED BY <1>1, <1>2, GoesOn
  <1>4. /\ Building(l, Settings(l)) /\ Building(l, ForCommand(l))
        /\ Building(l, Owned(l)) /\ Building(l, Arguments(l))
    BY <1>1, GoesOn
  <1>5. /\ AllFrom(l) = TypedFrom(l, 1..N, Marked(l))
        /\ RestFrom(l) = TypedFrom(l, ForCommand(l), Marked(l))
        /\ HeadFrom(l) = TypedFrom(l, Settings(l), first)
        /\ HeadTo(l) = TypedTo(l, Settings(l)) /\ RestTo(l) = TypedTo(l, ForCommand(l))
    BY DEF AllFrom, RestFrom, HeadFrom, HeadTo, RestTo
  <1> HIDE DEF N, first, t, heard
  <1>6. /\ AllFrom(l)[j] \in Seq(Tokens) /\ HeadFrom(l)[j] \in Seq(Tokens)
        /\ RestFrom(l)[j] \in Seq(Tokens)
    BY <1>3, <1>5 DEF Steady, N
  <1>7. AllFrom(l)[m] = t \o AllFrom(l)[j] BY <1>3, <1>5 DEF Steady, N, t
  <1>8. m \in Settings(l) => HeadFrom(l)[m] = t \o HeadFrom(l)[j]
    BY <1>3, <1>5 DEF Steady, N, t
  <1>9. m \in ForCommand(l) => RestFrom(l)[m] = t \o RestFrom(l)[j]
    BY <1>3, <1>5 DEF Steady, N, t
  <1>10. RestTo(l)[p] \in Seq(Tokens) BY <1>4, <1>5 DEF Building
  <1>11. m \in Settings(l) \/ m \in Owned(l) \/ m \in Arguments(l) BY DEF Settings
  <1>12. m \in Settings(l) => m \notin ForCommand(l) BY DEF Settings, ForCommand
  <1>13. m \in Settings(l) => HeadTo(l)[m] = HeadTo(l)[p] \o t /\ RestTo(l)[m] = RestTo(l)[p]
    <2> SUFFICES ASSUME m \in Settings(l)
                 PROVE  HeadTo(l)[m] = HeadTo(l)[p] \o t /\ RestTo(l)[m] = RestTo(l)[p]
      OBVIOUS
    <2>1. HeadTo(l)[m] = HeadTo(l)[p] \o t
      <3>1. Building(l, Settings(l)) BY <1>4
      <3> QED BY <3>1, <1>5 DEF Building, t
    <2>2. RestTo(l)[m] = RestTo(l)[p]
      <3>1. Building(l, ForCommand(l)) /\ m \notin ForCommand(l) BY <1>4, <1>12
      <3> QED BY <3>1, <1>5 DEF Building
    <2> QED BY <2>1, <2>2
  <1>14. m \in ForCommand(l) => RestTo(l)[m] = RestTo(l)[p] \o t /\ HeadTo(l)[m] = HeadTo(l)[p]
    <2> SUFFICES ASSUME m \in ForCommand(l)
                 PROVE  RestTo(l)[m] = RestTo(l)[p] \o t /\ HeadTo(l)[m] = HeadTo(l)[p]
      OBVIOUS
    <2>1. RestTo(l)[m] = RestTo(l)[p] \o t
      <3>1. Building(l, ForCommand(l)) BY <1>4
      <3> QED BY <3>1, <1>5 DEF Building, t
    <2>2. HeadTo(l)[m] = HeadTo(l)[p]
      <3>1. Building(l, Settings(l)) /\ m \notin Settings(l) BY <1>4, <1>12
      <3> QED BY <3>1, <1>5 DEF Building
    <2> QED BY <2>1, <2>2
  <1>15. ASSUME NEW s \in {Settings(l), Owned(l), Arguments(l)}
         PROVE  /\ HeardTo(l, s)[p] \in Seq(Heard)
                /\ HeardTo(l, s)[m] = IF m \in s THEN HeardTo(l, s)[p] \o heard
                                      ELSE HeardTo(l, s)[p]
    <2>1. Building(l, s) BY <1>4
    <2> QED BY <2>1 DEF Building, heard
  <1> QED BY <1>6, <1>7, <1>8, <1>9, <1>10, <1>11, <1>13, <1>14, <1>15 DEF Adds, t, heard

\* Where the pieces begin and end.
Bounded(l) ==
  LET N == Len(l.pieces)
  IN /\ N \in Nat
     /\ AllFrom(l)[N + 1] = Marked(l) /\ RestFrom(l)[N + 1] = Marked(l)
     /\ HeadFrom(l)[N + 1] = RestFrom(l)[1]
     /\ HeadTo(l)[0] = <<>> /\ RestTo(l)[0] = <<>>
     /\ \A s \in {Settings(l), Owned(l), Arguments(l)} : HeardTo(l, s)[0] = <<>>
     /\ HeadTo(l)[N] \o (RestTo(l)[N] \o Marked(l)) = HeadFrom(l)[1]
     /\ Marked(l) \in Seq(Tokens) /\ RestFrom(l)[1] \in Seq(Tokens)

LEMMA PiecesBounded ==
  ASSUME NEW l \in Lines
  PROVE  Bounded(l)
  <1> DEFINE N == Len(l.pieces)
             first == RestFrom(l)[1]
  <1>1. Marked(l) \in Seq(Tokens) /\ N \in Nat BY TypedForType, LineType
  <1>2. first \in Seq(Tokens)
    <2>1. Steady(l, ForCommand(l), Marked(l)) BY <1>1, GoesOn
    <2>2. 1 \in 1..N + 1 BY <1>1
    <2> QED BY <2>1, <2>2 DEF Steady, RestFrom
  <1>3. /\ Steady(l, 1..N, Marked(l)) /\ Steady(l, ForCommand(l), Marked(l))
        /\ Steady(l, Settings(l), first)
        /\ TypedTo(l, ForCommand(l))[N] \o Marked(l) = TypedFrom(l, ForCommand(l), Marked(l))[1]
        /\ TypedTo(l, Settings(l))[N] \o first = TypedFrom(l, Settings(l), first)[1]
    <2> HIDE DEF first
    <2> QED BY <1>1, <1>2, GoesOn
  <1>4. /\ Building(l, Settings(l)) /\ Building(l, ForCommand(l))
        /\ Building(l, Owned(l)) /\ Building(l, Arguments(l))
    BY <1>1, GoesOn
  <1>5. /\ AllFrom(l) = TypedFrom(l, 1..N, Marked(l))
        /\ RestFrom(l) = TypedFrom(l, ForCommand(l), Marked(l))
        /\ HeadFrom(l) = TypedFrom(l, Settings(l), first)
        /\ HeadTo(l) = TypedTo(l, Settings(l)) /\ RestTo(l) = TypedTo(l, ForCommand(l))
    BY DEF AllFrom, RestFrom, HeadFrom, HeadTo, RestTo
  <1>6. first = RestFrom(l)[1] OBVIOUS
  <1> HIDE DEF first
  <1>7. /\ AllFrom(l)[N + 1] = Marked(l) /\ RestFrom(l)[N + 1] = Marked(l)
        /\ HeadFrom(l)[N + 1] = first
    BY <1>3, <1>5, Zenon DEF Steady
  <1>8. HeadTo(l)[0] = <<>> /\ RestTo(l)[0] = <<>> BY <1>4, <1>5, Zenon DEF Building
  <1>9. \A s \in {Settings(l), Owned(l), Arguments(l)} : HeardTo(l, s)[0] = <<>>
    BY <1>4 DEF Building
  <1>10. HeadTo(l)[N] \o (RestTo(l)[N] \o Marked(l)) = HeadFrom(l)[1]
    <2>1. RestTo(l)[N] \o Marked(l) = first BY <1>3, <1>5, <1>6, Zenon
    <2>2. HeadTo(l)[N] \o first = HeadFrom(l)[1] BY <1>3, <1>5, Zenon
    <2> QED BY <2>1, <2>2, Zenon
  <1> HIDE DEF N
  <1> QED BY <1>1, <1>2, <1>6, <1>7, <1>8, <1>9, <1>10, Zenon DEF Bounded, N

-----------------------------------------------------------------------------
(* The inductive invariant: at every moment the tokens not read yet are what is typed *)
(* from some piece on, and all else tells of the pieces before it.                *)

Between(l, p, m) == rest = RestTo(l)[p] /\ left = AllFrom(l)[m]

\* The loop does not know that the subcommand's option takes a value.
Inside(l, p, m) ==
  \E k \in 1..Len(l.pieces) + 1 :
    /\ k = m + 1 /\ m \in Owned(l) /\ ~l.pieces[m].joined
    /\ Typed(l.pieces[m]) = << <<l.pieces[m].option>>, <<l.pieces[m].value>> >>
    /\ rest = RestTo(l)[p] \o << <<l.pieces[m].option>> >>
    /\ left = << <<l.pieces[m].value>> >> \o AllFrom(l)[k]

AtHoist(l) ==
  /\ reading = "hoist" /\ settings = <<>> /\ options = <<>> /\ arguments = <<>>
  /\ \E p \in 0..Len(l.pieces) : \E m \in 1..Len(l.pieces) + 1 :
       /\ m = p + 1 /\ head = HeadTo(l)[p]
       /\ Between(l, p, m) \/ Inside(l, p, m)

AtDh(l) ==
  /\ reading = "dh" /\ options = <<>>
  /\ \E p \in 0..Len(l.pieces) : \E m \in 1..Len(l.pieces) + 1 :
       /\ m = p + 1 /\ (m = Len(l.pieces) + 1 \/ m \in Settings(l))
       /\ left = HeadFrom(l)[m] /\ settings = HeardTo(l, Settings(l))[p]

Seconds(w) == [n \in 1..Len(w) |-> w[n][2]]

AtCommand(l) ==
  /\ reading = "command" /\ settings = HeardTo(l, Settings(l))[Len(l.pieces)]
  /\ \E p \in 0..Len(l.pieces) : \E m \in 1..Len(l.pieces) + 1 :
       /\ m = p + 1 /\ (m = Len(l.pieces) + 1 \/ m \in ForCommand(l))
       /\ left = RestFrom(l)[m] /\ options = HeardTo(l, Owned(l))[p]
       /\ arguments = Seconds(HeardTo(l, Arguments(l))[p])

AtRead(l) ==
  /\ reading = "read" /\ settings = HeardTo(l, Settings(l))[Len(l.pieces)]
  /\ options = HeardTo(l, Owned(l))[Len(l.pieces)]
  /\ arguments = Seconds(HeardTo(l, Arguments(l))[Len(l.pieces)]) \o l.literal

Follows(l) == AtHoist(l) \/ AtDh(l) \/ AtCommand(l) \/ AtRead(l)

\* What is in front when a piece is next.
LEMMA ArgumentInFront ==
  ASSUME NEW l \in Lines, Good(l), NEW m \in Arguments(l), NEW x \in Seq(Tokens),
         left = Typed(l.pieces[m]) \o x
  PROVE  /\ ~AtEnd /\ ~Dashed /\ Name = l.pieces[m].value /\ Tail(left) = x /\ left # <<>>
  <1> DEFINE v == l.pieces[m].value
             a == <<v>>
  <1>1. m \in 1..Len(l.pieces) /\ Typed(l.pieces[m]) = <<a>> /\ v \notin OptionNames \cup {"--"}
    BY GoodPieces
  <1>2. v \in Spelt BY <1>1, LineType DEF Spelt
  <1>3. a \in Tokens /\ Head(a) = v /\ a # <<"--">> BY <1>1, <1>2 DEF Tokens
  <1> HIDE DEF v, a
  <1> QED BY <1>1, <1>3, InFront DEF v

LEMMA OptionInFront ==
  ASSUME NEW l \in Lines, Good(l), NEW m \in Settings(l) \cup Owned(l), NEW x \in Seq(Tokens),
         left = Typed(l.pieces[m]) \o x
  PROVE  /\ ~AtEnd /\ Dashed
  <1>1. m \in 1..Len(l.pieces) BY DEF Settings, Owned
  <1>2. l.pieces[m].option \in Spelt /\ l.pieces[m].value \in Spelt BY <1>1, LineType DEF Spelt
  <1>3. DOMAIN GLOBAL_OPTIONS \subseteq OptionNames /\ DOMAIN OwnOptions \subseteq OptionNames
    BY DEF OptionNames
  <1>4. Fits(l.pieces[m], GLOBAL_OPTIONS) \/ Fits(l.pieces[m], OwnOptions) BY GoodPieces
  <1> DEFINE piece == l.pieces[m]
  <1> HIDE DEF piece
  <1>5. left = Typed(piece) \o x BY DEF piece
  <1> QED BY <1>2, <1>3, <1>4, <1>5, Hears DEF piece

\* A pass of the loop: the piece, or the half of it that the loop sees, goes where it
\* belongs.
LEMMA PassFollows ==
  ASSUME NEW l \in Lines, Good(l), AtHoist(l), HoistToken
  PROVE  AtHoist(l)'
  <1> DEFINE N == Len(l.pieces)
  <1>1. Bounded(l) BY PiecesBounded
  <1>2. N \in Nat /\ AllFrom(l)[N + 1] = Marked(l) BY <1>1 DEF Bounded
  <1>3. PICK p \in 0..N, m \in 1..N + 1 :
          m = p + 1 /\ head = HeadTo(l)[p] /\ (Between(l, p, m) \/ Inside(l, p, m))
    BY DEF AtHoist
  <1>4. reading = "hoist" /\ settings = <<>> /\ options = <<>> /\ arguments = <<>> BY DEF AtHoist
  <1>5. m \in 1..N
    <2>1. CASE m = N + 1
      <3>1. m \notin Owned(l) BY <1>2, <2>1 DEF Owned
      <3>2. left = Marked(l) BY <1>2, <1>3, <2>1, <3>1 DEF Between, Inside
      <3>3. AtEnd BY <3>2, MarkedInFront
      <3> QED BY <3>3 DEF HoistToken
    <2> QED BY <2>1
  <1> DEFINE j == m + 1
             o == l.pieces[m].option
             v == l.pieces[m].value
             t == Typed(l.pieces[m])
             x == AllFrom(l)[j]
  <1>6. j \in 1..N + 1 /\ j = m + 1 /\ m \in 0..N BY <1>2, <1>5
  <1>7. Adds(l, p, m, j)
    <2> HIDE DEF j
    <2> QED BY <1>3, <1>5, <1>6, PieceAdds
  <1>8. o \in Spelt /\ v \in Spelt BY <1>5, LineType DEF Spelt
  <1>9. /\ <<o>> \in Tokens /\ <<v>> \in Tokens /\ <<o, v>> \in Tokens
        /\ Head(<<o>>) = o /\ Head(<<v>>) = v /\ Head(<<o, v>>) = o
        /\ Len(<<o>>) # 2 /\ Len(<<o, v>>) = 2
    BY <1>8 DEF Tokens
  <1>10. x \in Seq(Tokens) BY <1>7 DEF Adds
  <1> DEFINE Moved == /\ left' = x /\ head' = HeadTo(l)[m] /\ rest' = RestTo(l)[m]
             Unmoved == UNCHANGED <<reading, settings, options, arguments>>
  <1>11. ASSUME Moved, Unmoved PROVE AtHoist(l)'
    <2>1. Between(l, m, j)' BY <1>11 DEF Between
    <2> HIDE DEF j, x, N
    <2>2. head' = HeadTo(l)[m] BY <1>11
    <2>3. (reading = "hoist" /\ settings = <<>> /\ options = <<>> /\ arguments = <<>>)'
      BY <1>4, <1>11
    <2> QED BY <2>1, <2>2, <2>3, <1>6 DEF AtHoist, N
  <1>12. CASE Between(l, p, m)
    <2>1. left = t \o x BY <1>7, <1>12 DEF Adds, Between
    <2>2. rest = RestTo(l)[p] BY <1>12 DEF Between
    <2>3. CASE m \in Arguments(l)
      <3>1. t = << <<v>> >> /\ v \notin OptionNames BY <2>3, GoodPieces
      <3>2. left' = x /\ rest' = rest \o t /\ head' = head /\ Unmoved
        <4> DEFINE a == <<v>>
        <4>1. a \in Tokens /\ Head(a) \notin DOMAIN GLOBAL_OPTIONS /\ t = <<a>>
          BY <1>9, <3>1 DEF OptionNames
        <4> HIDE DEF a, x, t, v
        <4> QED BY <4>1, <2>1, <1>10, HoistsOne
      <3>3. m \in ForCommand(l) BY <2>3, SMTT(40) DEF ForCommand
      <3> QED BY <3>2, <3>3, <2>2, <1>3, <1>7, <1>11 DEF Adds
    <2>4. CASE m \in Settings(l)
      <3>1. Fits(l.pieces[m], GLOBAL_OPTIONS) BY <2>4, GoodPieces
      <3>2. left' = x /\ rest' = rest /\ head' = head \o t /\ Unmoved
        <4> DEFINE a == <<o>>
                   b == <<v>>
                   ab == <<o, v>>
        <4>1. /\ a \in Tokens /\ b \in Tokens /\ ab \in Tokens
              /\ Head(a) = o /\ Head(ab) = o /\ Len(a) # 2 /\ Len(ab) = 2
          BY <1>9
        <4>2. /\ o \in DOMAIN GLOBAL_OPTIONS
              /\ \/ ~GLOBAL_OPTIONS[o] /\ t = <<a>>
                 \/ GLOBAL_OPTIONS[o] /\ t = <<ab>>
                 \/ GLOBAL_OPTIONS[o] /\ t = <<a, b>>
          BY <3>1 DEF Fits
        <4> HIDE DEF a, b, ab, x, t, o, v
        <4>3. CASE ~GLOBAL_OPTIONS[o] /\ t = <<a>> BY <4>1, <4>2, <4>3, <2>1, <1>10, HoistsOne
        <4>4. CASE t = <<ab>> BY <4>1, <4>2, <4>4, <2>1, <1>10, HoistsOne
        <4>5. CASE GLOBAL_OPTIONS[o] /\ t = <<a, b>>
          BY <4>1, <4>2, <4>5, <2>1, <1>10, HoistsTwo
        <4> QED BY <4>2, <4>3, <4>4, <4>5
      <3> QED BY <3>2, <2>4, <2>2, <1>3, <1>7, <1>11 DEF Adds
    <2>5. CASE m \in Owned(l)
      <3>1. /\ Fits(l.pieces[m], OwnOptions) /\ o \notin DOMAIN GLOBAL_OPTIONS
        BY <2>5, GoodPieces
      <3>2. m \in ForCommand(l) BY <2>5 DEF ForCommand
      <3>3. CASE t = << <<o>> >> \/ t = << <<o, v>> >>
        <4>1. left' = x /\ rest' = rest \o t /\ head' = head /\ Unmoved
          <5> PICK a \in {<<o>>, <<o, v>>} : t = <<a>> BY <3>3
          <5>1. a \in Tokens /\ Head(a) \notin DOMAIN GLOBAL_OPTIONS BY <1>9, <3>1
          <5> HIDE DEF x, t, o, v
          <5> QED BY <5>1, <2>1, <1>10, HoistsOne
        <4> QED BY <4>1, <3>2, <2>2, <1>3, <1>7, <1>11 DEF Adds
      <3>4. CASE t = << <<o>>, <<v>> >> /\ ~l.pieces[m].joined
        <4> DEFINE a == <<o>>
                   b == <<v>>
                   y == <<b>> \o x
        <4>1. a \in Tokens /\ b \in Tokens /\ Head(a) \notin DOMAIN GLOBAL_OPTIONS
          BY <1>9, <3>1
        <4>2. left = <<a>> \o y /\ y \in Seq(Tokens)
          <5>1. t = <<a, b>> BY <3>4
          <5> HIDE DEF a, b, x, t
          <5>2. <<a>> \in Seq(Tokens) /\ <<b>> \in Seq(Tokens) /\ y \in Seq(Tokens)
            BY <4>1, <1>10
          <5>3. <<a, b>> = <<a>> \o <<b>> BY <4>1, PairOf
          <5>4. Associate(<<a>>, <<b>>, x) BY <5>2, <1>10, Associates
          <5> QED BY <5>1, <5>2, <5>3, <5>4, <2>1 DEF Associate
        <4>3. left' = y /\ rest' = rest \o <<a>> /\ head' = head /\ Unmoved
          <5> HIDE DEF a, y
          <5> QED BY <4>1, <4>2, HoistsOne
        <4>4. Inside(l, p, m)'
          <5>1. left' = << <<v>> >> \o AllFrom(l)[j] /\ rest' = RestTo(l)[p] \o << <<o>> >>
            BY <4>3, <2>2
          <5> HIDE DEF j, N
          <5> QED BY <5>1, <1>6, <2>5, <3>4 DEF Inside, N
        <4>5. (reading = "hoist" /\ settings = <<>> /\ options = <<>> /\ arguments = <<>>)'
          BY <1>4, <4>3
        <4>6. head' = HeadTo(l)[p] BY <1>3, <4>3
        <4> QED BY <1>3, <4>4, <4>5, <4>6 DEF AtHoist
      <3> QED BY <3>1, <3>3, <3>4 DEF Fits
    <2> QED BY <2>3, <2>4, <2>5, <1>7 DEF Adds
  <1>13. CASE Inside(l, p, m)
    <2>1. /\ m \in Owned(l) /\ ~l.pieces[m].joined /\ t = << <<o>>, <<v>> >>
          /\ rest = RestTo(l)[p] \o << <<o>> >> /\ left = << <<v>> >> \o x
      BY <1>13 DEF Inside
    <2>2. v \notin DOMAIN GLOBAL_OPTIONS BY <2>1, GoodPieces
    <2>3. left' = x /\ rest' = rest \o << <<v>> >> /\ head' = head /\ Unmoved
      <3> DEFINE b == <<v>>
      <3>1. b \in Tokens /\ Head(b) \notin DOMAIN GLOBAL_OPTIONS BY <1>9, <2>2
      <3>2. left = <<b>> \o x BY <2>1
      <3> HIDE DEF b, x
      <3>3. left' = x /\ rest' = rest \o <<b>> /\ head' = head /\ Unmoved
        BY <3>1, <3>2, <1>10, HoistsOne
      <3> QED BY <3>3 DEF b
    <2>4. rest' = RestTo(l)[p] \o t
      <3> DEFINE a == <<o>>
                 b == <<v>>
                 r == RestTo(l)[p]
      <3>1. a \in Tokens /\ b \in Tokens /\ r \in Seq(Tokens) BY <1>9, <1>7 DEF Adds
      <3>2. t = <<a, b>> /\ rest' = (r \o <<a>>) \o <<b>> BY <2>1, <2>3
      <3> HIDE DEF a, b, r, t
      <3>3. <<a>> \in Seq(Tokens) /\ <<b>> \in Seq(Tokens) BY <3>1
      <3>4. Associate(r, <<a>>, <<b>>) BY <3>1, <3>3, Associates
      <3>5. <<a, b>> = <<a>> \o <<b>> BY <3>1, PairOf
      <3>6. rest' = r \o t BY <3>2, <3>4, <3>5 DEF Associate
      <3> QED BY <3>6 DEF r
    <2>5. m \in ForCommand(l) BY <2>1 DEF ForCommand
    <2> QED BY <2>3, <2>4, <2>5, <1>3, <1>7, <1>11 DEF Adds
  <1> QED BY <1>3, <1>12, <1>13

\* The first of the pieces behind dh's is the one that names the subcommand.
CommandFirst(l) ==
  /\ \E x \in Seq(Tokens) : RestFrom(l)[1] = Typed(l.pieces[CommandAt(l)]) \o x
  /\ \A p \in 0..Len(l.pieces) : \A j \in 1..Len(l.pieces) + 1 :
       CommandAt(l) = p + 1 /\ j = CommandAt(l) + 1 =>
         /\ RestFrom(l)[1] = Typed(l.pieces[CommandAt(l)]) \o RestFrom(l)[j]
         /\ HeardTo(l, Owned(l))[p] = <<>> /\ HeardTo(l, Arguments(l))[p] = <<>>

LEMMA CommandIsFirst ==
  ASSUME NEW l \in Lines, Good(l)
  PROVE  CommandFirst(l)
  <1> DEFINE N == Len(l.pieces)
             named == CommandAt(l)
             which == ForCommand(l)
  <1>1. Bounded(l) BY PiecesBounded
  <1>2. N \in Nat /\ Marked(l) \in Seq(Tokens) BY <1>1 DEF Bounded
  <1>3. /\ named \in 1..N /\ named \in which
        /\ \A k \in which : named <= k
    <2>1. /\ named \in Arguments(l) /\ Arguments(l) \subseteq 1..N /\ Owned(l) \subseteq 1..N
          /\ \A k \in Arguments(l) : named <= k
          /\ \A k \in Owned(l) : k > named
      BY GoodPieces
    <2>2. named \in 1..N BY <2>1
    <2>3. \A k \in which : named <= k
      <3> TAKE k \in which
      <3>1. CASE k \in Arguments(l) BY <3>1, <2>1
      <3>2. CASE k \in Owned(l)
        <4>1. k > named /\ k \in Nat /\ named \in Nat BY <3>2, <2>1, <2>2
        <4> HIDE DEF named
        <4> QED BY <4>1
      <3> QED BY <3>1, <3>2 DEF ForCommand
    <2> QED BY <2>1, <2>2, <2>3 DEF ForCommand
  <1>4. Nears(l, which, Marked(l), 1, 0)
    <2>1. 0 \in 0..N /\ 1 \in 1..N + 1 /\ 1 = 0 + 1 BY <1>2
    <2> HIDE DEF which
    <2> QED BY <1>2, <2>1, NextOf
  <1>5. PICK k \in 1..N + 1, q \in 0..N :
          /\ k = q + 1 /\ (k = N + 1 \/ k \in which)
          /\ RestFrom(l)[1] = RestFrom(l)[k]
          /\ \A i \in 1..q : i \notin which
          /\ \A s \in SUBSET which : HeardTo(l, s)[0] = HeardTo(l, s)[q]
    BY <1>4 DEF Nears, RestFrom
  <1>6. k = named
    <2> HIDE DEF N, named, which
    <2>1. named \notin 1..q BY <1>3, <1>5
    <2>2. k <= named BY <2>1, <1>2, <1>3, <1>5
    <2>3. k \in which BY <2>2, <1>2, <1>3, <1>5
    <2> QED BY <2>2, <2>3, <1>2, <1>3, <1>5
  <1> DEFINE j == named + 1
  <1>7. j \in 1..N + 1 /\ named = q + 1 /\ j = named + 1
    <2> HIDE DEF N, named
    <2> QED BY <1>2, <1>3, <1>5, <1>6
  <1>8. Adds(l, q, named, j)
    <2> HIDE DEF named, j
    <2> QED BY <1>3, <1>5, <1>7, PieceAdds
  <1>9. /\ RestFrom(l)[1] = Typed(l.pieces[named]) \o RestFrom(l)[j]
        /\ RestFrom(l)[j] \in Seq(Tokens)
    <2> HIDE DEF named, j
    <2> QED BY <1>3, <1>5, <1>6, <1>8 DEF Adds
  <1>10. HeardTo(l, Owned(l))[q] = <<>> /\ HeardTo(l, Arguments(l))[q] = <<>>
    <2>1. Owned(l) \in SUBSET which /\ Arguments(l) \in SUBSET which BY DEF ForCommand
    <2>2. HeardTo(l, Owned(l))[0] = <<>> /\ HeardTo(l, Arguments(l))[0] = <<>>
      BY <1>1 DEF Bounded
    <2> QED BY <2>1, <2>2, <1>5
  <1>11. \A p \in 0..N : \A i \in 1..N + 1 : named = p + 1 /\ i = named + 1 => p = q /\ i = j
    <2> HIDE DEF named
    <2> QED BY <1>2, <1>3, <1>5, <1>7
  <1> HIDE DEF j
  <1> QED BY <1>9, <1>10, <1>11 DEF CommandFirst

\* The end of the loop: dh's pieces in front, the others behind them.
LEMMA StopFollows ==
  ASSUME NEW l \in Lines, Good(l), AtHoist(l), StopHoisting
  PROVE  AtDh(l)'
  <1> DEFINE N == Len(l.pieces)
  <1>1. Bounded(l) BY PiecesBounded
  <1>2. N \in Nat BY <1>1 DEF Bounded
  <1>3. PICK p \in 0..N, m \in 1..N + 1 :
          m = p + 1 /\ head = HeadTo(l)[p] /\ (Between(l, p, m) \/ Inside(l, p, m))
    BY DEF AtHoist
  <1>4. AtEnd BY DEF StopHoisting
  <1>5. m = N + 1 /\ Between(l, p, m)
    <2> SUFFICES ASSUME ~(m = N + 1 /\ Between(l, p, m)) PROVE FALSE OBVIOUS
    <2>1. m \in 1..N
      <3>1. CASE Inside(l, p, m) BY <3>1 DEF Inside, Owned
      <3>2. CASE ~Inside(l, p, m) BY <3>2, <1>2, <1>3
      <3> QED BY <3>1, <3>2
    <2> DEFINE j == m + 1
               x == AllFrom(l)[j]
               v == l.pieces[m].value
               t == Typed(l.pieces[m])
    <2>2. j \in 1..N + 1 /\ j = m + 1 BY <2>1, <1>2
    <2>3. Adds(l, p, m, j)
      <3> HIDE DEF j
      <3> QED BY <1>3, <2>1, <2>2, PieceAdds
    <2>4. x \in Seq(Tokens) BY <2>3 DEF Adds
    <2>5. CASE Between(l, p, m)
      <3>1. left = t \o x BY <2>3, <2>5 DEF Adds, Between
      <3>2. CASE m \in Arguments(l)
        <4> HIDE DEF x
        <4> QED BY <3>1, <3>2, <2>4, <1>4, ArgumentInFront
      <3>3. CASE m \in Settings(l) \cup Owned(l)
        <4> HIDE DEF x
        <4> QED BY <3>1, <3>3, <2>4, <1>4, OptionInFront
      <3> QED BY <3>2, <3>3, <2>3 DEF Adds
    <2>6. CASE Inside(l, p, m)
      <3> DEFINE b == <<v>>
      <3>1. left = <<b>> \o x /\ m \in Owned(l) /\ ~l.pieces[m].joined BY <2>6 DEF Inside
      <3>2. v # "--" BY <3>1, GoodPieces
      <3>3. v \in Spelt BY <2>1, LineType DEF Spelt
      <3>4. b \in Tokens /\ b # <<"--">> BY <3>2, <3>3 DEF Tokens
      <3> HIDE DEF b, x
      <3> QED BY <3>1, <3>4, <2>4, <1>4, InFront
    <2> QED BY <2>5, <2>6, <1>3
  <1>6. p = N BY <1>2, <1>3, <1>5
  <1>7. head = HeadTo(l)[N] /\ rest = RestTo(l)[N] /\ left = Marked(l)
    BY <1>1, <1>3, <1>5, <1>6 DEF Between, Bounded
  <1>8. left' = HeadFrom(l)[1]
    <2>1. left' = head \o (rest \o left) BY DEF StopHoisting
    <2> QED BY <2>1, <1>1, <1>7 DEF Bounded
  <1>9. reading' = "dh" /\ settings' = <<>> /\ options' = <<>> BY DEF StopHoisting, AtHoist
  <1>10. Nears(l, Settings(l), RestFrom(l)[1], 1, 0)
    <2>1. RestFrom(l)[1] \in Seq(Tokens) BY <1>1 DEF Bounded
    <2>2. 0 \in 0..N /\ 1 \in 1..N + 1 /\ 1 = 0 + 1 BY <1>2
    <2> QED BY <2>1, <2>2, NextOf
  <1>11. PICK k \in 1..N + 1, q \in 0..N :
           /\ k = q + 1 /\ (k = N + 1 \/ k \in Settings(l))
           /\ HeadFrom(l)[1] = HeadFrom(l)[k]
           /\ HeardTo(l, Settings(l))[0] = HeardTo(l, Settings(l))[q]
    BY <1>10 DEF Nears, HeadFrom
  <1>12. settings' = HeardTo(l, Settings(l))[q] BY <1>1, <1>9, <1>11 DEF Bounded
  <1> QED BY <1>8, <1>9, <1>11, <1>12 DEF AtDh

\* An option of dh's is heard.
LEMMA GlobalFollows ==
  ASSUME NEW l \in Lines, Good(l), AtDh(l), ReadGlobal
  PROVE  AtDh(l)'
  <1> DEFINE N == Len(l.pieces)
             first == RestFrom(l)[1]
  <1>1. Bounded(l) BY PiecesBounded
  <1>2. N \in Nat /\ first \in Seq(Tokens) BY <1>1 DEF Bounded
  <1>3. PICK p \in 0..N, m \in 1..N + 1 :
          /\ m = p + 1 /\ (m = N + 1 \/ m \in Settings(l))
          /\ left = HeadFrom(l)[m] /\ settings = HeardTo(l, Settings(l))[p]
    BY DEF AtDh
  <1>4. reading = "dh" /\ options = <<>> /\ ReadOption(GLOBAL_OPTIONS) /\ Dashed
    BY DEF AtDh, ReadGlobal, ReadOption
  <1>5. m \in Settings(l)
    <2>1. CASE m = N + 1
      <3>1. left = first BY <1>1, <1>3, <2>1 DEF Bounded
      <3>2. CommandFirst(l) BY CommandIsFirst
      <3>3. PICK x \in Seq(Tokens) : first = Typed(l.pieces[CommandAt(l)]) \o x
        BY <3>2 DEF CommandFirst
      <3>4. CommandAt(l) \in Arguments(l) BY GoodPieces
      <3>5. ~Dashed
        <4> HIDE DEF first
        <4> QED BY <3>1, <3>3, <3>4, ArgumentInFront
      <3> QED BY <3>5, <1>4
    <2> QED BY <2>1, <1>3
  <1>6. m \in 1..N BY <1>5 DEF Settings
  <1> DEFINE j == m + 1
             x == HeadFrom(l)[j]
             piece == l.pieces[m]
  <1>7. j \in 1..N + 1 /\ j = m + 1 /\ m \in 0..N BY <1>2, <1>6
  <1>8. Adds(l, p, m, j)
    <2> HIDE DEF j
    <2> QED BY <1>3, <1>6, <1>7, PieceAdds
  <1>9. left = Typed(piece) \o x /\ x \in Seq(Tokens) BY <1>3, <1>5, <1>8 DEF Adds
  <1>10. /\ HeardTo(l, Settings(l))[p] \in Seq(Heard)
         /\ HeardTo(l, Settings(l))[m]
              = HeardTo(l, Settings(l))[p] \o << <<piece.option, piece.value>> >>
    BY <1>5, <1>8 DEF Adds
  <1>11. /\ Fits(piece, GLOBAL_OPTIONS) /\ piece.option \in Spelt /\ piece.value \in Spelt
         /\ DOMAIN GLOBAL_OPTIONS \subseteq OptionNames
    BY <1>5, <1>6, GoodPieces, LineType DEF Spelt, OptionNames
  <1>12. /\ left' = x /\ settings' = Append(settings, <<piece.option, piece.value>>)
         /\ options' = options /\ reading' = reading
    <2> HIDE DEF piece, x
    <2> QED BY <1>4, <1>9, <1>11, Hears
  <1>13. settings' = HeardTo(l, Settings(l))[m]
    <2> DEFINE s == HeardTo(l, Settings(l))[p]
               c == <<piece.option, piece.value>>
    <2>1. c \in Heard /\ s \in Seq(Heard) BY <1>10, <1>11 DEF Heard
    <2>2. settings' = Append(s, c) BY <1>3, <1>12
    <2>3. HeardTo(l, Settings(l))[m] = s \o <<c>> BY <1>10
    <2> HIDE DEF s, c
    <2> QED BY <2>1, <2>2, <2>3, AppendIsConcat
  <1>14. Nears(l, Settings(l), first, j, m)
    <2> HIDE DEF first, j
    <2> QED BY <1>2, <1>7, NextOf
  <1>15. PICK k \in j..N + 1, q \in 0..N :
           /\ k = q + 1 /\ (k = N + 1 \/ k \in Settings(l))
           /\ HeadFrom(l)[j] = HeadFrom(l)[k]
           /\ HeardTo(l, Settings(l))[m] = HeardTo(l, Settings(l))[q]
    BY <1>14 DEF Nears, HeadFrom
  <1>16. k \in 1..N + 1 BY <1>7, <1>15
  <1>17. left' = HeadFrom(l)[k] /\ settings' = HeardTo(l, Settings(l))[q]
    BY <1>12, <1>13, <1>15
  <1>18. reading' = "dh" /\ options' = <<>> BY <1>4, <1>12
  <1> QED BY <1>15, <1>16, <1>17, <1>18 DEF AtDh

LEMMA SecondsGrow ==
  ASSUME NEW s \in Seq(Heard), NEW c \in Heard
  PROVE  Append(Seconds(s), c[2]) = Seconds(s \o <<c>>)
  <1> DEFINE n == Len(s)
             t == s \o <<c>>
             w == Seconds(s)
             y == Seconds(t)
  <1>1. n \in Nat OBVIOUS
  <1>2. t \in Seq(Heard) /\ Len(t) = n + 1 /\ t[n + 1] = c /\ \A i \in 1..n : t[i] = s[i]
    <2>1. t = Append(s, c) BY AppendIsConcat
    <2>2. /\ Append(s, c) \in Seq(Heard) /\ Len(Append(s, c)) = n + 1
          /\ Append(s, c)[n + 1] = c /\ \A i \in 1..n : Append(s, c)[i] = s[i]
      BY AppendProperties
    <2> HIDE DEF t
    <2> QED BY <2>1, <2>2
  <1>3. \A i \in 1..n : s[i][2] \in Spelt BY DEF Heard
  <1>4. c[2] \in Spelt BY DEF Heard
  <1>5. w \in Seq(Spelt) /\ Len(w) = n /\ \A i \in 1..n : w[i] = s[i][2]
    <2>1. w = [i \in 1..n |-> s[i][2]] BY DEF Seconds
    <2> HIDE DEF w
    <2> QED BY <2>1, <1>1, <1>3
  <1>6. y \in Seq(Spelt) /\ Len(y) = n + 1 /\ \A i \in 1..n + 1 : y[i] = t[i][2]
    <2>1. y = [i \in 1..n + 1 |-> t[i][2]] BY <1>2 DEF Seconds
    <2>2. \A i \in 1..n + 1 : t[i][2] \in Spelt
      <3> TAKE i \in 1..n + 1
      <3>1. i \in 1..n \/ i = n + 1 BY <1>1
      <3> HIDE DEF t, n
      <3> QED BY <3>1, <1>2, <1>3, <1>4
    <2> HIDE DEF y, t
    <2> QED BY <2>1, <2>2, <1>1
  <1>7. /\ Append(w, c[2]) \in Seq(Spelt) /\ Len(Append(w, c[2])) = n + 1
        /\ Append(w, c[2])[n + 1] = c[2] /\ \A i \in 1..n : Append(w, c[2])[i] = w[i]
    <2> HIDE DEF w, n
    <2> QED BY <1>4, <1>5, AppendProperties
  <1> DEFINE z == Append(w, c[2])
  <1>8. \A i \in 1..n + 1 : z[i] = y[i]
    <2> TAKE i \in 1..n + 1
    <2>1. i \in 1..n \/ i = n + 1 BY <1>1
    <2> HIDE DEF w, y, t, n
    <2> QED BY <2>1, <1>2, <1>5, <1>6, <1>7, SMTT(40)
  <1> HIDE DEF w, y, n, z
  <1>9. z = y BY <1>6, <1>7, <1>8, SeqEqual DEF z
  <1> QED BY <1>9 DEF z, w, y

\* The subcommand is named.
LEMMA NameFollows ==
  ASSUME NEW l \in Lines, Good(l), AtDh(l), ReadCommand
  PROVE  AtCommand(l)'
  <1> DEFINE N == Len(l.pieces)
             first == RestFrom(l)[1]
             named == CommandAt(l)
             v == l.pieces[named].value
             o == l.pieces[named].option
  <1>1. Bounded(l) BY PiecesBounded
  <1>2. N \in Nat /\ Marked(l) \in Seq(Tokens) BY <1>1 DEF Bounded
  <1>3. PICK p \in 0..N, m \in 1..N + 1 :
          /\ m = p + 1 /\ (m = N + 1 \/ m \in Settings(l))
          /\ left = HeadFrom(l)[m] /\ settings = HeardTo(l, Settings(l))[p]
    BY DEF AtDh
  <1>4. reading = "dh" /\ options = <<>> /\ ~Dashed BY DEF AtDh, ReadCommand
  <1>5. m = N + 1
    <2>1. CASE m \in Settings(l)
      <3> DEFINE j == m + 1
                 x == HeadFrom(l)[j]
      <3>1. m \in 1..N BY <2>1 DEF Settings
      <3>2. j \in 1..N + 1 /\ j = m + 1 BY <1>2, <3>1
      <3>3. Adds(l, p, m, j)
        <4> HIDE DEF j
        <4> QED BY <1>3, <3>1, <3>2, PieceAdds
      <3>4. left = Typed(l.pieces[m]) \o x /\ x \in Seq(Tokens)
        BY <1>3, <2>1, <3>3 DEF Adds
      <3> HIDE DEF x
      <3>5. Dashed BY <2>1, <3>4, OptionInFront
      <3> QED BY <3>5, <1>4
    <2> QED BY <2>1, <1>3
  <1>6. p = N /\ left = first /\ settings = HeardTo(l, Settings(l))[N]
    BY <1>1, <1>2, <1>3, <1>5 DEF Bounded
  <1>7. named \in Arguments(l) /\ named \in 1..N /\ v \in Commands /\ o = Argument
    BY GoodPieces DEF Arguments
  <1> DEFINE q == named - 1
             j == named + 1
             x == RestFrom(l)[j]
  <1>8. q \in 0..N /\ named = q + 1 /\ j \in 1..N + 1 /\ j = named + 1 /\ named \in 0..N
    <2> HIDE DEF named
    <2> QED BY <1>2, <1>7
  <1>9. CommandFirst(l) BY CommandIsFirst
  <1>10. /\ first = Typed(l.pieces[named]) \o x
         /\ HeardTo(l, Owned(l))[q] = <<>> /\ HeardTo(l, Arguments(l))[q] = <<>>
    <2> HIDE DEF q, j
    <2> QED BY <1>8, <1>9 DEF CommandFirst
  <1>11. Adds(l, q, named, j)
    <2> HIDE DEF q, named, j
    <2> QED BY <1>7, <1>8, PieceAdds
  <1>12. x \in Seq(Tokens) BY <1>11 DEF Adds
  <1>13. Name = v /\ Tail(left) = x /\ left # <<>>
    <2> HIDE DEF x, first
    <2> QED BY <1>6, <1>7, <1>10, <1>12, ArgumentInFront
  <1>14. /\ reading' = "command" /\ left' = x /\ arguments' = <<v>>
         /\ settings' = HeardTo(l, Settings(l))[N] /\ options' = <<>>
    <2>1. ~(left = <<>> \/ Name \notin Commands) BY <1>7, <1>13
    <2>2. /\ reading' = "command" /\ left' = Tail(left) /\ arguments' = <<Name>>
          /\ UNCHANGED <<settings, options>>
      BY <2>1, Zenon DEF ReadCommand
    <2> HIDE DEF x, v
    <2> QED BY <2>2, <1>4, <1>6, <1>13
  <1>15. HeardTo(l, Owned(l))[named] = <<>>
    <2>1. named \notin Owned(l) BY <1>7, GoodPieces
    <2> QED BY <2>1, <1>10, <1>11 DEF Adds
  <1>16. arguments' = Seconds(HeardTo(l, Arguments(l))[named])
    <2> DEFINE c == <<o, v>>
    <2>1. HeardTo(l, Arguments(l))[named] = <<>> \o <<c>>
      BY <1>7, <1>10, <1>11 DEF Adds
    <2>2. <<>> \o <<c>> = <<c>> OBVIOUS
    <2>3. Seconds(<<c>>) = <<v>>
      <3>1. Len(<<c>>) = 1 /\ <<c>>[1] = c /\ c[2] = v OBVIOUS
      <3> HIDE DEF c, v
      <3> QED BY <3>1 DEF Seconds
    <2> QED BY <2>1, <2>2, <2>3, <1>14
  <1>17. Nears(l, ForCommand(l), Marked(l), j, named)
    <2> HIDE DEF named, j
    <2> QED BY <1>2, <1>8, NextOf
  <1>18. PICK k \in j..N + 1, r \in 0..N :
           /\ k = r + 1 /\ (k = N + 1 \/ k \in ForCommand(l))
           /\ RestFrom(l)[j] = RestFrom(l)[k]
           /\ \A s \in SUBSET ForCommand(l) : HeardTo(l, s)[named] = HeardTo(l, s)[r]
    BY <1>17 DEF Nears, RestFrom
  <1>19. Owned(l) \in SUBSET ForCommand(l) /\ Arguments(l) \in SUBSET ForCommand(l)
    BY DEF ForCommand
  <1>20. k \in 1..N + 1
    <2> HIDE DEF named, j
    <2> QED BY <1>2, <1>8, <1>18
  <1>21. left' = RestFrom(l)[k] /\ options' = HeardTo(l, Owned(l))[r]
         /\ arguments' = Seconds(HeardTo(l, Arguments(l))[r])
    <2> HIDE DEF named, j
    <2> QED BY <1>14, <1>15, <1>16, <1>18, <1>19
  <1> HIDE DEF named, j, x, v
  <1> QED BY <1>14, <1>18, <1>20, <1>21 DEF AtCommand

\* What the subcommand reads: an option of its own, an argument, and what follows the
\* "--".
LEMMA CommandGoesOn ==
  ASSUME NEW l \in Lines, NEW m \in 1..Len(l.pieces), m \in ForCommand(l),
         NEW j \in 1..Len(l.pieces) + 1, j = m + 1,
         reading' = "command", settings' = HeardTo(l, Settings(l))[Len(l.pieces)],
         left' = RestFrom(l)[j], options' = HeardTo(l, Owned(l))[m],
         arguments' = Seconds(HeardTo(l, Arguments(l))[m])
  PROVE  AtCommand(l)'
  <1> DEFINE N == Len(l.pieces)
  <1>1. N \in Nat /\ Marked(l) \in Seq(Tokens) /\ m \in 0..N
    <2>1. Bounded(l) BY PiecesBounded
    <2> QED BY <2>1 DEF Bounded
  <1>2. Nears(l, ForCommand(l), Marked(l), j, m) BY <1>1, NextOf
  <1>3. PICK k \in j..N + 1, q \in 0..N :
           /\ k = q + 1 /\ (k = N + 1 \/ k \in ForCommand(l))
           /\ RestFrom(l)[j] = RestFrom(l)[k]
           /\ \A s \in SUBSET ForCommand(l) : HeardTo(l, s)[m] = HeardTo(l, s)[q]
    BY <1>2 DEF Nears, RestFrom
  <1>4. Owned(l) \in SUBSET ForCommand(l) /\ Arguments(l) \in SUBSET ForCommand(l)
    BY DEF ForCommand
  <1>5. k \in 1..N + 1 BY <1>1, <1>3
  <1>6. left' = RestFrom(l)[k] /\ options' = HeardTo(l, Owned(l))[q]
        /\ arguments' = Seconds(HeardTo(l, Arguments(l))[q])
    BY <1>3, <1>4
  <1> QED BY <1>3, <1>5, <1>6 DEF AtCommand

LEMMA OwnFollows ==
  ASSUME NEW l \in Lines, Good(l), AtCommand(l), ReadOwn
  PROVE  AtCommand(l)'
  <1> DEFINE N == Len(l.pieces)
  <1>1. Bounded(l) BY PiecesBounded
  <1>2. N \in Nat /\ RestFrom(l)[N + 1] = Marked(l) BY <1>1 DEF Bounded
  <1>3. PICK p \in 0..N, m \in 1..N + 1 :
          /\ m = p + 1 /\ (m = N + 1 \/ m \in ForCommand(l))
          /\ left = RestFrom(l)[m] /\ options = HeardTo(l, Owned(l))[p]
          /\ arguments = Seconds(HeardTo(l, Arguments(l))[p])
    BY DEF AtCommand
  <1>4. /\ reading = "command" /\ settings = HeardTo(l, Settings(l))[N]
        /\ ReadOption(OwnOptions) /\ Dashed
    BY DEF AtCommand, ReadOwn, ReadOption
  <1>5. m \in ForCommand(l)
    <2>1. CASE m = N + 1 BY <2>1, <1>2, <1>3, <1>4, MarkedInFront
    <2> QED BY <2>1, <1>3
  <1>6. m \in 1..N BY <1>5, GoodPieces DEF ForCommand
  <1> DEFINE j == m + 1
             x == RestFrom(l)[j]
             piece == l.pieces[m]
  <1>7. j \in 1..N + 1 /\ j = m + 1 BY <1>2, <1>6
  <1>8. Adds(l, p, m, j)
    <2> HIDE DEF j
    <2> QED BY <1>3, <1>6, <1>7, PieceAdds
  <1>9. left = Typed(piece) \o x /\ x \in Seq(Tokens) BY <1>3, <1>5, <1>8 DEF Adds
  <1>10. m \in Owned(l)
    <2>1. CASE m \in Arguments(l)
      <3> HIDE DEF x
      <3> QED BY <2>1, <1>4, <1>9, ArgumentInFront
    <2> QED BY <2>1, <1>5 DEF ForCommand
  <1>11. /\ Fits(piece, OwnOptions) /\ piece.option \in Spelt /\ piece.value \in Spelt
         /\ DOMAIN OwnOptions \subseteq OptionNames
    BY <1>10, <1>6, GoodPieces, LineType DEF Spelt, OptionNames
  <1>12. /\ left' = x /\ options' = Append(options, <<piece.option, piece.value>>)
         /\ settings' = settings /\ reading' = reading /\ arguments' = arguments
    <2> HIDE DEF piece, x
    <2> QED BY <1>4, <1>9, <1>11, Hears
  <1>13. options' = HeardTo(l, Owned(l))[m]
    <2> DEFINE s == HeardTo(l, Owned(l))[p]
               c == <<piece.option, piece.value>>
    <2>1. c \in Heard /\ s \in Seq(Heard) BY <1>8, <1>11 DEF Heard, Adds
    <2>2. options' = Append(s, c) BY <1>3, <1>12
    <2>3. HeardTo(l, Owned(l))[m] = s \o <<c>> BY <1>8, <1>10 DEF Adds
    <2> HIDE DEF s, c
    <2> QED BY <2>1, <2>2, <2>3, AppendIsConcat
  <1>14. arguments' = Seconds(HeardTo(l, Arguments(l))[m])
    <2>1. m \notin Arguments(l) BY <1>10, GoodPieces
    <2> QED BY <2>1, <1>3, <1>8, <1>12 DEF Adds
  <1>15. reading' = "command" /\ settings' = HeardTo(l, Settings(l))[N] BY <1>4, <1>12
  <1> HIDE DEF j
  <1> QED BY <1>5, <1>6, <1>7, <1>12, <1>13, <1>14, <1>15, CommandGoesOn

LEMMA ArgumentFollows ==
  ASSUME NEW l \in Lines, Good(l), AtCommand(l), ReadArgument
  PROVE  AtCommand(l)'
  <1> DEFINE N == Len(l.pieces)
  <1>1. Bounded(l) BY PiecesBounded
  <1>2. N \in Nat /\ RestFrom(l)[N + 1] = Marked(l) BY <1>1 DEF Bounded
  <1>3. PICK p \in 0..N, m \in 1..N + 1 :
          /\ m = p + 1 /\ (m = N + 1 \/ m \in ForCommand(l))
          /\ left = RestFrom(l)[m] /\ options = HeardTo(l, Owned(l))[p]
          /\ arguments = Seconds(HeardTo(l, Arguments(l))[p])
    BY DEF AtCommand
  <1>4. /\ reading = "command" /\ settings = HeardTo(l, Settings(l))[N] /\ ~AtEnd /\ ~Dashed
    BY DEF AtCommand, ReadArgument
  <1>5. m \in ForCommand(l)
    <2>1. CASE m = N + 1 BY <2>1, <1>2, <1>3, <1>4, MarkedInFront
    <2> QED BY <2>1, <1>3
  <1>6. m \in 1..N BY <1>5, GoodPieces DEF ForCommand
  <1> DEFINE j == m + 1
             x == RestFrom(l)[j]
             v == l.pieces[m].value
             o == l.pieces[m].option
  <1>7. j \in 1..N + 1 /\ j = m + 1 BY <1>2, <1>6
  <1>8. Adds(l, p, m, j)
    <2> HIDE DEF j
    <2> QED BY <1>3, <1>6, <1>7, PieceAdds
  <1>9. left = Typed(l.pieces[m]) \o x /\ x \in Seq(Tokens) BY <1>3, <1>5, <1>8 DEF Adds
  <1>10. m \in Arguments(l) /\ m \notin Owned(l)
    <2>1. CASE m \in Owned(l)
      <3> HIDE DEF x
      <3> QED BY <2>1, <1>4, <1>9, OptionInFront
    <2> QED BY <2>1, <1>5 DEF ForCommand
  <1>11. Name = v /\ Tail(left) = x
    <2> HIDE DEF x
    <2> QED BY <1>9, <1>10, ArgumentInFront
  <1>12. /\ left' = x /\ arguments' = Append(arguments, v) /\ options' = options
         /\ settings' = settings /\ reading' = reading
    BY <1>11 DEF ReadArgument
  <1>13. arguments' = Seconds(HeardTo(l, Arguments(l))[m])
    <2> DEFINE s == HeardTo(l, Arguments(l))[p]
               c == <<o, v>>
    <2>1. c \in Heard /\ s \in Seq(Heard) BY <1>6, <1>8, LineType DEF Spelt, Heard, Adds
    <2>2. HeardTo(l, Arguments(l))[m] = s \o <<c>> BY <1>8, <1>10 DEF Adds
    <2>3. c[2] = v OBVIOUS
    <2>4. arguments' = Append(Seconds(s), v) BY <1>3, <1>12
    <2> HIDE DEF s, c, v
    <2>5. Append(Seconds(s), c[2]) = Seconds(s \o <<c>>) BY <2>1, SecondsGrow
    <2> QED BY <2>2, <2>3, <2>4, <2>5
  <1>14. options' = HeardTo(l, Owned(l))[m] BY <1>3, <1>8, <1>10, <1>12 DEF Adds
  <1>15. reading' = "command" /\ settings' = HeardTo(l, Settings(l))[N] BY <1>4, <1>12
  <1> HIDE DEF j
  <1> QED BY <1>5, <1>6, <1>7, <1>12, <1>13, <1>14, <1>15, CommandGoesOn

LEMMA LiteralFollows ==
  ASSUME NEW l \in Lines, Good(l), AtCommand(l), ReadLiteral
  PROVE  AtRead(l)'
  <1> DEFINE N == Len(l.pieces)
  <1>1. Bounded(l) BY PiecesBounded
  <1>2. N \in Nat /\ RestFrom(l)[N + 1] = Marked(l) BY <1>1 DEF Bounded
  <1>3. PICK p \in 0..N, m \in 1..N + 1 :
          /\ m = p + 1 /\ (m = N + 1 \/ m \in ForCommand(l))
          /\ left = RestFrom(l)[m] /\ options = HeardTo(l, Owned(l))[p]
          /\ arguments = Seconds(HeardTo(l, Arguments(l))[p])
    BY DEF AtCommand
  <1>4. settings = HeardTo(l, Settings(l))[N] /\ AtEnd BY DEF AtCommand, ReadLiteral
  <1>5. m = N + 1
    <2>1. CASE m \in ForCommand(l)
      <3> DEFINE j == m + 1
                 x == RestFrom(l)[j]
      <3>1. m \in 1..N BY <2>1, GoodPieces DEF ForCommand
      <3>2. j \in 1..N + 1 /\ j = m + 1 BY <1>2, <3>1
      <3>3. Adds(l, p, m, j)
        <4> HIDE DEF j
        <4> QED BY <1>3, <3>1, <3>2, PieceAdds
      <3>4. left = Typed(l.pieces[m]) \o x /\ x \in Seq(Tokens)
        BY <1>3, <2>1, <3>3 DEF Adds
      <3> HIDE DEF x
      <3>5. CASE m \in Arguments(l) BY <3>4, <3>5, <1>4, ArgumentInFront
      <3>6. CASE m \in Owned(l) BY <3>4, <3>6, <1>4, OptionInFront
      <3> QED BY <3>5, <3>6, <2>1 DEF ForCommand
    <2> QED BY <2>1, <1>3
  <1>6. p = N /\ left = Marked(l) BY <1>2, <1>3, <1>5
  <1>7. [n \in 1..Len(left) - 1 |-> left[n + 1][1]] = l.literal BY <1>6, MarkedInFront
  <1>8. /\ reading' = "read" /\ options' = options /\ settings' = settings
        /\ arguments' = arguments \o l.literal
    BY <1>7, Zenon DEF ReadLiteral
  <1> QED BY <1>3, <1>4, <1>6, <1>8 DEF AtRead

\* The invariant: a line that is to be read as it is meant is being read so.
HoistInv == line \in Lines /\ (Good(line) => Follows(line))

LEMMA HoistStarts == HoistInit => HoistInv
  <1> SUFFICES ASSUME HoistInit, Good(line) PROVE AtHoist(line) /\ line \in Lines
    BY DEF HoistInv, Follows, HoistInit
  <1>1. line \in Lines BY DEF HoistInit
  <1>2. Bounded(line) BY <1>1, PiecesBounded
  <1>3. left = AllFrom(line)[1]
    <2>1. left = Argv(line) BY DEF HoistInit
    <2> QED BY <2>1, <1>1, ArgvIs DEF AllFrom
  <1>4. head = HeadTo(line)[0] /\ rest = RestTo(line)[0] BY <1>2 DEF Bounded, HoistInit
  <1>5. 0 \in 0..Len(line.pieces) /\ 1 \in 1..Len(line.pieces) + 1 /\ 1 = 0 + 1
    BY <1>2 DEF Bounded
  <1>6. Between(line, 0, 1) BY <1>3, <1>4 DEF Between
  <1> QED BY <1>1, <1>4, <1>5, <1>6 DEF AtHoist, HoistInit

LEMMA HoistStays ==
  ASSUME NEW l \in Lines, Good(l), Follows(l), HoistNext
  PROVE  Follows(l)'
  <1>1. CASE StopHoisting
    <2>1. AtHoist(l)
      BY <1>1 DEF Follows, StopHoisting, AtHoist, AtDh, AtCommand, AtRead
    <2> QED BY <1>1, <2>1, StopFollows DEF Follows
  <1>2. CASE HoistToken
    <2>1. AtHoist(l)
      BY <1>2 DEF Follows, HoistToken, AtHoist, AtDh, AtCommand, AtRead
    <2> QED BY <1>2, <2>1, PassFollows DEF Follows
  <1>3. CASE ReadGlobal
    <2>1. AtDh(l)
      BY <1>3 DEF Follows, ReadGlobal, AtHoist, AtDh, AtCommand, AtRead
    <2> QED BY <1>3, <2>1, GlobalFollows DEF Follows
  <1>4. CASE ReadCommand
    <2>1. AtDh(l)
      BY <1>4 DEF Follows, ReadCommand, AtHoist, AtDh, AtCommand, AtRead
    <2> QED BY <1>4, <2>1, NameFollows DEF Follows
  <1>5. CASE ReadOwn
    <2>1. AtCommand(l)
      BY <1>5 DEF Follows, ReadOwn, AtHoist, AtDh, AtCommand, AtRead
    <2> QED BY <1>5, <2>1, OwnFollows DEF Follows
  <1>6. CASE ReadArgument
    <2>1. AtCommand(l)
      BY <1>6 DEF Follows, ReadArgument, AtHoist, AtDh, AtCommand, AtRead
    <2> QED BY <1>6, <2>1, ArgumentFollows DEF Follows
  <1>7. CASE ReadLiteral
    <2>1. AtCommand(l)
      BY <1>7 DEF Follows, ReadLiteral, AtHoist, AtDh, AtCommand, AtRead
    <2> QED BY <1>7, <2>1, LiteralFollows DEF Follows
  <1> QED BY <1>1, <1>2, <1>3, <1>4, <1>5, <1>6, <1>7 DEF HoistNext

LEMMA HoistInductive == HoistInv /\ [HoistNext]_hoistVars => HoistInv'
  <1> SUFFICES ASSUME HoistInv, [HoistNext]_hoistVars PROVE HoistInv' OBVIOUS
  <1> DEFINE l == line
  <1>1. line' = line
    BY DEF HoistNext, hoistVars, StopHoisting, HoistToken, ReadGlobal, ReadCommand, ReadOwn,
           ReadArgument, ReadLiteral, ReadOption, Complain
  <1>2. ASSUME NEW i \in Lines, i = line, Good(i) PROVE Follows(i)'
    <2>1. Follows(i) BY <1>2 DEF HoistInv
    <2>2. CASE HoistNext BY <1>2, <2>1, <2>2, HoistStays, SMTT(60)
    <2>3. CASE UNCHANGED hoistVars
      BY <2>1, <2>3, ZenonT(60) DEF hoistVars, Follows, AtHoist, AtDh, AtCommand, AtRead, Between, Inside
    <2> QED BY <2>2, <2>3
  <1>3. line \in Lines BY DEF HoistInv
  <1>4. Good(line)' => Good(line) BY <1>1, ZenonT(60) DEF Good, Complete, SharesOption, MasksOption,
         Arguments, Owned, Settings, CommandAt
  <1> QED BY <1>1, <1>2, <1>3, <1>4 DEF HoistInv

\* A complete line is read as it is meant: whatever options dh and its subcommand have,
\* wherever those of dh stand, and whatever follows a "--", each option reaches the one
\* it is for with its own value and the arguments keep their order (main.py 162-204).
THEOREM HoistsAsMeant == HoistSpec => []HoistedAsMeant
  <1>1. HoistInv => HoistedAsMeant
    <2> SUFFICES ASSUME HoistInv, reading \in {"read", "usage error"}, Good(line)
                 PROVE  Understood
      BY DEF HoistedAsMeant, Good
    <2>1. line \in Lines /\ AtRead(line)
      BY DEF HoistInv, Follows, AtHoist, AtDh, AtCommand
    <2>2. /\ Pick(line, Arguments(line)) = HeardTo(line, Arguments(line))[Len(line.pieces)]
          /\ Pick(line, Owned(line)) = HeardTo(line, Owned(line))[Len(line.pieces)]
          /\ Pick(line, Settings(line)) = HeardTo(line, Settings(line))[Len(line.pieces)]
      BY <2>1, PickIs
    <2> QED BY <2>1, <2>2 DEF AtRead, Understood, Seconds
  <1> QED BY <1>1, HoistStarts, HoistInductive, PTL DEF HoistSpec
=============================================================================
