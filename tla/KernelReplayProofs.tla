-------------------------- MODULE KernelReplayProofs --------------------------
(***************************************************************************)
(* What the replay cache promises, for every budget, every set of documents *)
(* and every sequence of requests: its books balance, and an answer resumed *)
(* from it is the answer of a cold evaluation, unless an earlier request    *)
(* shares a prefix that the key cannot tell apart or the tail misses the    *)
(* registry a cold evaluation has.                                          *)
(***************************************************************************)
EXTENDS KernelReplay, TLAPS, WellFoundedInduction, FiniteSetTheorems, SequenceTheorems

(***************************************************************************)
(* Induction on numbers, for what the recursive definitions compute.       *)
(***************************************************************************)
LEMMA LeastNumber ==
  ASSUME NEW T, T \subseteq Nat, T # {}
  PROVE  \E m \in T : \A k \in T : m <= k
<1> DEFINE R == OpToRel(<, Nat)
<1>1. PICK m \in T : \A k \in T : ~ (<<k, m>> \in R)
  <2>1. IsWellFoundedOn(R, Nat)
    BY NatLessThanWellFounded
  <2> HIDE DEF R
  <2>. QED
    BY <2>1, WFMin
<1>2. \A k, n \in Nat : <<k, n>> \in R <=> k < n
  BY DEF OpToRel
<1> HIDE DEF R
<1>3. \A k \in T : ~ (k < m)
  BY <1>1, <1>2
<1>. QED
  BY <1>3

LEMMA GreatestNumber ==
  ASSUME NEW T, NEW N \in Nat, T \subseteq 0 .. N, T # {}
  PROVE  \E m \in T : \A k \in T : k <= m
<1> DEFINE U == {N - n : n \in T}
<1>1. U \subseteq Nat /\ U # {}
  <2>1. \A n \in T : N - n \in Nat
    OBVIOUS
  <2>. QED
    BY <2>1
<1>2. PICK u \in U : \A k \in U : u <= k
  <2> HIDE DEF U
  <2>. QED
    BY <1>1, LeastNumber
<1>3. PICK n \in T : u = N - n
  OBVIOUS
<1>4. N - u = n /\ n \in Nat
  BY <1>3
<1>5. ASSUME NEW k \in T PROVE k <= n
  <2>1. N - k \in U /\ k \in Nat
    OBVIOUS
  <2>2. N - n <= N - k
    BY <1>2, <1>3, <2>1
  <2>. QED
    BY <1>4, <2>1, <2>2
<1>. QED
  BY <1>5

LEMMA Counting ==
  ASSUME NEW S, 0 \in S, \A n \in Nat : n \in S => n + 1 \in S
  PROVE  Nat \subseteq S
<1>. SUFFICES ASSUME Nat \ S # {} PROVE FALSE
  OBVIOUS
<1>1. PICK m \in Nat \ S : \A k \in Nat \ S : m <= k
  BY LeastNumber
<1>2. m # 0 /\ m - 1 \in Nat
  BY <1>1
<1>3. m - 1 \in S
  BY <1>1, <1>2
<1>. QED
  BY <1>1, <1>2, <1>3

(***************************************************************************)
(* The sum of the bytes of a list of keys.                                 *)
(***************************************************************************)
SumStep(keys, table, g, n) == IF n = 0 THEN 0 ELSE g[n - 1] + table[keys[n]].bytes
SumEquation(g, keys, table, N) == g = [n \in 0 .. N |-> SumStep(keys, table, g, n)]

LEMMA SumExists ==
  ASSUME NEW keys, NEW table, NEW N \in Nat
  PROVE  \E g : SumEquation(g, keys, table, N)
<1> DEFINE S == {n \in Nat : \E g : SumEquation(g, keys, table, n)}
<1>1. 0 \in S
  <2>1. SumEquation([n \in 0 .. 0 |-> 0], keys, table, 0)
    BY DEF SumEquation, SumStep
  <2>. QED
    BY <2>1
<1>2. ASSUME NEW n \in Nat, n \in S PROVE n + 1 \in S
  <2>1. PICK g : SumEquation(g, keys, table, n)
    BY <1>2
  <2> DEFINE h == [k \in 0 .. n + 1 |-> IF k = n + 1 THEN g[n] + table[keys[n + 1]].bytes ELSE g[k]]
  <2>2. \A k \in 0 .. n : g[k] = SumStep(keys, table, g, k)
    BY <2>1 DEF SumEquation
  <2>3. \A k \in 0 .. n + 1 : h[k] = SumStep(keys, table, h, k)
    BY <2>2 DEF SumStep
  <2>4. h = [k \in 0 .. n + 1 |-> h[k]]
    OBVIOUS
  <2> HIDE DEF h
  <2>5. SumEquation(h, keys, table, n + 1)
    BY <2>3, <2>4 DEF SumEquation
  <2>. QED
    BY <2>5
<1> HIDE DEF S
<1>3. N \in S
  BY <1>1, <1>2, Counting
<1>. QED
  BY <1>3 DEF S

LEMMA SumUnfolds ==
  ASSUME NEW keys, NEW table, Len(keys) \in Nat
  PROVE  \E g : SumEquation(g, keys, table, Len(keys)) /\ BytesOf(keys, table) = g[Len(keys)]
<1> DEFINE sum == CHOOSE g : SumEquation(g, keys, table, Len(keys))
<1>1. SumEquation(sum, keys, table, Len(keys))
  <2>1. \E g : SumEquation(g, keys, table, Len(keys))
    BY SumExists
  <2>. QED
    BY <2>1, Zenon
<1>2. BytesOf(keys, table) = sum[Len(keys)]
  BY Zenon DEF BytesOf, SumEquation, SumStep
<1> HIDE DEF sum
<1>. QED
  BY <1>1, <1>2

SameBytes(s, t, u, v, m) == \A n \in 1 .. m : t[s[n]].bytes = v[u[n]].bytes
SumPair(g, s, t, M, h, u, v, N, m) ==
  /\ M \in Nat /\ N \in Nat /\ m \in Nat /\ m <= M /\ m <= N
  /\ SumEquation(g, s, t, M) /\ SumEquation(h, u, v, N) /\ SameBytes(s, t, u, v, m)

\* Two lists that carry the same bytes up to m have the same sums up to m.
LEMMA SumsAgree ==
  ASSUME NEW s, NEW t, NEW u, NEW v, NEW M, NEW N, NEW m, NEW g, NEW h,
         SumPair(g, s, t, M, h, u, v, N, m)
  PROVE  g[m] = h[m]
<1>. M \in Nat /\ N \in Nat /\ m \in Nat /\ m <= M /\ m <= N
  BY DEF SumPair
<1> DEFINE S == {n \in Nat : n <= m => g[n] = h[n]}
<1>0. /\ \A n \in 0 .. M : g[n] = SumStep(s, t, g, n)
      /\ \A n \in 0 .. N : h[n] = SumStep(u, v, h, n)
  BY DEF SumPair, SumEquation
<1>1. 0 \in S
  BY <1>0 DEF SumStep
<1>2. ASSUME NEW n \in Nat, n \in S PROVE n + 1 \in S
  <2>. SUFFICES ASSUME n + 1 <= m PROVE g[n + 1] = h[n + 1]
    OBVIOUS
  <2>1. g[n] = h[n]
    BY <1>2
  <2>2. g[n + 1] = SumStep(s, t, g, n + 1) /\ h[n + 1] = SumStep(u, v, h, n + 1)
    BY <1>0
  <2>3. t[s[n + 1]].bytes = v[u[n + 1]].bytes
    BY DEF SumPair, SameBytes
  <2>4. (n + 1) - 1 = n /\ n + 1 # 0
    OBVIOUS
  <2>. QED
    BY <2>1, <2>2, <2>3, <2>4 DEF SumStep
<1> HIDE DEF S
<1>3. m \in S
  BY <1>1, <1>2, Counting
<1>. QED
  BY <1>3 DEF S

(***************************************************************************)
(* What the sum does with the empty list, one more key, another table, and *)
(* two lists put together.                                                 *)
(***************************************************************************)
LEMMA BytesOfEmpty ==
  ASSUME NEW table
  PROVE  BytesOf(<< >>, table) = 0
<1>1. Len(<< >>) = 0
  OBVIOUS
<1>2. PICK g : SumEquation(g, << >>, table, 0) /\ BytesOf(<< >>, table) = g[0]
  BY <1>1, SumUnfolds
<1>3. g[0] = SumStep(<< >>, table, g, 0)
  BY <1>2 DEF SumEquation
<1>. QED
  BY <1>2, <1>3 DEF SumStep

LEMMA BytesOfAppend ==
  ASSUME NEW K, NEW s \in Seq(K), NEW k \in K, NEW table
  PROVE  BytesOf(Append(s, k), table) = BytesOf(s, table) + table[k].bytes
<1> DEFINE N == Len(s)
           u == Append(s, k)
<1>1. N \in Nat /\ Len(u) = N + 1 /\ u[N + 1] = k /\ \A n \in 1 .. N : u[n] = s[n]
  OBVIOUS
<1>2. PICK g : SumEquation(g, s, table, N) /\ BytesOf(s, table) = g[N]
  BY <1>1, SumUnfolds
<1>3. PICK h : SumEquation(h, u, table, N + 1) /\ BytesOf(u, table) = h[N + 1]
  <2>1. Len(u) \in Nat
    BY <1>1
  <2> HIDE DEF u
  <2>2. \E h : SumEquation(h, u, table, Len(u)) /\ BytesOf(u, table) = h[Len(u)]
    BY <2>1, SumUnfolds
  <2>. QED
    BY <1>1, <2>2
<1> HIDE DEF N, u
<1>4. g[N] = h[N]
  <2>1. SameBytes(s, table, u, table, N)
    BY <1>1 DEF SameBytes
  <2>2. N <= N /\ N <= N + 1 /\ N + 1 \in Nat
    BY <1>1
  <2>. QED
    <3>1. SumPair(g, s, table, N, h, u, table, N + 1, N)
      BY <1>1, <1>2, <1>3, <2>1, <2>2 DEF SumPair
    <3>. QED
      BY <3>1, SumsAgree
<1>5. h[N + 1] = SumStep(u, table, h, N + 1)
  BY <1>1, <1>3 DEF SumEquation
<1>6. (N + 1) - 1 = N /\ N + 1 # 0
  BY <1>1
<1>7. h[N + 1] = h[N] + table[k].bytes
  BY <1>1, <1>5, <1>6 DEF SumStep
<1>. QED
  BY <1>2, <1>3, <1>4, <1>7 DEF u

LEMMA BytesOfAnother ==
  ASSUME NEW K, NEW s \in Seq(K), NEW t, NEW v, \A k \in K : t[k].bytes = v[k].bytes
  PROVE  BytesOf(s, t) = BytesOf(s, v)
<1>1. Len(s) \in Nat /\ SameBytes(s, t, s, v, Len(s))
  BY DEF SameBytes
<1>2. PICK g : SumEquation(g, s, t, Len(s)) /\ BytesOf(s, t) = g[Len(s)]
  BY <1>1, SumUnfolds
<1>3. PICK h : SumEquation(h, s, v, Len(s)) /\ BytesOf(s, v) = h[Len(s)]
  BY <1>1, SumUnfolds
<1>4. SumPair(g, s, t, Len(s), h, s, v, Len(s), Len(s))
  BY <1>1, <1>2, <1>3 DEF SumPair
<1>5. g[Len(s)] = h[Len(s)]
  BY <1>4, SumsAgree
<1>. QED
  BY <1>2, <1>3, <1>5

Weighed(K, table) == \A k \in K : table[k].bytes \in Nat

LEMMA BytesOfConcat ==
  ASSUME NEW K, NEW s \in Seq(K), NEW t \in Seq(K), NEW table, Weighed(K, table)
  PROVE  /\ BytesOf(s, table) \in Nat
         /\ BytesOf(s \o t, table) = BytesOf(s, table) + BytesOf(t, table)
<1> DEFINE Nats == {n \in Nat : \A u \in Seq(K) : Len(u) = n => BytesOf(u, table) \in Nat}
           Adds == {n \in Nat : \A u \in Seq(K) :
                      Len(u) = n => BytesOf(s \o u, table) = BytesOf(s, table) + BytesOf(u, table)}
<1>0. ASSUME NEW n \in Nat, NEW u \in Seq(K), Len(u) = n + 1
      PROVE  \E w \in Seq(K), k \in K : u = Append(w, k) /\ Len(w) = n
  <2>1. u # << >>
    BY <1>0
  <2>2. PICK w \in Seq(K), k \in K : u = Append(w, k)
    BY <2>1, SequenceEmptyOrAppend
  <2>3. Len(w) = n
    BY <1>0, <2>2
  <2>. QED
    BY <2>2, <2>3
<1>1. Nat \subseteq Nats
  <2>1. 0 \in Nats
    <3>1. \A u \in Seq(K) : Len(u) = 0 => u = << >>
      OBVIOUS
    <3>2. BytesOf(<< >>, table) \in Nat
      BY BytesOfEmpty
    <3>. QED
      BY <3>1, <3>2
  <2>2. ASSUME NEW n \in Nat, n \in Nats PROVE n + 1 \in Nats
    <3>. SUFFICES ASSUME NEW u \in Seq(K), Len(u) = n + 1 PROVE BytesOf(u, table) \in Nat
      OBVIOUS
    <3>1. PICK w \in Seq(K), k \in K : u = Append(w, k) /\ Len(w) = n
      BY <1>0
    <3>2. BytesOf(u, table) = BytesOf(w, table) + table[k].bytes
      BY <3>1, BytesOfAppend
    <3>3. BytesOf(w, table) \in Nat /\ table[k].bytes \in Nat
      BY <2>2, <3>1 DEF Weighed
    <3>. QED
      BY <3>2, <3>3
  <2> HIDE DEF Nats
  <2>. QED
    BY <2>1, <2>2, Counting
<1>2. \A u \in Seq(K) : BytesOf(u, table) \in Nat
  BY <1>1
<1>3. Nat \subseteq Adds
  <2>1. 0 \in Adds
    <3>1. \A u \in Seq(K) : Len(u) = 0 => u = << >>
      OBVIOUS
    <3>2. s \o << >> = s /\ BytesOf(s, table) \in Nat /\ BytesOf(<< >>, table) = 0
      BY <1>2, BytesOfEmpty
    <3>3. BytesOf(s \o << >>, table) = BytesOf(s, table) + BytesOf(<< >>, table)
      BY <3>2
    <3>. QED
      BY <3>1, <3>3
  <2>2. ASSUME NEW n \in Nat, n \in Adds PROVE n + 1 \in Adds
    <3>. SUFFICES ASSUME NEW u \in Seq(K), Len(u) = n + 1
                  PROVE  BytesOf(s \o u, table) = BytesOf(s, table) + BytesOf(u, table)
      OBVIOUS
    <3>1. PICK w \in Seq(K), k \in K : u = Append(w, k) /\ Len(w) = n
      BY <1>0
    <3>2. s \o w \in Seq(K) /\ s \o u = Append(s \o w, k)
      <4>1. u = w \o <<k>> /\ Append(s \o w, k) = (s \o w) \o <<k>>
        BY <3>1, AppendIsConcat
      <4>2. <<k>> \in Seq(K)
        OBVIOUS
      <4>. QED
        BY <4>1, <4>2, ConcatAssociative
    <3>3. /\ BytesOf(s \o u, table) = BytesOf(s \o w, table) + table[k].bytes
          /\ BytesOf(u, table) = BytesOf(w, table) + table[k].bytes
      BY <3>1, <3>2, BytesOfAppend
    <3>4. BytesOf(s \o w, table) = BytesOf(s, table) + BytesOf(w, table)
      BY <2>2, <3>1
    <3>5. BytesOf(s, table) \in Nat /\ BytesOf(w, table) \in Nat /\ table[k].bytes \in Nat
      BY <1>2 DEF Weighed
    <3>. QED
      BY <3>3, <3>4, <3>5
  <2> HIDE DEF Adds
  <2>. QED
    BY <2>1, <2>2, Counting
<1>4. Len(t) \in Nat
  OBVIOUS
<1>. QED
  BY <1>2, <1>3, <1>4

(***************************************************************************)
(* The recency list: a key taken from its place and pushed to the front.   *)
(***************************************************************************)
TouchParts(s, key, p, q) ==
  /\ p \in Seq(Range(s) \ {key}) /\ q \in Seq(Range(s) \ {key})
  /\ Touch(s, key) = <<key>> \o (p \o q)
  /\ s = IF key \in Range(s) THEN p \o (<<key>> \o q) ELSE p \o q

LEMMA RemovedParts ==
  ASSUME NEW K, NEW s \in Seq(K), IsInjective(s), NEW key, key \in Range(s)
  PROVE  \E p, q : TouchParts(s, key, p, q)
<1>1. PICK i \in 1 .. Len(s) : s[i] = key
  BY DEF Range
<1>2. {j \in 1 .. Len(s) : s[j] = key} = {i}
  BY <1>1 DEF IsInjective
<1>3. SelectInSeq(s, LAMBDA v : v = key) = i
  BY <1>2 DEF SelectInSeq, Min
<1> DEFINE p == SubSeq(s, 1, i - 1)
           q == SubSeq(s, i + 1, Len(s))
<1>4. RemoveFirst(s, key) = p \o q
  BY <1>1, <1>3 DEF RemoveFirst, RemoveAt
<1>5. p \in Seq(Range(s) \ {key}) /\ q \in Seq(Range(s) \ {key})
  <2>1. \A j \in 1 .. i - 1 : s[j] \in Range(s) \ {key}
    BY <1>1 DEF IsInjective, Range
  <2>2. \A j \in i + 1 .. Len(s) : s[j] \in Range(s) \ {key}
    BY <1>1 DEF IsInjective, Range
  <2>3. i \in Int /\ i - 1 \in Int /\ i + 1 \in Int /\ Len(s) \in Int /\ 1 \in Int
    OBVIOUS
  <2>4. p \in Seq(Range(s) \ {key})
    BY <2>1, <2>3, SubSeqProperties
  <2>5. q \in Seq(Range(s) \ {key})
    BY <2>2, <2>3, SubSeqProperties
  <2>. QED
    BY <2>4, <2>5
<1>6. <<key>> \o q = SubSeq(s, i, Len(s))
  BY <1>1, SubSeqRecursiveFirst
<1>7. p \o SubSeq(s, i, Len(s)) = SubSeq(s, 1, Len(s))
  <2>1. /\ 1 \in 1 .. Len(s) + 1 /\ i - 1 \in (1 - 1) .. Len(s) /\ Len(s) \in (i - 1) .. Len(s)
        /\ (i - 1) + 1 = i
    OBVIOUS
  <2>. QED
    BY <2>1, ConcatAdjacentSubSeq
<1>8. SubSeq(s, 1, Len(s)) = s
  OBVIOUS
<1>9. s = p \o (<<key>> \o q)
  BY <1>6, <1>7, <1>8
<1> HIDE DEF p, q
<1>10. TouchParts(s, key, p, q)
  BY <1>4, <1>5, <1>9 DEF TouchParts, Touch
<1>. QED
  BY <1>10

LEMMA SequenceOfRange ==
  ASSUME NEW K, NEW s \in Seq(K)
  PROVE  s \in Seq(Range(s))
<1>1. Len(s) \in Nat /\ s = [i \in 1 .. Len(s) |-> s[i]] /\ DOMAIN s = 1 .. Len(s)
  OBVIOUS
<1>2. \A i \in 1 .. Len(s) : s[i] \in Range(s)
  BY <1>1 DEF Range
<1>. QED
  BY <1>1, <1>2

LEMMA TouchSplits ==
  ASSUME NEW K, NEW s \in Seq(K), IsInjective(s), NEW key
  PROVE  \E p, q : TouchParts(s, key, p, q)
<1>1. CASE key \in Range(s)
  BY <1>1, RemovedParts
<1>2. CASE key \notin Range(s)
  <2>1. RemoveFirst(s, key) = s
    BY <1>2 DEF RemoveFirst, Range
  <2>2. s = s \o << >> /\ << >> \in Seq(Range(s) \ {key}) /\ Range(s) \ {key} = Range(s)
    BY <1>2
  <2>3. TouchParts(s, key, s, << >>)
    BY <1>2, <2>1, <2>2, SequenceOfRange DEF TouchParts, Touch
  <2>. QED
    BY <2>3
<1>. QED
  BY <1>1, <1>2

LEMMA Touched ==
  ASSUME NEW K, NEW s \in Seq(K), IsInjective(s), NEW key, NEW p, NEW q, TouchParts(s, key, p, q)
  PROVE  LET t == Touch(s, key)
         IN  /\ t \in Seq(Range(s) \cup {key}) /\ IsInjective(t) /\ Range(t) = Range(s) \cup {key}
             /\ Len(t) = IF key \in Range(s) THEN Len(s) ELSE Len(s) + 1
<1> DEFINE R == Range(s) \ {key}
           M == Len(p)
           N == Len(q)
           u == p \o q
           t == <<key>> \o u
<1>1. p \in Seq(R) /\ q \in Seq(R) /\ M \in Nat /\ N \in Nat
  BY DEF TouchParts
<1>2. /\ u \in Seq(R) /\ Len(u) = M + N
      /\ \A i \in 1 .. M + N : u[i] = IF i <= M THEN p[i] ELSE q[i - M]
  BY <1>1
<1>3. /\ t \in Seq(R \cup {key}) /\ Len(t) = M + N + 1
      /\ t[1] = key /\ \A i \in 2 .. M + N + 1 : t[i] = u[i - 1]
  <2>1. <<key>> \in Seq(R \cup {key}) /\ u \in Seq(R \cup {key}) /\ Len(<<key>>) = 1 /\ <<key>>[1] = key
    BY <1>2
  <2> HIDE DEF u, R
  <2> DEFINE k == <<key>>
  <2>2. k \in Seq(R \cup {key}) /\ Len(k) = 1 /\ k[1] = key
    BY <2>1
  <2> HIDE DEF k
  <2>3. /\ k \o u \in Seq(R \cup {key}) /\ Len(k \o u) = Len(k) + Len(u)
        /\ \A i \in 1 .. Len(k) + Len(u) : (k \o u)[i] = IF i <= Len(k) THEN k[i] ELSE u[i - Len(k)]
    <3>1. u \in Seq(R \cup {key})
      BY <2>1
    <3>. QED
      BY <2>2, <3>1, ConcatProperties
  <2>4. t = k \o u
    BY DEF k
  <2> HIDE DEF t, M, N
  <2>5. Len(t) = M + N + 1
    BY <1>1, <1>2, <2>2, <2>3, <2>4
  <2>6. ASSUME NEW i \in 1 .. M + N + 1
        PROVE  t[i] = IF i = 1 THEN key ELSE u[i - 1]
    BY <1>1, <1>2, <2>2, <2>3, <2>4
  <2>7. \A i \in 2 .. M + N + 1 : t[i] = u[i - 1]
    BY <1>1, <2>6
  <2>8. t[1] = key
    BY <1>1, <2>6
  <2>. QED
    BY <2>3, <2>4, <2>5, <2>7, <2>8
<1>4. CASE key \in Range(s)
  <2>1. /\ Len(s) = M + N + 1
        /\ \A i \in 1 .. M + N + 1 :
             s[i] = IF i <= M THEN p[i] ELSE IF i = M + 1 THEN key ELSE q[i - M - 1]
    <3>1. s = p \o (<<key>> \o q)
      BY <1>4 DEF TouchParts
    <3>2. /\ <<key>> \o q \in Seq(R \cup {key}) /\ Len(<<key>> \o q) = N + 1
          /\ \A i \in 1 .. N + 1 : (<<key>> \o q)[i] = IF i = 1 THEN key ELSE q[i - 1]
      BY <1>1
    <3>3. p \in Seq(R \cup {key})
      BY <1>1
    <3> HIDE DEF R, M, N
    <3>4. /\ Len(s) = M + (N + 1)
          /\ \A i \in 1 .. M + (N + 1) : s[i] = IF i <= M THEN p[i] ELSE (<<key>> \o q)[i - M]
      BY <3>1, <3>2, <3>3, ConcatProperties DEF M
    <3>5. ASSUME NEW i \in 1 .. M + N + 1
          PROVE  s[i] = IF i <= M THEN p[i] ELSE IF i = M + 1 THEN key ELSE q[i - M - 1]
      BY <1>1, <3>2, <3>4
    <3>. QED
      BY <1>1, <3>4, <3>5
  <2> DEFINE Place(i) == IF i = 1 THEN M + 1 ELSE IF i <= M + 1 THEN i - 1 ELSE i
  <2>2. \A i \in 1 .. M + N + 1 : Place(i) \in 1 .. M + N + 1 /\ t[i] = s[Place(i)]
    <3> HIDE DEF t, u, M, N
    <3>1. ASSUME NEW i \in 1 .. M + N + 1
          PROVE  Place(i) \in 1 .. M + N + 1 /\ t[i] = s[Place(i)]
      <4>1. CASE i = 1
        BY <1>1, <1>3, <2>1, <4>1
      <4>2. CASE i # 1 /\ i <= M + 1
        <5>1. i - 1 \in 1 .. M + N /\ i - 1 <= M /\ Place(i) = i - 1 /\ i \in 2 .. M + N + 1
          BY <1>1, <4>2
        <5>2. i - 1 \in 1 .. M + N + 1
          BY <1>1, <5>1
        <5>3. t[i] = p[i - 1] /\ s[i - 1] = p[i - 1]
          BY <1>2, <1>3, <2>1, <5>1, <5>2
        <5>. QED
          BY <5>1, <5>2, <5>3
      <4>3. CASE i > M + 1
        <5>1. /\ i - 1 \in 1 .. M + N /\ ~(i - 1 <= M) /\ Place(i) = i /\ i \in 2 .. M + N + 1
              /\ (i - 1) - M = i - M - 1 /\ ~(i <= M) /\ i # M + 1
          BY <1>1, <4>3
        <5>2. t[i] = q[(i - 1) - M] /\ s[i] = q[i - M - 1]
          BY <1>2, <1>3, <2>1, <5>1
        <5>. QED
          BY <5>1, <5>2
      <4>. QED
        BY <1>1, <4>1, <4>2, <4>3
    <3>. QED
      BY <3>1
  <2>3. \A i, j \in 1 .. M + N + 1 : Place(i) = Place(j) => i = j
    BY <1>1
  <2>4. \A j \in 1 .. M + N + 1 : \E i \in 1 .. M + N + 1 : Place(i) = j
    <3>1. ASSUME NEW j \in 1 .. M + N + 1 PROVE \E i \in 1 .. M + N + 1 : Place(i) = j
      <4> DEFINE i == IF j = M + 1 THEN 1 ELSE IF j <= M THEN j + 1 ELSE j
      <4>1. i \in 1 .. M + N + 1 /\ Place(i) = j
        BY <1>1
      <4>. QED
        BY <4>1
    <3>. QED
      BY <3>1
  <2>5. DOMAIN s = 1 .. M + N + 1 /\ DOMAIN t = 1 .. M + N + 1
    BY <1>3, <2>1
  <2> HIDE DEF Place, t, u
  <2>6. IsInjective(t)
    BY <2>2, <2>3, <2>5 DEF IsInjective
  <2>7. Range(t) = Range(s)
    <3>1. Range(t) \subseteq Range(s)
      BY <2>2, <2>5 DEF Range
    <3>2. Range(s) \subseteq Range(t)
      BY <2>2, <2>4, <2>5 DEF Range
    <3>. QED
      BY <3>1, <3>2
  <2>. QED
    BY <1>3, <1>4, <2>1, <2>6, <2>7 DEF TouchParts, t, u
<1>5. CASE key \notin Range(s)
  <2>1. s = u /\ R = Range(s)
    BY <1>5 DEF TouchParts
  <2>2. DOMAIN s = 1 .. M + N /\ DOMAIN t = 1 .. M + N + 1 /\ Len(s) = M + N
    BY <1>1, <1>2, <1>3, <2>1
  <2> HIDE DEF t
  <2>3. \A i \in 1 .. M + N : t[i + 1] = s[i]
    <3> HIDE DEF u
    <3>1. ASSUME NEW i \in 1 .. M + N PROVE t[i + 1] = s[i]
      <4>1. i + 1 \in 2 .. M + N + 1 /\ (i + 1) - 1 = i
        BY <1>1
      <4>. QED
        BY <1>3, <2>1, <4>1
    <3>. QED
      BY <3>1
  <2>4. \A i \in 2 .. M + N + 1 : i - 1 \in 1 .. M + N /\ t[i] = s[i - 1] /\ t[i] # key
    <3> HIDE DEF u
    <3>1. \A i \in 2 .. M + N + 1 : i - 1 \in 1 .. M + N
      BY <1>1
    <3>. QED
      BY <1>3, <1>5, <2>1, <2>2, <3>1 DEF Range
  <2>5. IsInjective(t)
    <3>1. ASSUME NEW i \in 1 .. M + N + 1, NEW j \in 1 .. M + N + 1, t[i] = t[j] PROVE i = j
      <4>1. CASE i = 1 \/ j = 1
        BY <1>1, <1>3, <2>4, <3>1, <4>1
      <4>2. CASE i # 1 /\ j # 1
        <5>1. i \in 2 .. M + N + 1 /\ j \in 2 .. M + N + 1
          BY <1>1, <4>2
        <5>2. s[i - 1] = s[j - 1] /\ i - 1 \in DOMAIN s /\ j - 1 \in DOMAIN s
          BY <2>2, <2>4, <3>1, <5>1
        <5>3. i - 1 = j - 1
          BY <5>2 DEF IsInjective
        <5>. QED
          BY <5>1, <5>3
      <4>. QED
        BY <4>1, <4>2
    <3>. QED
      BY <2>2, <3>1 DEF IsInjective
  <2>6. Range(t) = Range(s) \cup {key}
    <3>1. Range(t) \subseteq Range(s) \cup {key}
      BY <1>3, <2>2, <2>4 DEF Range
    <3>2. Range(s) \subseteq Range(t)
      <4>1. \A i \in 1 .. M + N : i + 1 \in 1 .. M + N + 1
        BY <1>1
      <4>. QED
        BY <2>2, <2>3, <4>1 DEF Range
    <3>3. key \in Range(t)
      <4>1. 1 \in 1 .. M + N + 1
        BY <1>1
      <4>. QED
        BY <1>3, <2>2, <4>1 DEF Range
    <3>. QED
      BY <3>1, <3>2, <3>3
  <2>. QED
    BY <1>3, <1>5, <2>1, <2>2, <2>5, <2>6 DEF TouchParts, t
<1>. QED
  BY <1>4, <1>5

TableChanges(s, key, old, new) ==
  /\ s \in Seq(Range(s)) /\ IsInjective(s)
  /\ Weighed(Range(s), old) /\ Weighed(Range(s) \cup {key}, new)
  /\ \A k \in Range(s) \ {key} : old[k].bytes = new[k].bytes

\* What a touched list weighs: the key at its front, and the rest as before.
LEMMA TouchedBytes ==
  ASSUME NEW s, NEW key, NEW old, NEW new, TableChanges(s, key, old, new)
  PROVE  /\ BytesOf(s, old) \in Nat
         /\ BytesOf(Touch(s, key), new)
              = BytesOf(s, old) - (IF key \in Range(s) THEN old[key].bytes ELSE 0) + new[key].bytes
<1> DEFINE R == Range(s) \ {key}
<1>. /\ s \in Seq(Range(s)) /\ IsInjective(s)
     /\ Weighed(Range(s), old) /\ Weighed(Range(s) \cup {key}, new)
     /\ \A k \in Range(s) \ {key} : old[k].bytes = new[k].bytes
  BY DEF TableChanges
<1>1. PICK p, q : TouchParts(s, key, p, q)
  BY TouchSplits
<1>2. /\ p \in Seq(R) /\ q \in Seq(R) /\ p \o q \in Seq(R)
      /\ Weighed(R, old) /\ Weighed(R, new)
  BY <1>1 DEF TouchParts, Weighed
<1>3. BytesOf(p, old) = BytesOf(p, new) /\ BytesOf(q, old) = BytesOf(q, new)
  BY <1>2, BytesOfAnother
<1>4. /\ BytesOf(p, old) \in Nat /\ BytesOf(q, old) \in Nat
      /\ BytesOf(p \o q, old) = BytesOf(p, old) + BytesOf(q, old)
      /\ BytesOf(p \o q, new) = BytesOf(p, new) + BytesOf(q, new)
  BY <1>2, BytesOfConcat
<1>5. ASSUME NEW t, NEW u, NEW C, key \in C, u \in Seq(C), Weighed(C, t)
      PROVE  BytesOf(<<key>> \o u, t) = t[key].bytes + BytesOf(u, t)
  <2>1. << >> \in Seq(C) /\ Append(<< >>, key) = <<key>> /\ <<key>> \in Seq(C)
    BY <1>5
  <2>2. BytesOf(<<key>>, t) = BytesOf(<< >>, t) + t[key].bytes
    BY <1>5, <2>1, BytesOfAppend
  <2>3. BytesOf(<<key>>, t) = t[key].bytes
    BY <1>5, <2>2, BytesOfEmpty DEF Weighed
  <2> DEFINE k == <<key>>
  <2>4. k \in Seq(C)
    BY <2>1
  <2> HIDE DEF k
  <2>5. BytesOf(k \o u, t) = BytesOf(k, t) + BytesOf(u, t)
    BY <1>5, <2>4, BytesOfConcat
  <2>. QED
    BY <2>3, <2>5 DEF k
<1>6. BytesOf(Touch(s, key), new) = new[key].bytes + BytesOf(p \o q, new)
  <2>1. p \o q \in Seq(Range(s) \cup {key}) /\ key \in Range(s) \cup {key}
    BY <1>2, SeqMonotonic
  <2>. QED
    BY <1>1, <1>5, <2>1 DEF TouchParts
<1>7. new[key].bytes \in Nat
  BY DEF Weighed
<1>8. CASE key \in Range(s)
  <2>1. s = p \o (<<key>> \o q)
    BY <1>1, <1>8 DEF TouchParts
  <2>2. q \in Seq(Range(s)) /\ p \in Seq(Range(s)) /\ <<key>> \o q \in Seq(Range(s))
    <3>1. q \in Seq(Range(s)) /\ p \in Seq(Range(s)) /\ <<key>> \in Seq(Range(s))
      BY <1>2, <1>8
    <3>. QED
      BY <3>1
  <2>3. BytesOf(<<key>> \o q, old) = old[key].bytes + BytesOf(q, old)
    BY <1>5, <1>8, <2>2
  <2>4. BytesOf(s, old) = BytesOf(p, old) + BytesOf(<<key>> \o q, old)
    <3> DEFINE r == <<key>> \o q
    <3>1. r \in Seq(Range(s)) /\ s = p \o r
      BY <2>1, <2>2
    <3> HIDE DEF r
    <3>2. BytesOf(p \o r, old) = BytesOf(p, old) + BytesOf(r, old)
      BY <2>2, <3>1, BytesOfConcat
    <3>. QED
      BY <3>1, <3>2 DEF r
  <2>5. old[key].bytes \in Nat
    BY <1>8 DEF Weighed
  <2>. QED
    BY <1>3, <1>4, <1>6, <1>7, <1>8, <2>3, <2>4, <2>5
<1>9. CASE key \notin Range(s)
  <2>1. s = p \o q
    BY <1>1, <1>9 DEF TouchParts
  <2>. QED
    BY <1>3, <1>4, <1>6, <1>7, <1>9, <2>1
<1>. QED
  BY <1>8, <1>9

(***************************************************************************)
(* The eviction keeps a front of the list that fits the budget, or one key. *)
(***************************************************************************)
FrontFits(keys, table, n) == n = 1 \/ BytesOf(SubSeq(keys, 1, n), table) <= Budget

LEMMA KeptFits ==
  ASSUME NEW keys, keys \in Seq(Range(keys)), keys # << >>, NEW table, Weighed(Range(keys), table)
  PROVE  Kept(keys, table) \in 1 .. Len(keys) /\ FrontFits(keys, table, Kept(keys, table))
<1> DEFINE N == Len(keys)
           T == {n \in 1 .. N : FrontFits(keys, table, n)}
<1>1. N \in Nat /\ N >= 1
  OBVIOUS
<1>2. T \subseteq 0 .. N /\ 1 \in T
  BY <1>1 DEF FrontFits
<1>3. PICK m \in T : \A n \in T : n <= m
  <2> HIDE DEF T, N
  <2>. QED
    BY <1>1, <1>2, GreatestNumber
<1>4. ASSUME m # N PROVE BytesOf(SubSeq(keys, 1, m + 1), table) > Budget
  <2>1. m + 1 \in 1 .. N /\ m + 1 \notin T /\ m + 1 # 1
    BY <1>1, <1>3, <1>4
  <2>2. ~(BytesOf(SubSeq(keys, 1, m + 1), table) <= Budget)
    BY <2>1 DEF FrontFits
  <2>3. SubSeq(keys, 1, m + 1) \in Seq(Range(keys))
    <3>1. m + 1 \in Int /\ 1 \in Int /\ \A i \in 1 .. m + 1 : keys[i] \in Range(keys)
      BY <1>1, <2>1 DEF Range
    <3>. QED
      BY <3>1, SubSeqProperties
  <2>4. BytesOf(SubSeq(keys, 1, m + 1), table) \in Nat
    BY <2>3, BytesOfConcat
  <2>. QED
    BY <2>2, <2>4, ReplayAssumption
<1> DEFINE P(n) == /\ n = 1 \/ BytesOf(SubSeq(keys, 1, n), table) <= Budget
                   /\ n = Len(keys) \/ BytesOf(SubSeq(keys, 1, n + 1), table) > Budget
<1>5. m \in 1 .. Len(keys) /\ P(m)
  BY <1>3, <1>4 DEF FrontFits
<1>6. Kept(keys, table) = CHOOSE n \in 1 .. Len(keys) : P(n)
  BY Zenon DEF Kept
<1> HIDE DEF N, T
<1>7. Kept(keys, table) \in 1 .. Len(keys) /\ P(Kept(keys, table))
  <2> HIDE DEF P
  <2>. QED
    BY <1>5, <1>6, Zenon
<1>. QED
  BY <1>7 DEF FrontFits

LEMMA FrontOf ==
  ASSUME NEW keys, keys \in Seq(Range(keys)), IsInjective(keys), NEW n \in 1 .. Len(keys),
         NEW table, Weighed(Range(keys), table)
  PROVE  LET kept == SubSeq(keys, 1, n)
             cut == SubSeq(keys, n + 1, Len(keys))
         IN  /\ kept \in Seq(Range(kept)) /\ IsInjective(kept) /\ Len(kept) = n
             /\ Range(kept) \subseteq Range(keys)
             /\ BytesOf(kept, table) \in Nat /\ BytesOf(cut, table) \in Nat
             /\ BytesOf(keys, table) = BytesOf(kept, table) + BytesOf(cut, table)
<1> DEFINE kept == SubSeq(keys, 1, n)
           cut == SubSeq(keys, n + 1, Len(keys))
<1>1. /\ kept \in Seq(Range(keys)) /\ Len(kept) = n /\ DOMAIN kept = 1 .. n
      /\ \A i \in 1 .. n : kept[i] = keys[i]
      /\ cut \in Seq(Range(keys)) /\ DOMAIN keys = 1 .. Len(keys)
  OBVIOUS
<1>2. keys = kept \o cut
  <2>1. 1 \in 1 .. Len(keys) + 1 /\ n \in (1 - 1) .. Len(keys) /\ Len(keys) \in n .. Len(keys)
    OBVIOUS
  <2>2. kept \o cut = SubSeq(keys, 1, Len(keys))
    BY <2>1, ConcatAdjacentSubSeq
  <2>3. SubSeq(keys, 1, Len(keys)) = keys
    OBVIOUS
  <2>. QED
    BY <2>2, <2>3
<1> HIDE DEF kept, cut
<1>3. BytesOf(kept \o cut, table) = BytesOf(kept, table) + BytesOf(cut, table)
  BY <1>1, BytesOfConcat
<1>4. BytesOf(kept, table) \in Nat /\ BytesOf(cut, table) \in Nat
  BY <1>1, BytesOfConcat
<1>5. kept \in Seq(Range(kept))
  BY <1>1, SequenceOfRange
<1>6. IsInjective(kept)
  BY <1>1 DEF IsInjective
<1>7. Range(kept) \subseteq Range(keys)
  BY <1>1 DEF Range
<1>. QED
  BY <1>1, <1>2, <1>3, <1>4, <1>5, <1>6, <1>7 DEF kept, cut

LEMMA RangeCounts ==
  ASSUME NEW s, s \in Seq(Range(s)), IsInjective(s)
  PROVE  Cardinality(Range(s)) = Len(s)
<1>1. Len(s) \in Nat /\ DOMAIN s = 1 .. Len(s)
  OBVIOUS
<1>2. s \in [1 .. Len(s) -> Range(s)]
  OBVIOUS
<1>3. s \in Bijection(1 .. Len(s), Range(s))
  BY <1>1, <1>2 DEF Bijection, Injection, Surjection, IsInjective, Range
<1>4. ExistsBijection(1 .. Len(s), Range(s))
  BY <1>3 DEF ExistsBijection
<1>. QED
  BY <1>1, <1>4, FS_CountingElements

(***************************************************************************)
(* The inductive invariant of the books.                                   *)
(***************************************************************************)
AppliedOp == [word : Nat, anchors : Nat]
Snapshots == {s \in [done : Seq(AppliedOp), book : BOOLEAN, named : SUBSET Nat,
                      recorded : SUBSET Nat] :
                s.named \subseteq 1 .. Len(s.done)}

Work ==
  /\ reuse \in BOOLEAN
  /\ request \in {NoRequest} \cup [doc : Documents, names : BOOLEAN]
  /\ index \in 0 .. Len(request.doc)
  /\ state \in Snapshots

Table ==
  \A key \in DOMAIN entries :
    /\ entries[key].snapshot \in Snapshots
    /\ entries[key].bytes = EstimateSnapshotBytes(entries[key].snapshot)

Books ==
  /\ recency \in Seq(Range(recency)) /\ IsInjective(recency)
  /\ Range(recency) = DOMAIN entries
  /\ totalBytes = BytesOf(recency, entries)
  /\ totalBytes <= Budget \/ Len(recency) = 1
  /\ stored \in Nat /\ evictions \in Nat /\ Len(recency) = stored - evictions

Accounts == Work /\ Table /\ Books

LEMMA EstimateIsNatural ==
  ASSUME NEW s \in Snapshots
  PROVE  EstimateSnapshotBytes(s) \in Nat
<1>1. Len(s.done) \in Nat /\ s.named \subseteq 1 .. Len(s.done)
  BY DEF Snapshots
<1>2. IsFiniteSet(s.named)
  <2>1. IsFiniteSet(1 .. Len(s.done))
    BY <1>1, FS_Interval
  <2>. QED
    BY <1>1, <2>1, FS_Subset
<1>3. Cardinality(s.named) \in Nat
  BY <1>2, FS_CardinalityType
<1>. QED
  BY <1>1, <1>3 DEF EstimateSnapshotBytes

LEMMA FreshTyped ==
  ASSUME NEW channel
  PROVE  Fresh(channel) \in Snapshots
<1>1. (channel # "none") \in BOOLEAN
  BY Zenon
<1>2. << >> \in Seq(AppliedOp) /\ {} \in SUBSET Nat /\ {} \subseteq 1 .. Len(<< >>)
  OBVIOUS
<1>. QED
  BY <1>1, <1>2 DEF Fresh, Snapshots

LEMMA AccountsInit == Init => Accounts
<1>. SUFFICES ASSUME Init PROVE Accounts
  OBVIOUS
<1>1. DOMAIN entries = {} /\ recency = << >> /\ totalBytes = 0 /\ stored = 0 /\ evictions = 0
  BY DEF Init
<1>2. Range(recency) = {} /\ recency \in Seq(Range(recency)) /\ IsInjective(recency) /\ Len(recency) = 0
  BY <1>1 DEF Range, IsInjective
<1>3. Books
  BY <1>1, <1>2, BytesOfEmpty, ReplayAssumption DEF Books
<1>4. Work
  <2>1. NoRequest.doc = << >> /\ Len(<< >>) = 0
    BY DEF NoRequest
  <2>. QED
    BY <2>1, FreshTyped DEF Init, Work
<1>. QED
  BY <1>1, <1>3, <1>4 DEF Accounts, Table

\* Put leaves a table of what it had and of what it stores, and books that balance.
LEMMA PutKeeps ==
  ASSUME Table, Books, NEW key, NEW snapshot \in Snapshots, Put(key, snapshot)
  PROVE  /\ Table' /\ Books'
         /\ \A k \in DOMAIN entries' :
              \/ k = key /\ entries'[k].snapshot = snapshot
              \/ k # key /\ k \in DOMAIN entries /\ entries'[k] = entries[k]
<1> DEFINE bytes == EstimateSnapshotBytes(snapshot)
           old == IF key \in DOMAIN entries THEN entries[key].bytes ELSE 0
           table == [k \in DOMAIN entries \cup {key} |->
                       IF k = key THEN [snapshot |-> snapshot, bytes |-> bytes] ELSE entries[k]]
           keys == Touch(recency, key)
           n == Kept(keys, table)
           kept == SubSeq(keys, 1, n)
           cut == SubSeq(keys, n + 1, Len(keys))
<1>1. /\ stored' = stored + (IF key \in DOMAIN entries THEN 0 ELSE 1)
      /\ recency' = kept
      /\ entries' = [k \in Range(kept) |-> table[k]]
      /\ totalBytes' = (totalBytes - old + bytes) - BytesOf(cut, table)
      /\ evictions' = evictions + Len(keys) - n
  BY DEF Put, EvictToBudget
<1>2. Weighed(DOMAIN entries, entries) /\ bytes \in Nat
  BY EstimateIsNatural DEF Weighed, Table
<1>3. Weighed(DOMAIN entries \cup {key}, table)
  BY <1>2 DEF Weighed
<1>4. \A k \in DOMAIN entries \ {key} : entries[k].bytes = table[k].bytes
  OBVIOUS
<1>5. table[key].bytes = bytes
  OBVIOUS
<1>6. /\ keys \in Seq(DOMAIN entries \cup {key}) /\ IsInjective(keys)
      /\ Range(keys) = DOMAIN entries \cup {key}
      /\ Len(keys) = IF key \in DOMAIN entries THEN Len(recency) ELSE Len(recency) + 1
  <2>1. PICK p, q : TouchParts(recency, key, p, q)
    BY TouchSplits DEF Books
  <2>. QED
    BY <2>1, Touched DEF Books
<1>7. BytesOf(keys, table) = totalBytes - old + bytes
  <2>1. /\ recency \in Seq(Range(recency)) /\ IsInjective(recency)
        /\ Range(recency) = DOMAIN entries /\ totalBytes = BytesOf(recency, entries)
    BY DEF Books
  <2> HIDE DEF table, bytes
  <2>2. BytesOf(Touch(recency, key), table)
          = BytesOf(recency, entries)
              - (IF key \in Range(recency) THEN entries[key].bytes ELSE 0) + table[key].bytes
    <3>1. TableChanges(recency, key, entries, table)
      BY <1>2, <1>3, <1>4, <2>1 DEF TableChanges
    <3>. QED
      BY <3>1, TouchedBytes
  <2>. QED
    BY <1>5, <2>1, <2>2
<1>8. Len(recency) \in Nat
  BY DEF Books
<1>t. \A k \in DOMAIN entries \cup {key} :
        table[k] = IF k = key THEN [snapshot |-> snapshot, bytes |-> bytes] ELSE entries[k]
  OBVIOUS
<1> HIDE DEF table, keys, bytes, old
<1>9. keys \in Seq(Range(keys)) /\ keys # << >> /\ Weighed(Range(keys), table)
  <2>1. Range(<< >>) = {}
    BY DEF Range
  <2>. QED
    BY <1>3, <1>6, <2>1
<1>10. n \in 1 .. Len(keys) /\ FrontFits(keys, table, n)
  BY <1>9, KeptFits
<1> HIDE DEF n, kept, cut
<1>11. /\ kept \in Seq(Range(kept)) /\ IsInjective(kept) /\ Len(kept) = n
       /\ Range(kept) \subseteq Range(keys)
       /\ BytesOf(kept, table) \in Nat /\ BytesOf(cut, table) \in Nat
       /\ BytesOf(keys, table) = BytesOf(kept, table) + BytesOf(cut, table)
  <2>1. /\ keys \in Seq(Range(keys)) /\ IsInjective(keys) /\ Weighed(Range(keys), table)
        /\ n \in 1 .. Len(keys)
    BY <1>6, <1>9, <1>10
  <2>. QED
    BY <2>1, FrontOf DEF kept, cut
<1>f. n = 1 \/ BytesOf(kept, table) <= Budget
  BY <1>10 DEF FrontFits, kept
<1>12. BytesOf(kept, table) = BytesOf(kept, entries')
  <2>1. \A k \in Range(kept) : table[k].bytes = entries'[k].bytes
    BY <1>1
  <2>. QED
    BY <1>11, <2>1, BytesOfAnother
<1>13. totalBytes' = BytesOf(kept, entries')
  <2>1. \A a, b, c \in Int : a = b + c => a - c = b
    OBVIOUS
  <2>2. BytesOf(keys, table) \in Int /\ BytesOf(kept, table) \in Int /\ BytesOf(cut, table) \in Int
    BY <1>11
  <2>. QED
    BY <1>1, <1>7, <1>11, <1>12, <2>1, <2>2
<1>14. Books'
  <2>1. /\ recency' \in Seq(Range(recency')) /\ IsInjective(recency')
        /\ Range(recency') = DOMAIN entries'
    BY <1>1, <1>11
  <2>2. totalBytes' <= Budget \/ Len(recency') = 1
    BY <1>1, <1>11, <1>12, <1>13, <1>f
  <2>3. stored' \in Nat /\ evictions' \in Nat /\ Len(recency') = stored' - evictions'
    <3>1. Len(keys) - n \in Nat /\ n \in Nat /\ Len(keys) \in Nat
      BY <1>6, <1>8, <1>10
    <3>2. stored \in Nat /\ evictions \in Nat /\ Len(recency) = stored - evictions
      BY DEF Books
    <3>3. Len(recency') = n
      BY <1>1, <1>11
    <3>. QED
      BY <1>1, <1>6, <1>8, <3>1, <3>2, <3>3
  <2>. QED
    BY <1>1, <1>13, <2>1, <2>2, <2>3 DEF Books
<1>15. ASSUME NEW k \in DOMAIN entries'
       PROVE  \/ k = key /\ entries'[k] = [snapshot |-> snapshot, bytes |-> bytes]
              \/ k # key /\ k \in DOMAIN entries /\ entries'[k] = entries[k]
  <2>1. k \in Range(kept) /\ entries'[k] = table[k] /\ k \in DOMAIN entries \cup {key}
    BY <1>1, <1>6, <1>11
  <2>. QED
    BY <1>t, <2>1
<1>16. Table'
  <2>1. ASSUME NEW k \in DOMAIN entries'
        PROVE  /\ entries'[k].snapshot \in Snapshots
               /\ entries'[k].bytes = EstimateSnapshotBytes(entries'[k].snapshot)
    BY <1>15 DEF Table, bytes
  <2>. QED
    BY <2>1 DEF Table, EstimateSnapshotBytes
<1>17. ASSUME NEW k \in DOMAIN entries'
       PROVE  \/ k = key /\ entries'[k].snapshot = snapshot
              \/ k # key /\ k \in DOMAIN entries /\ entries'[k] = entries[k]
  BY <1>15
<1>. QED
  BY <1>14, <1>16, <1>17

(***************************************************************************)
(* The accounts survive every step.                                        *)
(***************************************************************************)
LEMMA DocumentTyped ==
  ASSUME NEW doc \in Documents
  PROVE  /\ doc \in Seq(Operation) /\ Len(doc) \in Nat /\ DOMAIN doc = 1 .. Len(doc)
         /\ \A i \in 1 .. Len(doc) : doc[i] \in Operation
<1>1. doc \in Seq(Operation)
  BY ReplayAssumption
<1>. QED
  BY <1>1

LEMMA LongestIsCached ==
  ASSUME NEW doc \in Documents
  PROVE  \/ LongestCached(doc) = 0
         \/ /\ reuse /\ LongestCached(doc) \in 1 .. Len(doc)
            /\ CumulativeHash(doc, LongestCached(doc)) \in DOMAIN entries
<1> DEFINE live == {n \in 1 .. Len(doc) : CumulativeHash(doc, n) \in DOMAIN entries}
<1>1. CASE reuse /\ live # {}
  <2>1. LongestCached(doc) = Max(live)
    BY <1>1 DEF LongestCached
  <2>2. live \subseteq 0 .. Len(doc) /\ Len(doc) \in Nat
    BY DocumentTyped
  <2>3. \E m \in live : \A n \in live : n <= m
    <3> HIDE DEF live
    <3>. QED
      BY <1>1, <2>2, GreatestNumber
  <2>4. \E m \in live : \A n \in live : m >= n
    <3>1. \A m, n \in live : n <= m => m >= n
      BY <2>2
    <3>. QED
      BY <2>3, <3>1
  <2>5. Max(live) \in live
    <3> HIDE DEF live
    <3>. QED
      BY <2>4 DEF Max
  <2>. QED
    BY <1>1, <2>1, <2>5
<1>2. CASE ~(reuse /\ live # {})
  BY <1>2 DEF LongestCached
<1>. QED
  BY <1>1, <1>2

LEMMA SnapshotShape ==
  ASSUME NEW st \in Snapshots
  PROVE  /\ st.done \in Seq(AppliedOp) /\ Len(st.done) \in Nat /\ DOMAIN st.done = 1 .. Len(st.done)
         /\ st.book \in BOOLEAN /\ st.named \subseteq 1 .. Len(st.done) /\ st.recorded \in SUBSET Nat
         /\ st = [done |-> st.done, book |-> st.book, named |-> st.named, recorded |-> st.recorded]
BY DEF Snapshots

LEMMA ExtendedTyped ==
  ASSUME NEW st \in Snapshots, NEW op \in Operation, NEW registry
  PROVE  /\ Extended(st, op, registry) \in Snapshots
         /\ Extended(st, op, registry).book = st.book
<1>1. /\ st.done \in Seq(AppliedOp) /\ Len(st.done) \in Nat /\ st.book \in BOOLEAN
      /\ st.named \subseteq 1 .. Len(st.done) /\ st.recorded \in SUBSET Nat
  BY SnapshotShape
<1>2. Applied(op) \in AppliedOp
  BY DEF Applied, AppliedOp, Operation
<1> DEFINE body == Len(st.done) + 1
           done == Append(st.done, Applied(op))
           named == st.named \cup (IF Names(st, op, registry) THEN {body} ELSE {})
           recorded == st.recorded \cup (IF Records(op, registry) THEN {body} ELSE {})
<1>3. Extended(st, op, registry)
        = [done |-> done, book |-> st.book, named |-> named, recorded |-> recorded]
  BY Zenon DEF Extended
<1>4. done \in Seq(AppliedOp) /\ Len(done) = Len(st.done) + 1
  BY <1>1, <1>2
<1> HIDE DEF done
<1>5. named \subseteq 1 .. Len(done) /\ named \in SUBSET Nat /\ recorded \in SUBSET Nat
  BY <1>1, <1>4
<1> HIDE DEF named, recorded
<1>. QED
  BY <1>1, <1>3, <1>4, <1>5 DEF Snapshots

LEMMA TakenTyped ==
  ASSUME NEW st \in Snapshots
  PROVE  /\ TakeSnapshot(st) \in Snapshots
         /\ TakeSnapshot(st) = [done |-> st.done, book |-> st.book, named |-> st.named, recorded |-> {}]
<1>0. st = [done |-> st.done, book |-> st.book, named |-> st.named, recorded |-> st.recorded]
  BY SnapshotShape
<1>1. TakeSnapshot(st) = [done |-> st.done, book |-> st.book, named |-> st.named, recorded |-> {}]
  BY <1>0 DEF TakeSnapshot
<1>2. st.done \in Seq(AppliedOp) /\ st.book \in BOOLEAN /\ st.named \in SUBSET Nat
      /\ st.named \subseteq 1 .. Len(st.done)
  BY DEF Snapshots
<1>. QED
  BY <1>1, <1>2 DEF Snapshots

LEMMA RestoredTyped ==
  ASSUME NEW st \in Snapshots, NEW channel
  PROVE  RestoreFrom(st, channel) \in Snapshots
<1>1. st = [done |-> st.done, book |-> st.book, named |-> st.named, recorded |-> st.recorded]
  BY SnapshotShape
<1>2. RestoreFrom(st, channel)
        = [done |-> st.done, book |-> (st.book \/ channel = "registry"), named |-> st.named,
           recorded |-> st.recorded]
  BY <1>1 DEF RestoreFrom
<1>3. (st.book \/ channel = "registry") \in BOOLEAN
  BY Zenon
<1>. QED
  BY <1>2, <1>3 DEF Snapshots

LEMMA RunningTyped ==
  ASSUME Work, Running
  PROVE  /\ request \in [doc : Documents, names : BOOLEAN] /\ request.doc \in Documents
         /\ index + 1 \in 1 .. Len(request.doc) /\ index \in Nat /\ Current \in Operation
<1>1. request \in [doc : Documents, names : BOOLEAN]
  BY DEF Work, Running, Idle
<1>2. request.doc \in Documents
  BY <1>1
<1>3. Len(request.doc) \in Nat
  BY <1>2, DocumentTyped
<1>4. index + 1 \in 1 .. Len(request.doc) /\ index \in Nat
  BY <1>3 DEF Work, Running
<1>. QED
  BY <1>1, <1>2, <1>4, DocumentTyped DEF Current

LEMMA BooksKept ==
  ASSUME Table, Books, UNCHANGED <<entries, totalBytes, stored, evictions>>,
         \/ recency' = recency
         \/ \E key \in DOMAIN entries : recency' = Touch(recency, key)
  PROVE  Books'
<1>1. CASE recency' = recency
  BY <1>1 DEF Books, Range, IsInjective
<1>2. CASE \E key \in DOMAIN entries : recency' = Touch(recency, key)
  <2>1. PICK key \in DOMAIN entries : recency' = Touch(recency, key)
    BY <1>2
  <2>2. TableChanges(recency, key, entries, entries)
    <3>1. \A k \in DOMAIN entries : entries[k].bytes \in Nat
      BY EstimateIsNatural DEF Table
    <3>. QED
      BY <3>1 DEF Books, TableChanges, Weighed
  <2>3. /\ BytesOf(recency, entries) \in Nat
        /\ BytesOf(recency', entries)
             = BytesOf(recency, entries) - entries[key].bytes + entries[key].bytes
    BY <2>1, <2>2, TouchedBytes DEF Books
  <2>4. entries[key].bytes \in Nat
    BY EstimateIsNatural DEF Table
  <2>5. totalBytes' = BytesOf(recency', entries')
    BY <2>3, <2>4 DEF Books
  <2>6. PICK p, q : TouchParts(recency, key, p, q)
    BY TouchSplits DEF Books
  <2>7. /\ recency' \in Seq(Range(recency')) /\ IsInjective(recency')
        /\ Range(recency') = DOMAIN entries /\ Len(recency') = Len(recency)
    <3>1. Range(recency) = DOMAIN entries /\ Range(recency) \cup {key} = Range(recency)
      BY DEF Books
    <3>. QED
      BY <2>1, <2>6, <3>1, Touched DEF Books
  <2>. QED
    BY <2>5, <2>7 DEF Books
<1>. QED
  BY <1>1, <1>2

LEMMA AnswerKeeps ==
  ASSUME Accounts, NEW result, Respond(result)
  PROVE  Accounts'
<1>1. Work'
  <2>1. NoRequest.doc = << >> /\ Len(<< >>) = 0
    BY DEF NoRequest
  <2>2. request' = NoRequest /\ state' = Fresh("none") /\ index' = 0 /\ reuse' = reuse
    BY DEF Respond
  <2>3. index' \in 0 .. Len(request'.doc)
    BY <2>1, <2>2
  <2>. QED
    BY <2>2, <2>3, FreshTyped DEF Work, Accounts
<1>2. UNCHANGED cacheVars
  BY DEF Respond
<1>3. Table'
  BY <1>2 DEF Accounts, Table, cacheVars, EstimateSnapshotBytes
<1>4. Books'
  BY <1>2, BooksKept DEF Accounts, cacheVars
<1>. QED
  BY <1>1, <1>3, <1>4 DEF Accounts

LEMMA EvaluateKeeps ==
  ASSUME Accounts, Evaluate
  PROVE  Accounts'
<1>1. PICK doc \in Documents, names \in BOOLEAN :
        LET prefix == LongestCached(doc)
            key == CumulativeHash(doc, prefix)
        IN /\ request' = [doc |-> doc, names |-> names]
           /\ index' = prefix
           /\ state' = IF prefix = 0 THEN Fresh(Channel(doc, names))
                       ELSE RestoreFrom(entries[key].snapshot, Channel(doc, names))
           /\ recency' = IF prefix = 0 THEN recency ELSE Touch(recency, key)
  BY DEF Evaluate
<1>2. UNCHANGED <<reuse, entries, totalBytes, stored, evictions>>
  BY DEF Evaluate
<1> DEFINE prefix == LongestCached(doc)
           key == CumulativeHash(doc, prefix)
<1>3. prefix = 0 \/ (prefix \in 1 .. Len(doc) /\ key \in DOMAIN entries)
  BY LongestIsCached
<1>4. Len(doc) \in Nat
  BY DocumentTyped
<1> HIDE DEF prefix, key
<1>5. /\ request' = [doc |-> doc, names |-> names] /\ index' = prefix
      /\ state' = IF prefix = 0 THEN Fresh(Channel(doc, names))
                  ELSE RestoreFrom(entries[key].snapshot, Channel(doc, names))
      /\ recency' = IF prefix = 0 THEN recency ELSE Touch(recency, key)
  BY <1>1 DEF prefix, key
<1>6. Work'
  <2>1. state' \in Snapshots
    <3>1. CASE prefix = 0
      BY <1>5, <3>1, FreshTyped
    <3>2. CASE prefix # 0
      <4>1. entries[key].snapshot \in Snapshots
        BY <1>3, <3>2 DEF Accounts, Table
      <4>. QED
        BY <1>5, <3>2, <4>1, RestoredTyped
    <3>. QED
      BY <3>1, <3>2
  <2>2. request' \in [doc : Documents, names : BOOLEAN] /\ request'.doc = doc
    BY <1>5
  <2>3. index' \in 0 .. Len(request'.doc)
    BY <1>3, <1>4, <1>5, <2>2
  <2>. QED
    BY <1>2, <2>1, <2>2, <2>3 DEF Work, Accounts
<1>7. Table'
  BY <1>2 DEF Accounts, Table, EstimateSnapshotBytes
<1>8. Books'
  <2>1. recency' = recency \/ \E k \in DOMAIN entries : recency' = Touch(recency, k)
    BY <1>3, <1>5
  <2>. QED
    BY <1>2, <2>1, BooksKept DEF Accounts
<1>. QED
  BY <1>6, <1>7, <1>8 DEF Accounts

LEMMA ExecuteKeeps ==
  ASSUME Accounts, Execute
  PROVE  Accounts'
<1>1. /\ request \in [doc : Documents, names : BOOLEAN] /\ request.doc \in Documents
      /\ index + 1 \in 1 .. Len(request.doc) /\ index \in Nat /\ Current \in Operation
  BY RunningTyped DEF Accounts, Execute
<1>2. /\ UNCHANGED <<reuse, request>> /\ index' = index + 1
      /\ state' = IF Current.suppressed THEN state ELSE Extended(state, Current, TailRegistry)
      /\ IF reuse THEN Put(CumulativeHash(request.doc, index + 1), TakeSnapshot(state')) ELSE UNCHANGED cacheVars
  BY DEF Execute
<1>3. state' \in Snapshots
  <2>1. state \in Snapshots
    BY DEF Accounts, Work
  <2>. QED
    BY <1>1, <1>2, <2>1, ExtendedTyped
<1>4. Work'
  <2>1. index' \in 0 .. Len(request'.doc)
    BY <1>1, <1>2
  <2>. QED
    BY <1>1, <1>2, <1>3, <2>1 DEF Work, Accounts
<1>5. Table' /\ Books'
  <2>1. CASE reuse
    <3> DEFINE key == CumulativeHash(request.doc, index + 1)
               snapshot == TakeSnapshot(state')
    <3>1. Put(key, snapshot) /\ snapshot \in Snapshots
      BY <1>2, <1>3, <2>1, TakenTyped
    <3> HIDE DEF key, snapshot
    <3>. QED
      BY <3>1, PutKeeps DEF Accounts
  <2>2. CASE ~reuse
    <3>1. UNCHANGED cacheVars
      BY <1>2, <2>2
    <3>. QED
      BY <3>1, BooksKept DEF Accounts, cacheVars, Table, EstimateSnapshotBytes
  <2>. QED
    BY <2>1, <2>2
<1>. QED
  BY <1>4, <1>5 DEF Accounts

LEMMA AccountsNext == Accounts /\ [Next]_vars => Accounts'
<1>. SUFFICES ASSUME Accounts, [Next]_vars PROVE Accounts'
  OBVIOUS
<1>1. CASE Evaluate
  BY <1>1, EvaluateKeeps
<1>2. CASE Execute
  BY <1>2, ExecuteKeeps
<1>3. CASE Throw
  BY <1>3, AnswerKeeps DEF Throw
<1>4. CASE Cancel
  BY <1>4, AnswerKeeps DEF Cancel
<1>5. CASE Return
  BY <1>5, AnswerKeeps DEF Return
<1>6. CASE UNCHANGED vars
  <2>1. UNCHANGED <<reuse, entries, recency, totalBytes, stored, evictions, request, state, index>>
    BY <1>6 DEF vars, cacheVars
  <2>2. Work' /\ Table'
    BY <2>1 DEF Accounts, Work, Table, EstimateSnapshotBytes
  <2>3. Books'
    BY <2>1, BooksKept DEF Accounts
  <2>. QED
    BY <2>2, <2>3 DEF Accounts
<1>. QED
  BY <1>1, <1>2, <1>3, <1>4, <1>5, <1>6 DEF Next

\* The running total, the recency list and the counters of the governor agree
\* with the entries it holds, whatever was touched, replaced or evicted.
THEOREM CacheIsAccounted == Spec => []CacheAccounted
<1>1. Accounts => CacheAccounted
  <2>. SUFFICES ASSUME Accounts PROVE CacheAccounted
    OBVIOUS
  <2>1. Cardinality(Range(recency)) = Len(recency)
    BY RangeCounts DEF Accounts, Books
  <2>. QED
    BY <2>1 DEF Accounts, Table, Books, CacheAccounted
<1>. QED
  BY <1>1, AccountsInit, AccountsNext, PTL DEF Spec

(***************************************************************************)
(* The cold evaluation, operation by operation.                            *)
(***************************************************************************)
ColdNode(channel, doc, g, n) ==
  IF n = 0 THEN [code |-> "ok", state |-> Fresh(channel)]
  ELSE ColdStep(channel, g[n - 1], doc[n])
ColdEquation(g, channel, doc, N) == g = [n \in 0 .. N |-> ColdNode(channel, doc, g, n)]

LEMMA ColdExists ==
  ASSUME NEW channel, NEW doc, NEW N \in Nat
  PROVE  \E g : ColdEquation(g, channel, doc, N)
<1> DEFINE S == {n \in Nat : \E g : ColdEquation(g, channel, doc, n)}
<1>1. 0 \in S
  <2>1. ColdEquation([n \in 0 .. 0 |-> [code |-> "ok", state |-> Fresh(channel)]], channel, doc, 0)
    BY DEF ColdEquation, ColdNode
  <2>. QED
    BY <2>1
<1>2. ASSUME NEW n \in Nat, n \in S PROVE n + 1 \in S
  <2>1. PICK g : ColdEquation(g, channel, doc, n)
    BY <1>2
  <2> DEFINE h == [k \in 0 .. n + 1 |-> IF k = n + 1 THEN ColdStep(channel, g[n], doc[n + 1]) ELSE g[k]]
  <2>2. \A k \in 0 .. n : g[k] = ColdNode(channel, doc, g, k)
    BY <2>1 DEF ColdEquation
  <2>3. \A k \in 0 .. n + 1 : h[k] = ColdNode(channel, doc, h, k)
    BY <2>2 DEF ColdNode
  <2>4. h = [k \in 0 .. n + 1 |-> h[k]]
    OBVIOUS
  <2> HIDE DEF h
  <2>5. ColdEquation(h, channel, doc, n + 1)
    BY <2>3, <2>4 DEF ColdEquation
  <2>. QED
    BY <2>5
<1> HIDE DEF S
<1>3. N \in S
  BY <1>1, <1>2, Counting
<1>. QED
  BY <1>3 DEF S

LEMMA ColdUnfolds ==
  ASSUME NEW channel, NEW doc, NEW N \in Nat
  PROVE  \E g : ColdEquation(g, channel, doc, N) /\ ColdAfter(channel, doc, N) = g[N]
<1> DEFINE cold == CHOOSE g : ColdEquation(g, channel, doc, N)
<1>1. ColdEquation(cold, channel, doc, N)
  <2>1. \E g : ColdEquation(g, channel, doc, N)
    BY ColdExists
  <2>. QED
    BY <2>1, Zenon
<1>2. ColdAfter(channel, doc, N) = cold[N]
  BY Zenon DEF ColdAfter, ColdEquation, ColdNode
<1> HIDE DEF cold
<1>. QED
  BY <1>1, <1>2

\* Two cold evaluations over one channel agree as far as their documents do.
ColdPair(g, doc, M, h, dog, N, channel, m) ==
  /\ M \in Nat /\ N \in Nat /\ m \in Nat /\ m <= M /\ m <= N
  /\ ColdEquation(g, channel, doc, M) /\ ColdEquation(h, channel, dog, N)
  /\ \A n \in 1 .. m : doc[n] = dog[n]

LEMMA ColdsAgree ==
  ASSUME NEW g, NEW doc, NEW M, NEW h, NEW dog, NEW N, NEW channel, NEW m,
         ColdPair(g, doc, M, h, dog, N, channel, m)
  PROVE  g[m] = h[m]
<1>. M \in Nat /\ N \in Nat /\ m \in Nat /\ m <= M /\ m <= N
  BY DEF ColdPair
<1> DEFINE S == {n \in Nat : n <= m => g[n] = h[n]}
<1>0. /\ \A n \in 0 .. M : g[n] = ColdNode(channel, doc, g, n)
      /\ \A n \in 0 .. N : h[n] = ColdNode(channel, dog, h, n)
  BY DEF ColdPair, ColdEquation
<1>1. 0 \in S
  BY <1>0 DEF ColdNode
<1>2. ASSUME NEW n \in Nat, n \in S PROVE n + 1 \in S
  <2>. SUFFICES ASSUME n + 1 <= m PROVE g[n + 1] = h[n + 1]
    OBVIOUS
  <2>1. g[n] = h[n]
    BY <1>2
  <2>2. g[n + 1] = ColdNode(channel, doc, g, n + 1) /\ h[n + 1] = ColdNode(channel, dog, h, n + 1)
    BY <1>0
  <2>3. doc[n + 1] = dog[n + 1]
    BY DEF ColdPair
  <2>4. (n + 1) - 1 = n /\ n + 1 # 0
    OBVIOUS
  <2>. QED
    BY <2>1, <2>2, <2>3, <2>4 DEF ColdNode
<1> HIDE DEF S
<1>3. m \in S
  BY <1>1, <1>2, Counting
<1>. QED
  BY <1>3 DEF S

LEMMA ColdSame ==
  ASSUME NEW channel, NEW doc, NEW dog, NEW n \in Nat, \A i \in 1 .. n : doc[i] = dog[i]
  PROVE  ColdAfter(channel, doc, n) = ColdAfter(channel, dog, n)
<1>1. PICK g : ColdEquation(g, channel, doc, n) /\ ColdAfter(channel, doc, n) = g[n]
  BY ColdUnfolds
<1>2. PICK h : ColdEquation(h, channel, dog, n) /\ ColdAfter(channel, dog, n) = h[n]
  BY ColdUnfolds
<1>3. ColdPair(g, doc, n, h, dog, n, channel, n)
  BY <1>1, <1>2 DEF ColdPair
<1>4. g[n] = h[n]
  BY <1>3, ColdsAgree
<1>. QED
  BY <1>1, <1>2, <1>4

LEMMA ColdBegins ==
  ASSUME NEW channel, NEW doc
  PROVE  ColdAfter(channel, doc, 0) = [code |-> "ok", state |-> Fresh(channel)]
<1>1. PICK g : ColdEquation(g, channel, doc, 0) /\ ColdAfter(channel, doc, 0) = g[0]
  BY ColdUnfolds
<1>2. g[0] = ColdNode(channel, doc, g, 0)
  BY <1>1 DEF ColdEquation
<1>. QED
  BY <1>1, <1>2 DEF ColdNode

LEMMA ColdGoesOn ==
  ASSUME NEW channel, NEW doc, NEW n \in Nat
  PROVE  ColdAfter(channel, doc, n + 1)
           = ColdStep(channel, ColdAfter(channel, doc, n), doc[n + 1])
<1>1. PICK g : ColdEquation(g, channel, doc, n) /\ ColdAfter(channel, doc, n) = g[n]
  BY ColdUnfolds
<1>2. PICK h : ColdEquation(h, channel, doc, n + 1) /\ ColdAfter(channel, doc, n + 1) = h[n + 1]
  <2>1. n + 1 \in Nat
    OBVIOUS
  <2>. QED
    BY <2>1, ColdUnfolds
<1>3. g[n] = h[n]
  <2>1. ColdPair(g, doc, n, h, doc, n + 1, channel, n)
    BY <1>1, <1>2 DEF ColdPair
  <2>. QED
    BY <2>1, ColdsAgree
<1>4. h[n + 1] = ColdNode(channel, doc, h, n + 1)
  BY <1>2 DEF ColdEquation
<1>5. (n + 1) - 1 = n /\ n + 1 # 0
  OBVIOUS
<1>. QED
  BY <1>1, <1>2, <1>3, <1>4, <1>5 DEF ColdNode

\* An evaluation that an operation stopped stays stopped; one that runs has a
\* book when its channel does.
LEMMA ColdStops ==
  ASSUME NEW channel, NEW doc, NEW n \in Nat, NEW m \in Nat, n <= m,
         ColdAfter(channel, doc, n).code # "ok"
  PROVE  ColdAfter(channel, doc, m) = ColdAfter(channel, doc, n)
<1> DEFINE S == {k \in Nat : ColdAfter(channel, doc, n + k) = ColdAfter(channel, doc, n)}
<1>1. 0 \in S
  <2>1. n + 0 = n
    OBVIOUS
  <2>. QED
    BY <2>1
<1>2. ASSUME NEW k \in Nat, k \in S PROVE k + 1 \in S
  <2>1. n + (k + 1) = (n + k) + 1 /\ n + k \in Nat
    OBVIOUS
  <2>2. ColdAfter(channel, doc, (n + k) + 1)
          = ColdStep(channel, ColdAfter(channel, doc, n + k), doc[(n + k) + 1])
    BY <2>1, ColdGoesOn
  <2>3. ColdAfter(channel, doc, n + k) = ColdAfter(channel, doc, n)
    BY <1>2
  <2>4. ColdAfter(channel, doc, n + (k + 1)) = ColdAfter(channel, doc, n)
    BY <2>1, <2>2, <2>3 DEF ColdStep
  <2>. QED
    BY <2>4
<1>3. m - n \in Nat /\ n + (m - n) = m
  OBVIOUS
<1> HIDE DEF S
<1>4. m - n \in S
  BY <1>1, <1>2, <1>3, Counting
<1>. QED
  BY <1>3, <1>4 DEF S

LEMMA ColdBook ==
  ASSUME NEW channel, NEW doc, NEW n \in Nat
  PROVE  ColdAfter(channel, doc, n).state.book = (channel # "none")
<1> DEFINE S == {k \in Nat : ColdAfter(channel, doc, k).state.book = (channel # "none")}
<1>1. 0 \in S
  BY ColdBegins DEF Fresh
<1>2. ASSUME NEW k \in Nat, k \in S PROVE k + 1 \in S
  <2>1. ColdAfter(channel, doc, k + 1) = ColdStep(channel, ColdAfter(channel, doc, k), doc[k + 1])
    BY ColdGoesOn
  <2>2. ColdAfter(channel, doc, k).state.book = (channel # "none")
    BY <1>2
  <2>3. ASSUME NEW before, NEW op
        PROVE  ColdStep(channel, before, op).state.book = before.state.book
    BY DEF ColdStep, Extended
  <2>4. ColdAfter(channel, doc, k + 1).state.book = (channel # "none")
    BY <2>1, <2>2, <2>3
  <2>. QED
    BY <2>4
<1> HIDE DEF S
<1>3. n \in S
  BY <1>1, <1>2, Counting
<1>. QED
  BY <1>3 DEF S

\* The state of a cold evaluation is one of an evaluation.
LEMMA ColdTyped ==
  ASSUME NEW channel, NEW doc \in Documents, NEW n \in 0 .. Len(doc)
  PROVE  ColdAfter(channel, doc, n).state \in Snapshots
<1>0. Len(doc) \in Nat /\ \A i \in 1 .. Len(doc) : doc[i] \in Operation
  BY DocumentTyped
<1> DEFINE S == {k \in Nat : k <= Len(doc) => ColdAfter(channel, doc, k).state \in Snapshots}
<1>1. 0 \in S
  BY ColdBegins, FreshTyped
<1>2. ASSUME NEW k \in Nat, k \in S PROVE k + 1 \in S
  <2>. SUFFICES ASSUME k + 1 <= Len(doc) PROVE ColdAfter(channel, doc, k + 1).state \in Snapshots
    OBVIOUS
  <2>1. ColdAfter(channel, doc, k + 1) = ColdStep(channel, ColdAfter(channel, doc, k), doc[k + 1])
    BY ColdGoesOn
  <2>2. ColdAfter(channel, doc, k).state \in Snapshots /\ doc[k + 1] \in Operation
    BY <1>0, <1>2
  <2>3. ASSUME NEW before, NEW op \in Operation, before.state \in Snapshots
        PROVE  ColdStep(channel, before, op).state \in Snapshots
    BY <2>3, ExtendedTyped DEF ColdStep
  <2>. QED
    BY <2>1, <2>2, <2>3
<1> HIDE DEF S
<1>3. n \in Nat /\ n <= Len(doc)
  BY <1>0
<1>4. n \in S
  BY <1>1, <1>2, <1>3, Counting
<1>. QED
  BY <1>3, <1>4 DEF S

\* Without a registry nothing is recorded.
LEMMA ColdUnrecorded ==
  ASSUME NEW channel, channel # "registry", NEW doc, NEW n \in Nat
  PROVE  ColdAfter(channel, doc, n).state.recorded = {}
<1> DEFINE S == {k \in Nat : ColdAfter(channel, doc, k).state.recorded = {}}
<1>1. 0 \in S
  BY ColdBegins DEF Fresh
<1>2. ASSUME NEW k \in Nat, k \in S PROVE k + 1 \in S
  <2>1. ColdAfter(channel, doc, k + 1) = ColdStep(channel, ColdAfter(channel, doc, k), doc[k + 1])
    BY ColdGoesOn
  <2>2. ColdAfter(channel, doc, k).state.recorded = {}
    BY <1>2
  <2>3. ASSUME NEW before, NEW op, before.state.recorded = {}
        PROVE  ColdStep(channel, before, op).state.recorded = {}
    BY <2>3 DEF ColdStep, Extended, Records
  <2>4. ColdAfter(channel, doc, k + 1).state.recorded = {}
    BY <2>1, <2>2, <2>3
  <2>. QED
    BY <2>4
<1> HIDE DEF S
<1>3. n \in S
  BY <1>1, <1>2, Counting
<1>. QED
  BY <1>3 DEF S

(***************************************************************************)
(* How a state, of the evaluation under way or of a snapshot, stands to a  *)
(* cold evaluation of the same operations.  Without a registry it is that  *)
(* of the cold evaluation.  With one the cold evaluation may have stopped  *)
(* over bodies without records; else the two have the same bodies, and     *)
(* the cold one names all that the other does.                             *)
(***************************************************************************)
Under(st, cold) ==
  st.done = cold.done /\ st.book = cold.book /\ st.named \subseteq cold.named

Matches(channel, cold, st) ==
  IF channel = "registry"
  THEN \/ cold.code = "INTERNAL_ERROR"
       \/ cold.code = "ok" /\ Under(st, cold.state)
  ELSE cold = [code |-> "ok", state |-> st]

LEMMA SameMatches ==
  ASSUME NEW channel, NEW cold, NEW st, cold = [code |-> "ok", state |-> st]
  PROVE  Matches(channel, cold, st)
BY DEF Matches, Under

LEMMA MatchTaken ==
  ASSUME NEW channel, NEW cold, NEW st \in Snapshots, Matches(channel, cold, st),
         channel # "registry" => cold.state.recorded = {}
  PROVE  Matches(channel, cold, TakeSnapshot(st))
<1>1. TakeSnapshot(st) = [done |-> st.done, book |-> st.book, named |-> st.named, recorded |-> {}]
  BY TakenTyped
<1>2. CASE channel = "registry"
  BY <1>1, <1>2 DEF Matches, Under
<1>3. CASE channel # "registry"
  <2>1. cold = [code |-> "ok", state |-> st] /\ st.recorded = {}
    BY <1>3 DEF Matches
  <2>2. st = [done |-> st.done, book |-> st.book, named |-> st.named, recorded |-> st.recorded]
    BY SnapshotShape
  <2>3. TakeSnapshot(st) = st
    BY <1>1, <2>1, <2>2
  <2>. QED
    BY <2>3
<1>. QED
  BY <1>2, <1>3

\* A step of a tail, which has no registry: a cold evaluation takes it too, or
\* stops at it over bodies without records.
LEMMA MatchStep ==
  ASSUME NEW channel, NEW cold, NEW st, NEW op \in Operation, Matches(channel, cold, st),
         ~ op.suppressed, Refusal(st, op, FALSE) = "ok"
  PROVE  Matches(channel, ColdStep(channel, cold, op), Extended(st, op, FALSE))
<1>1. CASE channel # "registry"
  <2>1. cold = [code |-> "ok", state |-> st] /\ (channel = "registry") = FALSE
    BY <1>1 DEF Matches
  <2>2. ColdStep(channel, cold, op) = [code |-> "ok", state |-> Extended(st, op, FALSE)]
    BY <2>1 DEF ColdStep
  <2>. QED
    BY <2>2, SameMatches
<1>2. CASE channel = "registry" /\ cold.code = "INTERNAL_ERROR"
  BY <1>2 DEF Matches, ColdStep
<1>3. CASE channel = "registry" /\ cold.code = "ok" /\ Under(st, cold.state)
  <2> DEFINE refusal == Refusal(cold.state, op, TRUE)
  <2>1. refusal \in {"ok", "INTERNAL_ERROR"}
    BY <1>3 DEF Refusal, Under, Operation, Kinds, Slots
  <2>2. ColdStep(channel, cold, op)
          = IF refusal # "ok" THEN [code |-> refusal, state |-> cold.state]
            ELSE [code |-> "ok", state |-> Extended(cold.state, op, TRUE)]
    BY <1>3 DEF ColdStep
  <2> HIDE DEF refusal
  <2>3. CASE refusal = "INTERNAL_ERROR"
    <3>1. ColdStep(channel, cold, op).code = "INTERNAL_ERROR"
      BY <2>2, <2>3
    <3>. QED
      BY <1>3, <3>1 DEF Matches
  <2>4. CASE refusal = "ok"
    <3>1. Under(Extended(st, op, FALSE), Extended(cold.state, op, TRUE))
      BY <1>3 DEF Under, Extended, Names
    <3>2. ColdStep(channel, cold, op) = [code |-> "ok", state |-> Extended(cold.state, op, TRUE)]
      BY <2>2, <2>4
    <3>3. /\ ColdStep(channel, cold, op).code = "ok"
          /\ ColdStep(channel, cold, op).state = Extended(cold.state, op, TRUE)
      BY <3>2
    <3>. QED
      BY <1>3, <3>1, <3>3 DEF Matches
  <2>. QED
    BY <2>1, <2>3, <2>4
<1>. QED
  BY <1>1, <1>2, <1>3 DEF Matches

(***************************************************************************)
(* What the cache holds: for every request that nothing asked so far is    *)
(* tangled with, the snapshot under the hash of a prefix matches the cold  *)
(* evaluation there, and so does the state of the evaluation under way; if *)
(* that one began from nothing, it is the cold evaluation.                 *)
(***************************************************************************)
Requests == [doc : Documents, names : BOOLEAN]
Asked == Range(answers) \cup (IF Idle THEN {} ELSE {request})
ChannelOf(q) == Channel(q.doc, q.names)
ColdAt(q, n) == ColdAfter(ChannelOf(q), q.doc, n)
ColdTo(q, n, st) == Matches(ChannelOf(q), ColdAt(q, n), st)

EntriesCold ==
  \A q \in Requests : \A n \in 1 .. Len(q.doc) :
    CumulativeHash(q.doc, n) \in DOMAIN entries /\ UntangledTo(q, n, Asked)
      => ColdTo(q, n, entries[CumulativeHash(q.doc, n)].snapshot)
StateCold ==
  ~ Idle /\ UntangledTo(request, index, Asked) => ColdTo(request, index, state)
StateExact ==
  ~ Idle /\ ~ warm => ColdAt(request, index) = [code |-> "ok", state |-> state]

Answered ==
  /\ answers \in Seq(Range(answers)) /\ Range(answers) \subseteq Requests
  /\ WarmAgrees

Replays == Accounts /\ EntriesCold /\ StateCold /\ StateExact /\ Answered

\* What an answer may differ in from the cold one.
Excused(result, cold) ==
  /\ warm /\ RequiresRegistry(request.doc)
  /\ result.code \in TailRefusals \/ cold.code = "INTERNAL_ERROR"

LEMMA RequestTyped ==
  ASSUME NEW q \in Requests
  PROVE  q.doc \in Documents /\ Len(q.doc) \in Nat /\ q.doc \in Seq(Operation)
BY DocumentTyped DEF Requests

LEMMA UntangledLess ==
  ASSUME NEW q, NEW n \in Nat, NEW m \in Nat, m <= n, NEW R, NEW T, R \subseteq T,
         UntangledTo(q, n, T)
  PROVE  UntangledTo(q, m, R)
<1>1. 1 .. m \subseteq 1 .. n
  OBVIOUS
<1>. QED
  BY <1>1 DEF UntangledTo

\* One prefix under two requests that are not tangled is one prefix over one
\* channel, and evaluates alike.
LEMMA OnePrefix ==
  ASSUME NEW q \in Requests, NEW o \in Requests, NEW n \in 1 .. Len(q.doc), NEW m \in 1 .. Len(o.doc),
         NEW R, o \in R, UntangledTo(q, n, R),
         CumulativeHash(q.doc, n) = CumulativeHash(o.doc, m)
  PROVE  /\ n = m /\ ChannelOf(q) = ChannelOf(o) /\ UntangledTo(o, n, R)
         /\ \A i \in 1 .. n : q.doc[i] = o.doc[i]
<1>0. Len(q.doc) \in Nat /\ Len(o.doc) \in Nat /\ q.doc \in Seq(Operation) /\ o.doc \in Seq(Operation)
  BY RequestTyped
<1>1. n = m
  <2>1. DOMAIN CumulativeHash(q.doc, n) = 1 .. n /\ DOMAIN CumulativeHash(o.doc, m) = 1 .. m
    BY DEF CumulativeHash
  <2>2. 1 .. n = 1 .. m /\ n \in Nat /\ m \in Nat /\ n >= 1 /\ m >= 1
    BY <1>0, <2>1
  <2>3. n \in 1 .. m /\ m \in 1 .. n
    BY <2>2
  <2>. QED
    BY <2>2, <2>3
<1>2. \A i \in 1 .. n : SameContent(o.doc[i], q.doc[i])
  <2>1. \A i \in 1 .. n : StripExcluded(q.doc[i]) = StripExcluded(o.doc[i])
    BY <1>1 DEF CumulativeHash
  <2>. QED
    BY <2>1 DEF StripExcluded, SameContent
<1>3. /\ SubSeq(o.doc, 1, n) = SubSeq(q.doc, 1, n)
      /\ ChannelOf(o) = ChannelOf(q)
  <2>1. n \in 1 .. n /\ n <= Len(o.doc)
    BY <1>0, <1>1
  <2>. QED
    BY <1>2, <2>1 DEF UntangledTo, ChannelOf
<1>4. \A i \in 1 .. n : q.doc[i] = o.doc[i]
  <2>1. ASSUME NEW i \in 1 .. n PROVE q.doc[i] = o.doc[i]
    <3>1. SubSeq(q.doc, 1, n)[i] = q.doc[i] /\ SubSeq(o.doc, 1, n)[i] = o.doc[i]
      BY <1>0, <1>1
    <3>. QED
      BY <1>3, <3>1
  <2>. QED
    BY <2>1
<1>5. UntangledTo(o, n, R)
  <2>1. ASSUME NEW p \in R, NEW k \in 1 .. n, k <= Len(p.doc),
               \A i \in 1 .. k : SameContent(p.doc[i], o.doc[i])
        PROVE  SubSeq(p.doc, 1, k) = SubSeq(o.doc, 1, k) /\ ChannelOf(p) = ChannelOf(o)
    <3>1. 1 .. k \subseteq 1 .. n
      BY <1>0
    <3>2. \A i \in 1 .. k : SameContent(p.doc[i], q.doc[i])
      BY <1>4, <2>1, <3>1
    <3>3. SubSeq(p.doc, 1, k) = SubSeq(q.doc, 1, k) /\ ChannelOf(p) = ChannelOf(q)
      BY <2>1, <3>2 DEF UntangledTo, ChannelOf
    <3>4. SubSeq(o.doc, 1, k) = SubSeq(q.doc, 1, k)
      <4>1. k <= Len(q.doc) /\ k <= Len(o.doc) /\ k \in Nat
        BY <1>0, <1>1
      <4>2. /\ SubSeq(o.doc, 1, k) \in Seq(Operation) /\ SubSeq(q.doc, 1, k) \in Seq(Operation)
            /\ Len(SubSeq(o.doc, 1, k)) = k /\ Len(SubSeq(q.doc, 1, k)) = k
            /\ \A i \in 1 .. k : SubSeq(o.doc, 1, k)[i] = o.doc[i] /\ SubSeq(q.doc, 1, k)[i] = q.doc[i]
        BY <1>0, <4>1
      <4>3. \A i \in 1 .. k : SubSeq(o.doc, 1, k)[i] = SubSeq(q.doc, 1, k)[i]
        BY <1>4, <3>1, <4>2
      <4> DEFINE s == SubSeq(o.doc, 1, k)
                 t == SubSeq(q.doc, 1, k)
      <4>4. s \in Seq(Operation) /\ t \in Seq(Operation) /\ Len(s) = Len(t) /\ \A i \in 1 .. Len(s) : s[i] = t[i]
        BY <4>2, <4>3
      <4> HIDE DEF s, t
      <4>5. s = t
        BY <4>4, SeqEqual
      <4>. QED
        BY <4>5 DEF s, t
    <3>. QED
      BY <1>3, <3>3, <3>4
  <2>. QED
    BY <2>1 DEF UntangledTo, ChannelOf
<1>. QED
  BY <1>1, <1>3, <1>4, <1>5

LEMMA ReplaysInit == Init => Replays
<1>. SUFFICES ASSUME Init PROVE Replays
  OBVIOUS
<1>1. Accounts
  BY AccountsInit
<1>2. DOMAIN entries = {} /\ Idle /\ answers = << >> /\ last.result.code = "none"
  BY DEF Init, Idle, NoAnswer
<1>3. Range(answers) = {} /\ answers \in Seq(Range(answers))
  BY <1>2 DEF Range
<1>. QED
  BY <1>1, <1>2, <1>3 DEF Replays, EntriesCold, StateCold, StateExact, Answered, WarmAgrees

\* An answer adds its request to those asked before, where it already was.
LEMMA AnswerReplays ==
  ASSUME Replays, ~ Idle, NEW result, Respond(result),
         \/ result.code = "CANCELLED"
         \/ UntangledTo(request, Len(request.doc), Asked) =>
              \/ result = Cold(request.doc, request.names)
              \/ Excused(result, Cold(request.doc, request.names))
  PROVE  Replays'
<1>1. Accounts'
  BY AnswerKeeps DEF Replays
<1>2. request \in Requests
  BY DEF Replays, Accounts, Work, Idle, Requests
<1>3. /\ last' = [doc |-> request.doc, names |-> request.names, warm |-> warm, result |-> result]
      /\ answers' = Append(answers, request) /\ request' = NoRequest /\ UNCHANGED entries
  BY DEF Respond, cacheVars
<1>4. /\ Range(answers') = Range(answers) \cup {request}
      /\ answers' \in Seq(Range(answers'))
  <2>1. answers \in Seq(Range(answers))
    BY DEF Replays, Answered
  <2> DEFINE R == Range(answers) \cup {request}
  <2>2. /\ answers' \in Seq(R) /\ Len(answers') = Len(answers) + 1 /\ Len(answers) \in Nat
        /\ \A i \in 1 .. Len(answers) : answers'[i] = answers[i]
        /\ answers'[Len(answers) + 1] = request
        /\ DOMAIN answers = 1 .. Len(answers) /\ DOMAIN answers' = 1 .. Len(answers) + 1
    <3>1. answers \in Seq(R) /\ request \in R
      BY <2>1, SeqMonotonic
    <3> HIDE DEF R
    <3>. QED
      BY <1>3, <3>1
  <2> HIDE DEF R
  <2>3. Range(answers) \subseteq Range(answers')
    BY <2>2 DEF Range
  <2>4. request \in Range(answers')
    <3>1. Len(answers) + 1 \in DOMAIN answers'
      BY <2>2
    <3>. QED
      BY <2>2, <3>1 DEF Range
  <2>5. Range(answers') \subseteq R
    BY <2>2 DEF Range
  <2>6. Range(answers') = R
    BY <2>3, <2>4, <2>5 DEF R
  <2>. QED
    BY <2>2, <2>6 DEF R
<1>5. Idle' /\ Asked' = Asked /\ Asked = Range(answers')
  BY <1>3, <1>4 DEF Idle, Asked
<1>6. EntriesCold'
  BY <1>3, <1>5 DEF Replays, EntriesCold
<1>7. StateCold' /\ StateExact'
  BY <1>5 DEF StateCold, StateExact
<1>8. WarmAgrees'
  <2>1. Untangled' => UntangledTo(request, Len(request.doc), Asked)
    BY <1>3, <1>5 DEF Untangled, UntangledTo
  <2>. QED
    BY <1>3, <2>1 DEF WarmAgrees, Excused
<1>9. Range(answers') \subseteq Requests
  BY <1>2, <1>4 DEF Replays, Answered
<1>. QED
  BY <1>1, <1>4, <1>6, <1>7, <1>8, <1>9 DEF Replays, Answered

\* The document of a request does not change, and what was asked only grows,
\* while the rest of the answers stay.
LEMMA AnsweredStays ==
  ASSUME Answered, UNCHANGED <<answers, last>>
  PROVE  Answered'
BY DEF Answered, WarmAgrees, Untangled, UntangledTo, Range

LEMMA EvaluateReplays ==
  ASSUME Replays, Evaluate
  PROVE  Replays'
<1>1. Accounts'
  BY EvaluateKeeps DEF Replays
<1>2. PICK doc \in Documents, names \in BOOLEAN :
        LET prefix == LongestCached(doc)
            key == CumulativeHash(doc, prefix)
        IN /\ request' = [doc |-> doc, names |-> names]
           /\ index' = prefix /\ warm' = (prefix > 0)
           /\ state' = IF prefix = 0 THEN Fresh(Channel(doc, names))
                       ELSE RestoreFrom(entries[key].snapshot, Channel(doc, names))
  BY DEF Evaluate
<1> DEFINE prefix == LongestCached(doc)
           key == CumulativeHash(doc, prefix)
           q == [doc |-> doc, names |-> names]
           channel == Channel(doc, names)
<1>3. prefix = 0 \/ (prefix \in 1 .. Len(doc) /\ key \in DOMAIN entries)
  BY LongestIsCached
<1>4. /\ request' = q /\ index' = prefix /\ warm' = (prefix > 0)
      /\ state' = IF prefix = 0 THEN Fresh(channel) ELSE RestoreFrom(entries[key].snapshot, channel)
  BY <1>2
<1>5. /\ q \in Requests /\ ChannelOf(q) = channel /\ q.doc = doc /\ Len(doc) \in Nat
  BY DocumentTyped DEF Requests, ChannelOf
<1>6. UNCHANGED <<entries, answers, last>> /\ Idle
  BY DEF Evaluate
<1>7. Asked = Range(answers) /\ Asked \subseteq Asked'
  BY <1>6 DEF Asked, Range
<1> HIDE DEF prefix, q, channel
<1>8. EntriesCold'
  <2>1. ASSUME NEW r \in Requests, NEW n \in 1 .. Len(r.doc),
               CumulativeHash(r.doc, n) \in DOMAIN entries, UntangledTo(r, n, Asked')
        PROVE  ColdTo(r, n, entries[CumulativeHash(r.doc, n)].snapshot)
    <3>1. n \in Nat /\ n <= n
      BY RequestTyped
    <3>2. UntangledTo(r, n, Asked)
      BY <1>7, <2>1, <3>1, UntangledLess
    <3>. QED
      BY <2>1, <3>2 DEF Replays, EntriesCold
  <2>. QED
    BY <1>6, <2>1 DEF EntriesCold, ColdTo
<1>9. StateCold' /\ StateExact'
  <2>1. CASE prefix = 0
    <3>1. ColdAt(q, prefix) = [code |-> "ok", state |-> state']
      BY <1>4, <1>5, <2>1, ColdBegins DEF ColdAt
    <3>2. ColdTo(q, prefix, state')
      BY <3>1, SameMatches DEF ColdTo
    <3>. QED
      BY <1>4, <3>1, <3>2 DEF StateCold, StateExact, ColdTo, ColdAt
  <2>2. CASE prefix # 0
    <3>. SUFFICES ASSUME UntangledTo(q, prefix, Asked') PROVE ColdTo(q, prefix, state')
      <4>1. warm'
        <5>1. prefix > 0
          BY <1>3, <1>5, <2>2
        <5>2. warm' = (prefix > 0)
          BY <1>4
        <5> HIDE DEF prefix
        <5>. QED
          BY <5>1, <5>2, Zenon
      <4>. QED
        BY <1>4, <4>1 DEF StateCold, StateExact, ColdTo, ColdAt
    <3>1. prefix \in 1 .. Len(q.doc) /\ key \in DOMAIN entries /\ key = CumulativeHash(q.doc, prefix)
      BY <1>3, <1>5, <2>2
    <3>2. UntangledTo(q, prefix, Asked)
      <4>1. prefix \in Nat /\ prefix <= prefix
        BY <1>5, <3>1
      <4>. QED
        BY <1>7, <4>1, UntangledLess
    <3> DEFINE snapshot == entries[key].snapshot
    <3>3. ColdTo(q, prefix, snapshot)
      BY <1>5, <3>1, <3>2 DEF Replays, EntriesCold
    <3>4. snapshot \in Snapshots
      BY <3>1 DEF Replays, Accounts, Table
    <3> HIDE DEF key, snapshot
    <3>5. CASE ColdAt(q, prefix).code = "INTERNAL_ERROR" /\ channel = "registry"
      BY <1>5, <3>5 DEF ColdTo, Matches
    <3>6. CASE snapshot.book = ColdAt(q, prefix).state.book
      <4>1. ColdAt(q, prefix).state.book = (channel # "none")
        <5>1. prefix \in Nat
          BY <1>5, <3>1
        <5>. QED
          BY <1>5, <5>1, ColdBook DEF ColdAt
      <4>2. snapshot.book \in BOOLEAN /\ snapshot = [done |-> snapshot.done, book |-> snapshot.book,
                            named |-> snapshot.named, recorded |-> snapshot.recorded]
        BY <3>4, SnapshotShape
      <4>3. (snapshot.book \/ channel = "registry") = snapshot.book
        BY <3>6, <4>1, <4>2
      <4>4. RestoreFrom(snapshot, channel) = snapshot
        BY <4>2, <4>3 DEF RestoreFrom
      <4>. QED
        BY <1>4, <2>2, <3>3, <4>4 DEF snapshot
    <3>. QED
      BY <1>5, <3>3, <3>5, <3>6 DEF ColdTo, Matches, Under
  <2>. QED
    BY <2>1, <2>2
<1>10. Answered'
  BY <1>6, AnsweredStays DEF Replays
<1>. QED
  BY <1>1, <1>8, <1>9, <1>10 DEF Replays

LEMMA RegistryChannel ==
  ASSUME NEW q
  PROVE  (ChannelOf(q) = "registry") <=> RequiresRegistry(q.doc)
BY DEF ChannelOf, Channel

LEMMA ExecuteReplays ==
  ASSUME Replays, Execute
  PROVE  Replays'
<1>1. Accounts'
  BY ExecuteKeeps DEF Replays
<1> DEFINE n == index + 1
<1>2. /\ request \in Requests /\ n \in 1 .. Len(request.doc) /\ index \in Nat /\ Current \in Operation
      /\ ~ Idle
  BY RunningTyped DEF Replays, Accounts, Execute, Requests, Running
<1>3. /\ UNCHANGED <<request, answers, last, warm>> /\ index' = n
      /\ state' = IF Current.suppressed THEN state ELSE Extended(state, Current, TailRegistry)
      /\ IF reuse THEN Put(CumulativeHash(request.doc, n), TakeSnapshot(state')) ELSE UNCHANGED cacheVars
      /\ Current.suppressed \/ Refusal(state, Current, TailRegistry) = "ok"
  BY DEF Execute
<1>4. ~ Idle' /\ Asked' = Asked /\ request \in Asked
  BY <1>2, <1>3 DEF Idle, Asked, Range
<1>0. /\ ColdAt(request, n) = ColdStep(ChannelOf(request), ColdAt(request, index), Current)
      /\ (ChannelOf(request) = "registry") = RequiresRegistry(request.doc)
  <2>1. (ChannelOf(request) = "registry") = RequiresRegistry(request.doc)
    BY RegistryChannel, Zenon DEF RequiresRegistry
  <2>. QED
    BY <1>2, <2>1, ColdGoesOn DEF ColdAt, Current
<1>5. ASSUME ~ warm PROVE ColdAt(request, n) = [code |-> "ok", state |-> state']
  <2>1. ColdAt(request, index) = [code |-> "ok", state |-> state]
    BY <1>2, <1>5 DEF Replays, StateExact
  <2>2. TailRegistry = (ChannelOf(request) = "registry")
    BY <1>0, <1>5 DEF TailRegistry, RequiresRegistry
  <2>3. CASE Current.suppressed
    BY <1>0, <1>3, <2>1, <2>3 DEF ColdStep
  <2>4. CASE ~ Current.suppressed
    BY <1>0, <1>3, <2>1, <2>2, <2>4 DEF ColdStep
  <2>. QED
    BY <2>3, <2>4
<1>9. ASSUME UntangledTo(request, n, Asked) PROVE ColdTo(request, n, state')
  <2>1. CASE ~ warm
    BY <1>5, <2>1, SameMatches DEF ColdTo
  <2>2. CASE warm
    <3>1. UntangledTo(request, index, Asked)
      <4>1. index <= n /\ n \in Nat
        BY <1>2
      <4>. QED
        BY <1>2, <1>9, <4>1, UntangledLess
    <3>2. Matches(ChannelOf(request), ColdAt(request, index), state)
      BY <1>2, <3>1 DEF Replays, StateCold, ColdTo
    <3>3. CASE Current.suppressed
      <4>1. ColdAt(request, n) = ColdAt(request, index) /\ state' = state
        BY <1>0, <1>3, <3>3 DEF ColdStep
      <4>. QED
        BY <3>2, <4>1 DEF ColdTo
    <3>4. CASE ~ Current.suppressed
      <4>1. TailRegistry = FALSE
        BY <2>2 DEF TailRegistry
      <4>2. Refusal(state, Current, FALSE) = "ok" /\ state' = Extended(state, Current, FALSE)
        BY <1>3, <3>4, <4>1
      <4>. QED
        BY <1>0, <1>2, <3>2, <3>4, <4>2, MatchStep DEF ColdTo
    <3>. QED
      BY <3>3, <3>4
  <2>. QED
    BY <2>1, <2>2
<1>10. ASSUME UntangledTo(request, n, Asked) PROVE ColdTo(request, n, TakeSnapshot(state'))
  <2>1. state' \in Snapshots
    BY <1>1 DEF Accounts, Work
  <2>2. ChannelOf(request) # "registry" => ColdAt(request, n).state.recorded = {}
    <3>1. n \in Nat
      BY <1>2
    <3>. QED
      BY <3>1, ColdUnrecorded DEF ColdAt
  <2>. QED
    BY <1>9, <1>10, <2>1, <2>2, MatchTaken DEF ColdTo
<1> HIDE DEF n
<1>6. StateCold' /\ StateExact'
  BY <1>3, <1>4, <1>5, <1>9 DEF StateCold, StateExact, ColdTo, ColdAt
<1>7. EntriesCold'
  <2>1. CASE ~ reuse
    <3>1. UNCHANGED entries
      BY <1>3, <2>1 DEF cacheVars
    <3>. QED
      BY <1>4, <3>1 DEF Replays, EntriesCold, ColdTo, ColdAt
  <2>2. CASE reuse
    <3> DEFINE key == CumulativeHash(request.doc, n)
    <3>1. \A k \in DOMAIN entries' :
            \/ k = key /\ entries'[k].snapshot = TakeSnapshot(state')
            \/ k # key /\ k \in DOMAIN entries /\ entries'[k] = entries[k]
      <4> DEFINE snapshot == TakeSnapshot(state')
      <4>1. Put(key, snapshot) /\ Table /\ Books
        BY <1>3, <2>2 DEF Replays, Accounts
      <4>2. snapshot \in Snapshots
        BY <1>1, TakenTyped DEF Accounts, Work
      <4> HIDE DEF key, snapshot
      <4>3. \A k \in DOMAIN entries' :
              \/ k = key /\ entries'[k].snapshot = snapshot
              \/ k # key /\ k \in DOMAIN entries /\ entries'[k] = entries[k]
        BY <4>1, <4>2, PutKeeps
      <4>. QED
        BY <4>3 DEF snapshot
    <3>2. ASSUME NEW q \in Requests, NEW m \in 1 .. Len(q.doc),
                 CumulativeHash(q.doc, m) \in DOMAIN entries', UntangledTo(q, m, Asked)
          PROVE  ColdTo(q, m, entries'[CumulativeHash(q.doc, m)].snapshot)
      <4>1. CASE CumulativeHash(q.doc, m) = key
        <5>1. /\ m = n /\ ChannelOf(q) = ChannelOf(request) /\ UntangledTo(request, m, Asked)
              /\ \A i \in 1 .. m : q.doc[i] = request.doc[i]
          BY <1>2, <1>4, <3>2, <4>1, OnePrefix
        <5>2. ColdTo(request, m, TakeSnapshot(state'))
          BY <1>10, <5>1
        <5>3. ColdAfter(ChannelOf(request), q.doc, m) = ColdAfter(ChannelOf(request), request.doc, m)
          <6>1. m \in Nat
            BY <1>2, <5>1
          <6>. QED
            BY <5>1, <6>1, ColdSame
        <5>4. entries'[CumulativeHash(q.doc, m)].snapshot = TakeSnapshot(state')
          BY <3>1, <3>2, <4>1
        <5>. QED
          BY <5>1, <5>2, <5>3, <5>4 DEF ColdTo, ColdAt
      <4>2. CASE CumulativeHash(q.doc, m) # key
        BY <3>1, <3>2, <4>2 DEF Replays, EntriesCold
      <4>. QED
        BY <4>1, <4>2
    <3>. QED
      BY <1>4, <3>2 DEF EntriesCold, ColdTo, ColdAt
  <2>. QED
    BY <2>1, <2>2
<1>8. Answered'
  BY <1>3, AnsweredStays DEF Replays
<1>. QED
  BY <1>1, <1>6, <1>7, <1>8 DEF Replays

\* Every refusal but that of the geometry is one a tail may answer alone.
LEMMA RefusalKinds ==
  ASSUME NEW st, NEW op \in Operation, NEW registry, Refusal(st, op, registry) # "ok"
  PROVE  \/ Refusal(st, op, registry) \in TailRefusals
         \/ op.kind = "fails" /\ Refusal(st, op, registry) = "GEOMETRY_FAILED"
BY DEF Refusal, TailRefusals, Operation, Kinds, Slots

\* Where the cold evaluation stops is how it answers.
LEMMA ColdAnswer ==
  ASSUME NEW q \in Requests, NEW n \in 0 .. Len(q.doc), ColdAt(q, n).code # "ok"
  PROVE  Cold(q.doc, q.names) = Failure(ColdAt(q, n).code)
<1>1. Len(q.doc) \in Nat /\ n \in Nat /\ n <= Len(q.doc)
  BY RequestTyped
<1>2. ColdAt(q, Len(q.doc)) = ColdAt(q, n)
  BY <1>1, ColdStops DEF ColdAt
<1>. QED
  BY <1>2 DEF Cold, ColdAt, ChannelOf

LEMMA ThrowReplays ==
  ASSUME Replays, Throw
  PROVE  Replays'
<1> DEFINE n == index + 1
           refusal == Refusal(state, Current, TailRegistry)
           cold == Cold(request.doc, request.names)
<1>1. /\ request \in Requests /\ n \in 1 .. Len(request.doc) /\ index \in Nat /\ Current \in Operation
      /\ ~ Idle
  BY RunningTyped DEF Replays, Accounts, Throw, Requests, Running
<1>2. /\ ~ Current.suppressed /\ refusal # "ok" /\ Respond(Failure(refusal))
  BY DEF Throw
<1>3. /\ ColdAt(request, n) = ColdStep(ChannelOf(request), ColdAt(request, index), Current)
      /\ (ChannelOf(request) = "registry") = RequiresRegistry(request.doc)
  <2>1. (ChannelOf(request) = "registry") = RequiresRegistry(request.doc)
    BY RegistryChannel, Zenon DEF RequiresRegistry
  <2>. QED
    BY <1>1, <2>1, ColdGoesOn DEF ColdAt, Current
<1>4. /\ Len(request.doc) \in Nat /\ n \in 0 .. Len(request.doc)
      /\ index \in 0 .. Len(request.doc) /\ index <= Len(request.doc)
  BY <1>1, RequestTyped
<1>5. ASSUME ColdAt(request, index) = [code |-> "ok", state |-> state],
             TailRegistry = (ChannelOf(request) = "registry")
      PROVE  Failure(refusal) = cold
  <2>1. ColdAt(request, n).code = refusal
    BY <1>2, <1>3, <1>5 DEF ColdStep
  <2> HIDE DEF refusal, n
  <2>. QED
    BY <1>1, <1>2, <1>4, <2>1, ColdAnswer
<1>6. ASSUME warm, ChannelOf(request) = "registry",
             Matches(ChannelOf(request), ColdAt(request, index), state)
      PROVE  Failure(refusal) = cold \/ Excused(Failure(refusal), cold)
  <2>1. RequiresRegistry(request.doc)
    BY <1>3, <1>6
  <2>2. CASE refusal \in TailRefusals
    BY <1>6, <2>1, <2>2 DEF Excused, Failure
  <2>3. CASE ColdAt(request, index).code = "INTERNAL_ERROR"
    <3>1. cold.code = "INTERNAL_ERROR"
      <4>1. cold = Failure("INTERNAL_ERROR")
        BY <1>1, <1>4, <2>3, ColdAnswer
      <4>. QED
        BY <4>1 DEF Failure
    <3>. QED
      BY <1>6, <2>1, <3>1 DEF Excused
  <2>4. CASE Current.kind = "fails" /\ refusal = "GEOMETRY_FAILED" /\ ColdAt(request, index).code = "ok"
    <3>1. ColdAt(request, n).code = "GEOMETRY_FAILED"
      BY <1>2, <1>3, <2>4 DEF ColdStep, Refusal
    <3> HIDE DEF refusal, n
    <3>. QED
      BY <1>1, <1>4, <2>4, <3>1, ColdAnswer
  <2>. QED
    BY <1>1, <1>2, <1>6, <2>2, <2>3, <2>4, RefusalKinds DEF Matches
<1>7. ASSUME UntangledTo(request, Len(request.doc), Asked)
      PROVE  Failure(refusal) = cold \/ Excused(Failure(refusal), cold)
  <2>1. Matches(ChannelOf(request), ColdAt(request, index), state)
    <3>1. UntangledTo(request, index, Asked)
      BY <1>1, <1>4, <1>7, UntangledLess
    <3>. QED
      BY <1>1, <3>1 DEF Replays, StateCold, ColdTo
  <2>2. CASE ~ warm
    <3>1. ColdAt(request, index) = [code |-> "ok", state |-> state]
      BY <1>1, <2>2 DEF Replays, StateExact
    <3>2. TailRegistry = (ChannelOf(request) = "registry")
      BY <1>3, <2>2 DEF TailRegistry, RequiresRegistry
    <3> HIDE DEF refusal, cold
    <3>. QED
      BY <1>5, <3>1, <3>2
  <2>3. CASE warm /\ ChannelOf(request) # "registry"
    <3>1. ColdAt(request, index) = [code |-> "ok", state |-> state]
      BY <2>1, <2>3 DEF Matches
    <3>2. TailRegistry = (ChannelOf(request) = "registry")
      BY <2>3 DEF TailRegistry
    <3> HIDE DEF refusal, cold
    <3>. QED
      BY <1>5, <3>1, <3>2
  <2>. QED
    BY <1>6, <2>1, <2>2, <2>3
<1> HIDE DEF refusal, n
<1>. QED
  BY <1>1, <1>2, <1>7, AnswerReplays DEF cold

LEMMA ReturnReplays ==
  ASSUME Replays, Return
  PROVE  Replays'
<1> DEFINE n == Len(request.doc)
           cold == ColdAt(request, n)
           answer == Answer(state, request.names)
<1>1. request \in Requests /\ ~ Idle /\ index = n /\ Respond(answer)
  BY DEF Replays, Accounts, Work, Idle, Requests, Return
<1>2. ASSUME cold = [code |-> "ok", state |-> state]
      PROVE  answer = Cold(request.doc, request.names)
  BY <1>2 DEF Cold, ColdAt, ChannelOf
<1>3. ASSUME warm, ChannelOf(request) = "registry", Matches(ChannelOf(request), cold, state)
      PROVE  \/ answer = Cold(request.doc, request.names)
             \/ Excused(answer, Cold(request.doc, request.names))
  <2>1. RequiresRegistry(request.doc)
    BY <1>3, RegistryChannel
  <2>2. CASE cold.code = "INTERNAL_ERROR"
    <3>1. n \in 0 .. Len(request.doc)
      BY <1>1, RequestTyped
    <3>2. Cold(request.doc, request.names).code = "INTERNAL_ERROR"
      <4>1. Cold(request.doc, request.names) = Failure("INTERNAL_ERROR")
        BY <1>1, <2>2, <3>1, ColdAnswer
      <4>. QED
        BY <4>1 DEF Failure
    <3>. QED
      BY <1>3, <2>1, <3>2 DEF Excused
  <2>3. CASE cold.code = "ok" /\ Under(state, cold.state)
    <3>1. Cold(request.doc, request.names) = Answer(cold.state, request.names)
      BY <2>3 DEF Cold, ColdAt, ChannelOf
    <3>2. cold.state.named \subseteq DOMAIN cold.state.done
      <4>1. request.doc \in Documents /\ n \in 0 .. Len(request.doc)
        BY <1>1, RequestTyped
      <4>2. cold.state \in Snapshots
        BY <4>1, ColdTyped DEF ColdAt
      <4> HIDE DEF cold
      <4>. QED
        BY <4>2, SnapshotShape
    <3> HIDE DEF cold
    <3>3. CASE request.names /\ state.book /\ state.named # DOMAIN state.done
      <4>1. answer.code = "INTERNAL_ERROR"
        BY <3>3 DEF Answer
      <4>. QED
        BY <1>3, <2>1, <4>1 DEF Excused, TailRefusals
    <3>4. CASE ~ (request.names /\ state.book /\ state.named # DOMAIN state.done)
      <4>1. Answer(cold.state, request.names) = answer
        BY <2>3, <3>2, <3>4 DEF Answer, Under
      <4>. QED
        BY <3>1, <4>1
    <3>. QED
      BY <3>3, <3>4
  <2>. QED
    BY <1>3, <2>2, <2>3 DEF Matches
<1>4. ASSUME UntangledTo(request, Len(request.doc), Asked)
      PROVE  \/ answer = Cold(request.doc, request.names)
             \/ Excused(answer, Cold(request.doc, request.names))
  <2>1. Matches(ChannelOf(request), cold, state)
    BY <1>1, <1>4 DEF Replays, StateCold, ColdTo
  <2>2. CASE ~ warm
    BY <1>1, <1>2, <2>2 DEF Replays, StateExact
  <2>3. CASE warm /\ ChannelOf(request) # "registry"
    BY <1>2, <2>1, <2>3 DEF Matches
  <2> HIDE DEF cold, answer
  <2>. QED
    BY <1>3, <2>1, <2>2, <2>3
<1>. QED
  BY <1>1, <1>4, AnswerReplays

LEMMA ReplaysNext == Replays /\ [Next]_vars => Replays'
<1>. SUFFICES ASSUME Replays, [Next]_vars PROVE Replays'
  OBVIOUS
<1>1. CASE Evaluate
  BY <1>1, EvaluateReplays
<1>2. CASE Execute
  BY <1>2, ExecuteReplays
<1>3. CASE Throw
  BY <1>3, ThrowReplays
<1>4. CASE Cancel
  <2>1. ~ Idle /\ Respond(Failure("CANCELLED")) /\ Failure("CANCELLED").code = "CANCELLED"
    BY <1>4 DEF Cancel, Running, Failure
  <2>. QED
    BY <2>1, AnswerReplays
<1>5. CASE Return
  BY <1>5, ReturnReplays
<1>6. CASE UNCHANGED vars
  <2>1. UNCHANGED <<entries, request, state, index, warm, answers, last>>
    BY <1>6 DEF vars, cacheVars
  <2>2. Accounts'
    BY <1>6, AccountsNext DEF Replays
  <2>3. Answered'
    BY <2>1, AnsweredStays DEF Replays
  <2>4. Asked' = Asked /\ (Idle' <=> Idle)
    BY <2>1 DEF Asked, Idle, Range
  <2>5. EntriesCold' /\ StateCold' /\ StateExact'
    BY <2>1, <2>4 DEF Replays, EntriesCold, StateCold, StateExact, ColdTo, ColdAt
  <2>. QED
    BY <2>2, <2>3, <2>5 DEF Replays
<1>. QED
  BY <1>1, <1>2, <1>3, <1>4, <1>5, <1>6 DEF Next

\* An evaluation resumed from the cache answers as a cold one when no request
\* before it is tangled with it; if it carries a slot, its tail has no registry
\* and may refuse what a cold one does, or do what a cold one cannot harvest.
THEOREM WarmAgreesWithCold == Spec => []WarmAgrees
<1>1. Replays => WarmAgrees
  BY DEF Replays, Answered
<1>. QED
  BY <1>1, ReplaysInit, ReplaysNext, PTL DEF Spec
================================================================================
