------------------------- MODULE NamedDocumentProofs -------------------------
(***************************************************************************)
(* For every set of documents, every template, every slot and query, every *)
(* alias cap and every length: the registry's index is sound, a live token *)
(* means the entity it was minted for, its record has that entity's name,  *)
(* and an anchor whose entity lives is recovered to it or not at all.      *)
(*                                                                         *)
(* The four follow from one invariant, Sound.  Of a registry it says that  *)
(* answering chains and live records point at one another, under the name  *)
(* of the sub-shape and on its own lineage (Registry); of the document,    *)
(* that bodies and datums share no sub-shape and that whoever must answer  *)
(* does (Apart, Indexed); and of the work between its two halves, that the *)
(* history the kernel reports fits the result (Prepared, Fits).  The       *)
(* lemmas go up the layers of the model: sequences, the recursive          *)
(* functions, the naming pass, the mints, the harvests, the operations.    *)
(***************************************************************************)
EXTENDS NamedDocument, FiniteSetTheorems, SequenceTheorems, WellFoundedInduction, TLAPS

(***************************************************************************)
(* Numbers.                                                                *)
(***************************************************************************)
\* Every set of naturals that is not empty has a least one.
LEMMA LeastNumber ==
  ASSUME NEW T, T \subseteq Nat, T # {}
  PROVE  \E m \in T : \A k \in T : m <= k
<1> DEFINE R == OpToRel(<, Nat)
<1>1. PICK m \in T : \A k \in T : ~ (<<k, m>> \in R)
  <2>1. IsWellFoundedOn(R, Nat)
    BY NatLessThanWellFounded
  <2> HIDE DEF R
  <2>. QED
    BY <2>1, WFMin
<1>2. \A k, n \in Nat : <<k, n>> \in R <=> k < n
  BY DEF OpToRel
<1> HIDE DEF R
<1>3. \A k \in T : ~ (k < m)
  BY <1>1, <1>2
<1>. QED
  BY <1>3

\* Induction over the naturals, for a set.
LEMMA Counting ==
  ASSUME NEW S, 0 \in S, \A n \in Nat : n \in S => n + 1 \in S
  PROVE  Nat \subseteq S
<1>. SUFFICES ASSUME Nat \ S # {} PROVE FALSE
  OBVIOUS
<1>1. PICK m \in Nat \ S : \A k \in Nat \ S : m <= k
  BY LeastNumber
<1>2. m # 0 /\ m - 1 \in Nat
  BY <1>1
<1>3. m - 1 \in S
  BY <1>1, <1>2
<1>. QED
  BY <1>1, <1>2, <1>3

(***************************************************************************)
(* Sequences of anything.                                                  *)
(***************************************************************************)
IsSeq(s) == Len(s) \in Nat /\ s = [i \in 1 .. Len(s) |-> s[i]]

\* A sequence over a set is one, of elements of that set.
LEMMA SeqIsSeq ==
  ASSUME NEW S, NEW s \in Seq(S)
  PROVE  IsSeq(s) /\ DOMAIN s = 1 .. Len(s) /\ ToSet(s) \subseteq S
  BY DEF IsSeq, ToSet

\* A sequence is over the set of what is in it.
LEMMA IsSeqIn ==
  ASSUME NEW s, IsSeq(s)
  PROVE  /\ s \in Seq(ToSet(s)) /\ DOMAIN s = 1 .. Len(s) /\ Len(s) \in Nat
         /\ \A i \in 1 .. Len(s) : s[i] \in ToSet(s)
         /\ \A x \in ToSet(s) : \E i \in 1 .. Len(s) : s[i] = x
<1>1. Len(s) \in Nat /\ s = [i \in 1 .. Len(s) |-> s[i]]
  BY DEF IsSeq
<1>2. DOMAIN s = 1 .. Len(s)
  <2> DEFINE n == Len(s)
  <2>1. s = [i \in 1 .. n |-> s[i]]
    BY <1>1
  <2> HIDE DEF n
  <2>2. DOMAIN s = 1 .. n
    BY <2>1
  <2>. QED
    BY <2>2 DEF n
<1>3. ToSet(s) = {s[i] : i \in 1 .. Len(s)}
  BY <1>2 DEF ToSet
<1>4. s \in [1 .. Len(s) -> ToSet(s)]
  <2> DEFINE n == Len(s)
  <2>1. s = [i \in 1 .. n |-> s[i]] /\ \A i \in 1 .. n : s[i] \in ToSet(s)
    BY <1>1, <1>3
  <2> HIDE DEF n
  <2>2. s \in [1 .. n -> ToSet(s)]
    BY <2>1
  <2>. QED
    BY <2>2 DEF n
<1>5. s \in Seq(ToSet(s))
  BY <1>1, <1>4, IsASeq
<1>. QED
  BY <1>1, <1>2, <1>3, <1>5

\* A function on an initial segment is a sequence.
LEMMA FunctionIsSeq ==
  ASSUME NEW f, NEW n \in Nat, f = [i \in 1 .. n |-> f[i]]
  PROVE  IsSeq(f) /\ Len(f) = n
<1> DEFINE S == {f[i] : i \in 1 .. n}
<1>1. f \in [1 .. n -> S]
  OBVIOUS
<1> HIDE DEF S
<1>2. f \in Seq(S)
  BY <1>1, IsASeq
<1>3. DOMAIN f = 1 .. n
  BY <1>1
<1>4. Len(f) \in Nat /\ DOMAIN f = 1 .. Len(f)
  BY <1>2
<1>5. Len(f) = n
  BY <1>3, <1>4, LenProperties, <1>2
<1>. QED
  BY <1>2, <1>5, SeqIsSeq

\* The empty sequence.
LEMMA EmptyIsSeq ==
  IsSeq(<< >>) /\ Len(<< >>) = 0 /\ ToSet(<< >>) = {} /\ DOMAIN << >> = {}
  BY DEF IsSeq, ToSet

\* A sequence of one.
LEMMA SingleIsSeq ==
  ASSUME NEW x
  PROVE  IsSeq(<<x>>) /\ Len(<<x>>) = 1 /\ <<x>>[1] = x /\ DOMAIN <<x>> = 1 .. 1 /\ ToSet(<<x>>) = {x}
<1>1. <<x>> \in Seq({x}) /\ Len(<<x>>) = 1 /\ <<x>>[1] = x
  OBVIOUS
<1>2. IsSeq(<<x>>) /\ DOMAIN <<x>> = 1 .. 1
  BY <1>1, SeqIsSeq
<1>3. ToSet(<<x>>) = {x}
  BY <1>1, <1>2 DEF ToSet
<1>. QED
  BY <1>1, <1>2, <1>3

\* Two sequences put together.
LEMMA PutTogether ==
  ASSUME NEW s, NEW t, IsSeq(s), IsSeq(t)
  PROVE  /\ IsSeq(s \o t) /\ Len(s \o t) = Len(s) + Len(t)
         /\ DOMAIN (s \o t) = 1 .. Len(s) + Len(t)
         /\ \A i \in 1 .. Len(s) : (s \o t)[i] = s[i]
         /\ \A i \in 1 .. Len(t) : (s \o t)[Len(s) + i] = t[i]
         /\ ToSet(s \o t) = ToSet(s) \cup ToSet(t)
<1> DEFINE S == ToSet(s) \cup ToSet(t)
           u == s \o t
<1>1. s \in Seq(ToSet(s)) /\ t \in Seq(ToSet(t)) /\ Len(s) \in Nat /\ Len(t) \in Nat
      /\ DOMAIN s = 1 .. Len(s) /\ DOMAIN t = 1 .. Len(t)
  BY IsSeqIn
<1>2. s \in Seq(S) /\ t \in Seq(S)
  BY <1>1, SeqMonotonic
<1>3. /\ u \in Seq(S) /\ Len(u) = Len(s) + Len(t)
      /\ \A i \in 1 .. Len(s) + Len(t) : u[i] = IF i <= Len(s) THEN s[i] ELSE t[i - Len(s)]
  <2> HIDE DEF S
  <2>. QED
    BY <1>2, ConcatProperties
<1>4. IsSeq(u) /\ DOMAIN u = 1 .. Len(u) /\ ToSet(u) \subseteq S
  <2> HIDE DEF S, u
  <2>. QED
    BY <1>3, SeqIsSeq
<1>5. \A i \in 1 .. Len(s) : u[i] = s[i] /\ i \in 1 .. Len(s) + Len(t)
  BY <1>1, <1>3
<1>6. \A i \in 1 .. Len(t) : u[Len(s) + i] = t[i] /\ Len(s) + i \in 1 .. Len(s) + Len(t)
  <2> SUFFICES ASSUME NEW i \in 1 .. Len(t)
               PROVE  u[Len(s) + i] = t[i] /\ Len(s) + i \in 1 .. Len(s) + Len(t)
    OBVIOUS
  <2>1. Len(s) + i \in 1 .. Len(s) + Len(t) /\ ~ (Len(s) + i <= Len(s)) /\ (Len(s) + i) - Len(s) = i
    BY <1>1
  <2> HIDE DEF u
  <2>. QED
    BY <1>3, <2>1
<1> HIDE DEF u
<1>7. ASSUME NEW x \in S PROVE x \in ToSet(u)
  <2>1. \A i \in 1 .. Len(s) + Len(t) : u[i] \in ToSet(u)
    BY <1>3, <1>4, IsSeqIn
  <2>2. CASE x \in ToSet(s)
    <3>1. PICK i \in 1 .. Len(s) : s[i] = x
      BY <2>2, IsSeqIn
    <3>. QED
      BY <1>5, <2>1, <3>1
  <2>3. CASE x \in ToSet(t)
    <3>1. PICK i \in 1 .. Len(t) : t[i] = x
      BY <2>3, IsSeqIn
    <3>. QED
      BY <1>6, <2>1, <3>1
  <2>. QED
    BY <2>2, <2>3
<1>8. ToSet(u) = S
  BY <1>4, <1>7
<1>. QED
  BY <1>3, <1>4, <1>5, <1>6, <1>8 DEF u

\* A sequence with one more at the end.
LEMMA OneMore ==
  ASSUME NEW s, NEW x, IsSeq(s)
  PROVE  /\ IsSeq(Append(s, x)) /\ Len(Append(s, x)) = Len(s) + 1
         /\ DOMAIN Append(s, x) = 1 .. Len(s) + 1
         /\ \A i \in 1 .. Len(s) : Append(s, x)[i] = s[i]
         /\ Append(s, x)[Len(s) + 1] = x
         /\ ToSet(Append(s, x)) = ToSet(s) \cup {x}
<1> DEFINE S == ToSet(s) \cup {x}
           u == Append(s, x)
<1>1. s \in Seq(ToSet(s)) /\ Len(s) \in Nat /\ DOMAIN s = 1 .. Len(s)
  BY IsSeqIn
<1>2. s \in Seq(S) /\ x \in S
  BY <1>1, SeqMonotonic
<1>3. /\ u \in Seq(S) /\ Len(u) = Len(s) + 1 /\ u[Len(s) + 1] = x
      /\ \A i \in 1 .. Len(s) : u[i] = s[i]
  <2> HIDE DEF S
  <2>. QED
    BY <1>2, AppendProperties
<1>4. IsSeq(u) /\ DOMAIN u = 1 .. Len(u) /\ ToSet(u) \subseteq S
  <2> HIDE DEF S, u
  <2>. QED
    BY <1>3, SeqIsSeq
<1> HIDE DEF u
<1>7. S \subseteq ToSet(u)
  BY <1>1, <1>3, <1>4 DEF ToSet
<1>8. ToSet(u) = S
  BY <1>4, <1>7
<1>. QED
  BY <1>1, <1>3, <1>4, <1>8 DEF u

\* The set of what is in a sequence is finite.
LEMMA ToSetFinite ==
  ASSUME NEW s, IsSeq(s)
  PROVE  IsFiniteSet(ToSet(s))
<1>1. s \in Seq(ToSet(s)) /\ Len(s) \in Nat
      /\ \A x \in ToSet(s) : \E i \in 1 .. Len(s) : s[i] = x
  BY IsSeqIn
<1>2. IsFiniteSet(1 .. Len(s))
  BY <1>1, FS_Interval
<1>3. s \in Surjection(1 .. Len(s), ToSet(s))
  BY <1>1 DEF Surjection
<1>. QED
  BY <1>2, <1>3, FS_Surjection

(***************************************************************************)
(* Recursive functions over the naturals: one that satisfies the equation  *)
(* exists for every length, so the one chosen satisfies it.                *)
(***************************************************************************)
DroppingStep(s, set, g, n) ==
  IF n = 0 THEN << >> ELSE IF s[n] \in set THEN g[n - 1] ELSE Append(g[n - 1], s[n])
DroppingEquation(g, s, set, N) == g = [n \in 0 .. N |-> DroppingStep(s, set, g, n)]

\* The equation of Dropping has a solution.
LEMMA DroppingExists ==
  ASSUME NEW s, NEW set, NEW N \in Nat
  PROVE  \E g : DroppingEquation(g, s, set, N)
<1> DEFINE S == {n \in Nat : \E g : DroppingEquation(g, s, set, n)}
<1>1. 0 \in S
  <2>1. DroppingEquation([n \in 0 .. 0 |-> << >>], s, set, 0)
    BY DEF DroppingEquation, DroppingStep
  <2>. QED
    BY <2>1
<1>2. ASSUME NEW n \in Nat, n \in S PROVE n + 1 \in S
  <2>1. PICK g : DroppingEquation(g, s, set, n)
    BY <1>2
  <2> DEFINE next == IF s[n + 1] \in set THEN g[n] ELSE Append(g[n], s[n + 1])
             h == [k \in 0 .. n + 1 |-> IF k = n + 1 THEN next ELSE g[k]]
  <2>2. \A k \in 0 .. n : g[k] = DroppingStep(s, set, g, k)
    BY <2>1 DEF DroppingEquation
  <2>3. \A k \in 0 .. n + 1 : h[k] = DroppingStep(s, set, h, k)
    BY <2>2 DEF DroppingStep
  <2>4. h = [k \in 0 .. n + 1 |-> h[k]]
    OBVIOUS
  <2> HIDE DEF h
  <2>5. DroppingEquation(h, s, set, n + 1)
    BY <2>3, <2>4 DEF DroppingEquation
  <2>. QED
    BY <2>5
<1> HIDE DEF S
<1>3. N \in S
  BY <1>1, <1>2, Counting
<1>. QED
  BY <1>3 DEF S

\* Dropping can be computed step by step.
LEMMA DroppingUnfolds ==
  ASSUME NEW s, NEW set, Len(s) \in Nat
  PROVE  \E g : /\ \A n \in 0 .. Len(s) : g[n] = DroppingStep(s, set, g, n)
                /\ Dropping(s, set) = g[Len(s)]
<1> DEFINE kept == CHOOSE g : DroppingEquation(g, s, set, Len(s))
<1>1. DroppingEquation(kept, s, set, Len(s))
  <2>1. \E g : DroppingEquation(g, s, set, Len(s))
    BY DroppingExists
  <2>. QED
    BY <2>1, Zenon
<1>2. Dropping(s, set) = kept[Len(s)]
  BY Zenon DEF Dropping, DroppingEquation, DroppingStep
<1> HIDE DEF kept
<1>. QED
  BY <1>1, <1>2 DEF DroppingEquation

\* What is left is a sequence of the elements outside the set.
LEMMA WhatIsLeft ==
  ASSUME NEW s, NEW set, IsSeq(s)
  PROVE  IsSeq(Dropping(s, set)) /\ ToSet(Dropping(s, set)) = ToSet(s) \ set
<1> DEFINE N == Len(s)
<1>1. N \in Nat /\ DOMAIN s = 1 .. N
  BY IsSeqIn
<1>2. PICK g : /\ \A n \in 0 .. N : g[n] = DroppingStep(s, set, g, n)
               /\ Dropping(s, set) = g[N]
  BY <1>1, DroppingUnfolds
<1> DEFINE Begun(n) == {s[i] : i \in 1 .. n}
           S == {n \in Nat : n <= N => IsSeq(g[n]) /\ ToSet(g[n]) = Begun(n) \ set}
<1>3. 0 \in S
  <2>1. g[0] = << >>
    BY <1>1, <1>2 DEF DroppingStep
  <2>. QED
    BY <2>1, EmptyIsSeq
<1>4. ASSUME NEW n \in Nat, n \in S PROVE n + 1 \in S
  <2> SUFFICES ASSUME n + 1 <= N
               PROVE  IsSeq(g[n + 1]) /\ ToSet(g[n + 1]) = Begun(n + 1) \ set
    OBVIOUS
  <2>1. IsSeq(g[n]) /\ ToSet(g[n]) = Begun(n) \ set
    BY <1>1, <1>4
  <2>2. g[n + 1] = IF s[n + 1] \in set THEN g[n] ELSE Append(g[n], s[n + 1])
    <3>1. n + 1 \in 0 .. N /\ n + 1 # 0 /\ (n + 1) - 1 = n
      BY <1>1
    <3>. QED
      BY <1>2, <3>1 DEF DroppingStep
  <2>3. Begun(n + 1) = Begun(n) \cup {s[n + 1]}
    OBVIOUS
  <2> HIDE DEF Begun
  <2>. QED
    BY <2>1, <2>2, <2>3, OneMore
<1> HIDE DEF S
<1>5. N \in S
  BY <1>1, <1>3, <1>4, Counting
<1>6. IsSeq(g[N]) /\ ToSet(g[N]) = Begun(N) \ set
  BY <1>1, <1>5 DEF S
<1>7. Begun(N) = ToSet(s)
  BY <1>1 DEF ToSet
<1>. QED
  BY <1>2, <1>6, <1>7

\* Two sequences that agree up to a place, and two sets that agree on what is
\* there, leave the same up to that place.
AlikeUpTo(s, set, g, t, other, h, m) ==
  /\ \A n \in 0 .. m : g[n] = DroppingStep(s, set, g, n)
  /\ \A n \in 0 .. m : h[n] = DroppingStep(t, other, h, n)
  /\ \A n \in 1 .. m : s[n] = t[n] /\ (s[n] \in set <=> t[n] \in other)

\* Where they agree, the two dropping functions agree.
LEMMA SameLeft ==
  ASSUME NEW s, NEW t, NEW set, NEW other, NEW g, NEW h, NEW m \in Nat,
         AlikeUpTo(s, set, g, t, other, h, m)
  PROVE  g[m] = h[m]
<1> USE DEF AlikeUpTo
<1> DEFINE S == {n \in Nat : n <= m => g[n] = h[n]}
<1>1. 0 \in S
  BY DEF DroppingStep
<1>2. ASSUME NEW n \in Nat, n \in S PROVE n + 1 \in S
  <2> SUFFICES ASSUME n + 1 <= m PROVE g[n + 1] = h[n + 1]
    OBVIOUS
  <2>1. g[n] = h[n]
    BY <1>2
  <2>2. n + 1 \in 0 .. m /\ n + 1 \in 1 .. m /\ n + 1 # 0 /\ (n + 1) - 1 = n
    OBVIOUS
  <2>. QED
    BY <2>1, <2>2 DEF DroppingStep
<1> HIDE DEF S
<1>3. m \in S
  BY <1>1, <1>2, Counting
<1>. QED
  BY <1>3 DEF S

\* A plain modification is erased from the end of a name.
LEMMA PlainIsErased ==
  ASSUME NEW name, NEW segment, IsSeq(name), Plain(segment)
  PROVE  NormalizeName(Append(name, segment)) = NormalizeName(name)
<1> DEFINE N == Len(name)
           longer == Append(name, segment)
           set == {s \in ToSet(name) : Plain(s)}
           other == {s \in ToSet(longer) : Plain(s)}
<1>1. /\ N \in Nat /\ Len(longer) = N + 1 /\ longer[N + 1] = segment
      /\ \A i \in 1 .. N : longer[i] = name[i] /\ name[i] \in ToSet(name)
      /\ ToSet(longer) = ToSet(name) \cup {segment}
  BY IsSeqIn, OneMore
<1> HIDE DEF longer
<1>2. PICK g : /\ \A n \in 0 .. N : g[n] = DroppingStep(name, set, g, n)
               /\ Dropping(name, set) = g[N]
  BY <1>1, DroppingUnfolds
<1>3. PICK h : /\ \A n \in 0 .. N + 1 : h[n] = DroppingStep(longer, other, h, n)
               /\ Dropping(longer, other) = h[N + 1]
  <2>1. Len(longer) \in Nat
    BY <1>1
  <2> HIDE DEF other
  <2>. QED
    BY <1>1, <2>1, DroppingUnfolds
<1>4. \A n \in 1 .. N : name[n] = longer[n] /\ (name[n] \in set <=> longer[n] \in other)
  BY <1>1
<1>5. segment \in other
  BY <1>1
<1>6. \A n \in 0 .. N : h[n] = DroppingStep(longer, other, h, n)
  BY <1>1, <1>3
<1> HIDE DEF set, other, N
<1>7. g[N] = h[N]
  <2>1. AlikeUpTo(name, set, g, longer, other, h, N)
    BY <1>2, <1>4, <1>6 DEF AlikeUpTo
  <2>. QED
    BY <1>1, <2>1, SameLeft
<1>8. h[N + 1] = h[N]
  BY <1>1, <1>3, <1>5 DEF DroppingStep
<1>. QED
  BY <1>2, <1>3, <1>7, <1>8 DEF NormalizeName, set, other, longer

(***************************************************************************)
(* A finite set laid out.                                                  *)
(***************************************************************************)
OrderStep(g, part) ==
  IF part = {} THEN << >>
  ELSE LET x == CHOOSE x \in part : TRUE IN Append(g[part \ {x}], x)
OrderEquation(g, set) == g = [part \in SUBSET set |-> OrderStep(g, part)]

\* The equation of InSomeOrder has a solution.
LEMMA OrderExists ==
  ASSUME NEW set, IsFiniteSet(set)
  PROVE  \E g : OrderEquation(g, set)
<1> DEFINE Upto(n) == {part \in SUBSET set : Cardinality(part) <= n}
           S == {n \in Nat : \E g : g = [part \in Upto(n) |-> OrderStep(g, part)]}
<1>0. \A part \in SUBSET set : IsFiniteSet(part) /\ Cardinality(part) \in Nat
  BY FS_Subset, FS_CardinalityType
<1>1. 0 \in S
  <2>1. Upto(0) = {{}}
    <3>1. \A part \in SUBSET set : Cardinality(part) <= 0 <=> part = {}
      BY <1>0, FS_EmptySet
    <3>. QED
      BY <3>1
  <2> DEFINE g == [part \in Upto(0) |-> << >>]
  <2>2. g = [part \in Upto(0) |-> OrderStep(g, part)]
    BY <2>1 DEF OrderStep
  <2>. QED
    BY <2>2
<1>2. ASSUME NEW n \in Nat, n \in S PROVE n + 1 \in S
  <2>1. PICK g : g = [part \in Upto(n) |-> OrderStep(g, part)]
    BY <1>2
  <2> DEFINE h == [part \in Upto(n + 1) |-> OrderStep(g, part)]
  <2>2. ASSUME NEW part \in Upto(n + 1), part # {}, NEW x \in part
        PROVE  part \ {x} \in Upto(n) /\ part \ {x} \in Upto(n + 1)
    <3>1. Cardinality(part \ {x}) = Cardinality(part) - 1
      BY <1>0, <2>2, FS_RemoveElement
    <3>2. part \ {x} \in SUBSET set /\ Cardinality(part) \in Nat /\ Cardinality(part) <= n + 1
      BY <1>0, <2>2
    <3>. QED
      BY <3>1, <3>2
  <2>3. ASSUME NEW part \in Upto(n) PROVE h[part] = g[part]
    <3>1. part \in Upto(n + 1)
      BY <1>0
    <3> HIDE DEF Upto
    <3>2. h[part] = OrderStep(g, part)
      BY <3>1
    <3>3. g[part] = OrderStep(g, part)
      BY <2>1
    <3>. QED
      BY <3>2, <3>3
  <2>4. ASSUME NEW part \in Upto(n + 1) PROVE h[part] = OrderStep(h, part)
    <3>1. CASE part = {}
      BY <3>1 DEF OrderStep
    <3>2. CASE part # {}
      <4> DEFINE x == CHOOSE x \in part : TRUE
      <4>1. x \in part
        BY <3>2
      <4> HIDE DEF x
      <4>2. part \ {x} \in Upto(n)
        BY <2>2, <3>2, <4>1
      <4>3. h[part \ {x}] = g[part \ {x}]
        BY <2>3, <4>2
      <4>4. h[part] = OrderStep(g, part)
        BY DEF h
      <4>. QED
        BY <3>2, <4>3, <4>4 DEF OrderStep, x
    <3>. QED
      BY <3>1, <3>2
  <2>5. h = [part \in Upto(n + 1) |-> h[part]]
    OBVIOUS
  <2> HIDE DEF h, Upto
  <2>6. h = [part \in Upto(n + 1) |-> OrderStep(h, part)]
    BY <2>4, <2>5
  <2>. QED
    BY <2>6
<1>3. Cardinality(set) \in S
  <2> HIDE DEF S
  <2>. QED
    BY <1>0, <1>1, <1>2, Counting
<1>4. Upto(Cardinality(set)) = SUBSET set
  BY FS_Subset
<1> HIDE DEF Upto
<1>. QED
  BY <1>3, <1>4 DEF OrderEquation

\* It is a sequence of the elements of the set, each once.
LEMMA LaidOut ==
  ASSUME NEW set, IsFiniteSet(set)
  PROVE  LET seq == InSomeOrder(set)
         IN  /\ IsSeq(seq) /\ ToSet(seq) = set
             /\ \A i, j \in 1 .. Len(seq) : seq[i] = seq[j] => i = j
<1> DEFINE order == CHOOSE g : OrderEquation(g, set)
<1>1. OrderEquation(order, set)
  <2>1. \E g : OrderEquation(g, set)
    BY OrderExists
  <2>. QED
    BY <2>1, Zenon
<1>2. InSomeOrder(set) = order[set]
  BY Zenon DEF InSomeOrder, OrderEquation, OrderStep
<1> HIDE DEF order
<1> DEFINE Lists(seq, part) ==
             /\ IsSeq(seq) /\ ToSet(seq) = part
             /\ \A i, j \in 1 .. Len(seq) : seq[i] = seq[j] => i = j
           S == {n \in Nat : \A part \in SUBSET set :
                               Cardinality(part) = n => Lists(order[part], part)}
<1>3. \A part \in SUBSET set : IsFiniteSet(part) /\ Cardinality(part) \in Nat
                               /\ order[part] = OrderStep(order, part)
  BY <1>1, FS_Subset, FS_CardinalityType DEF OrderEquation
<1>4. 0 \in S
  <2> SUFFICES ASSUME NEW part \in SUBSET set, Cardinality(part) = 0
               PROVE  Lists(order[part], part)
    OBVIOUS
  <2>1. part = {}
    BY <1>3, FS_EmptySet
  <2>2. order[part] = << >>
    BY <1>3, <2>1 DEF OrderStep
  <2>3. 1 .. Len(<< >>) = {}
    BY EmptyIsSeq
  <2>. QED
    BY <2>1, <2>2, <2>3, EmptyIsSeq
<1>5. ASSUME NEW n \in Nat, n \in S PROVE n + 1 \in S
  <2> SUFFICES ASSUME NEW part \in SUBSET set, Cardinality(part) = n + 1
               PROVE  Lists(order[part], part)
    OBVIOUS
  <2>1. part # {}
    BY <1>3, FS_EmptySet
  <2> DEFINE x == CHOOSE x \in part : TRUE
             rest == part \ {x}
  <2>2. x \in part
    BY <2>1
  <2>3. order[part] = Append(order[rest], x)
    BY <1>3, <2>1 DEF OrderStep
  <2> HIDE DEF x
  <2>4. Cardinality(rest) = n
    BY <1>3, <2>2, FS_RemoveElement
  <2>5. Lists(order[rest], rest)
    BY <1>5, <2>4
  <2> DEFINE seq == order[rest]
  <2>6. /\ IsSeq(seq) /\ ToSet(seq) = rest /\ Len(seq) \in Nat
        /\ \A i \in 1 .. Len(seq) : seq[i] \in rest
        /\ \A i, j \in 1 .. Len(seq) : seq[i] = seq[j] => i = j
    BY <2>5, IsSeqIn
  <2> HIDE DEF seq
  <2>7. /\ IsSeq(Append(seq, x)) /\ Len(Append(seq, x)) = Len(seq) + 1
        /\ \A i \in 1 .. Len(seq) : Append(seq, x)[i] = seq[i]
        /\ Append(seq, x)[Len(seq) + 1] = x
        /\ ToSet(Append(seq, x)) = rest \cup {x}
    BY <2>6, OneMore
  <2>8. \A i, j \in 1 .. Len(seq) + 1 : Append(seq, x)[i] = Append(seq, x)[j] => i = j
    BY <2>6, <2>7
  <2>9. rest \cup {x} = part
    BY <2>2
  <2>. QED
    BY <2>3, <2>7, <2>8, <2>9 DEF seq
<1> HIDE DEF S
<1>6. Cardinality(set) \in S
  BY <1>3, <1>4, <1>5, Counting
<1>7. Lists(order[set], set)
  BY <1>6 DEF S
<1>. QED
  BY <1>2, <1>7

(***************************************************************************)
(* Sources: those of the first input, then those of the second it has not. *)
(***************************************************************************)
SourcesStep(inputs, g, k) ==
  IF k = 0 THEN << >> ELSE g[k - 1] \o Dropping(inputs[k], ToSet(g[k - 1]))
SourcesEquation(g, inputs, N) == g = [k \in 0 .. N |-> SourcesStep(inputs, g, k)]

\* The equation of Sources has a solution.
LEMMA SourcesExist ==
  ASSUME NEW inputs, NEW N \in Nat
  PROVE  \E g : SourcesEquation(g, inputs, N)
<1> DEFINE S == {n \in Nat : \E g : SourcesEquation(g, inputs, n)}
<1>1. 0 \in S
  <2>1. SourcesEquation([n \in 0 .. 0 |-> << >>], inputs, 0)
    BY DEF SourcesEquation, SourcesStep
  <2>. QED
    BY <2>1
<1>2. ASSUME NEW n \in Nat, n \in S PROVE n + 1 \in S
  <2>1. PICK g : SourcesEquation(g, inputs, n)
    BY <1>2
  <2> DEFINE next == g[n] \o Dropping(inputs[n + 1], ToSet(g[n]))
             h == [k \in 0 .. n + 1 |-> IF k = n + 1 THEN next ELSE g[k]]
  <2>2. \A k \in 0 .. n : g[k] = SourcesStep(inputs, g, k)
    BY <2>1 DEF SourcesEquation
  <2>3. \A k \in 0 .. n + 1 : h[k] = SourcesStep(inputs, h, k)
    BY <2>2 DEF SourcesStep
  <2>4. h = [k \in 0 .. n + 1 |-> h[k]]
    OBVIOUS
  <2> HIDE DEF h
  <2>5. SourcesEquation(h, inputs, n + 1)
    BY <2>3, <2>4 DEF SourcesEquation
  <2>. QED
    BY <2>5
<1> HIDE DEF S
<1>3. N \in S
  BY <1>1, <1>2, Counting
<1>. QED
  BY <1>3 DEF S

\* One or two inputs; those of the second that the first has not come after m.
Inputs(inputs) == Len(inputs) \in {1, 2} /\ \A k \in 1 .. Len(inputs) : IsSeq(inputs[k])
Split(inputs, sources, m) ==
  /\ m \in Nat /\ IsSeq(sources) /\ m <= Len(sources)
  /\ \A i \in 1 .. m : sources[i] \in ToSet(inputs[1])
  /\ m < Len(sources) => Len(inputs) = 2
  /\ \A i \in m + 1 .. Len(sources) : sources[i] \in ToSet(inputs[2]) \ ToSet(inputs[1])

\* The sources are those of the inputs, the ones of the first input first.
LEMMA SourcesSplit ==
  ASSUME NEW inputs, Inputs(inputs)
  PROVE  /\ ToSet(Sources(inputs)) = UNION {ToSet(inputs[k]) : k \in 1 .. Len(inputs)}
         /\ \E m : Split(inputs, Sources(inputs), m)
<1> DEFINE N == Len(inputs)
           seen == CHOOSE g : SourcesEquation(g, inputs, N)
<1>0. N \in {1, 2} /\ \A k \in 1 .. N : IsSeq(inputs[k])
  BY DEF Inputs
<1>1. SourcesEquation(seen, inputs, N)
  <2>1. \E g : SourcesEquation(g, inputs, N)
    BY <1>0, SourcesExist
  <2>. QED
    BY <2>1, Zenon
<1>2. Sources(inputs) = seen[N]
  BY Zenon DEF Sources, SourcesEquation, SourcesStep
<1> HIDE DEF seen
<1>3. \A k \in 0 .. N : seen[k] = SourcesStep(inputs, seen, k)
  BY <1>1 DEF SourcesEquation
<1> DEFINE a == Dropping(inputs[1], {})
           b == Dropping(inputs[2], ToSet(a))
<1>4. seen[0] = << >>
  BY <1>0, <1>3 DEF SourcesStep
<1>5. IsSeq(a) /\ ToSet(a) = ToSet(inputs[1])
  <2>1. IsSeq(inputs[1])
    BY <1>0
  <2>2. IsSeq(a) /\ ToSet(a) = ToSet(inputs[1]) \ {}
    BY <2>1, WhatIsLeft
  <2>. QED
    BY <2>2
<1>6. seen[1] = << >> \o a
  <2>1. 1 \in 0 .. N /\ 1 # 0 /\ 1 - 1 = 0
    BY <1>0
  <2>2. seen[1] = seen[0] \o Dropping(inputs[1], ToSet(seen[0]))
    BY <1>3, <2>1 DEF SourcesStep
  <2>. QED
    BY <1>4, <2>2, EmptyIsSeq
<1> HIDE DEF a
<1>7. /\ IsSeq(seen[1]) /\ ToSet(seen[1]) = ToSet(inputs[1])
      /\ Len(seen[1]) \in Nat /\ \A i \in 1 .. Len(seen[1]) : seen[1][i] \in ToSet(inputs[1])
  <2>1. IsSeq(seen[1]) /\ ToSet(seen[1]) = ToSet(inputs[1])
    BY <1>5, <1>6, EmptyIsSeq, PutTogether
  <2>. QED
    BY <2>1, IsSeqIn
<1>8. CASE N = 1
  <2>1. Split(inputs, seen[1], Len(seen[1]))
    BY <1>7 DEF Split
  <2>2. UNION {ToSet(inputs[k]) : k \in 1 .. N} = ToSet(inputs[1])
    BY <1>8
  <2>. QED
    BY <1>2, <1>7, <1>8, <2>1, <2>2
<1>9. CASE N = 2
  <2> DEFINE c == Dropping(inputs[2], ToSet(inputs[1]))
  <2>1. IsSeq(c) /\ ToSet(c) = ToSet(inputs[2]) \ ToSet(inputs[1])
    BY <1>0, <1>9, WhatIsLeft
  <2>2. seen[2] = seen[1] \o c
    <3>1. 2 \in 0 .. N /\ 2 # 0 /\ 2 - 1 = 1
      BY <1>9
    <3>2. seen[2] = seen[1] \o Dropping(inputs[2], ToSet(seen[1]))
      BY <1>3, <3>1 DEF SourcesStep
    <3>. QED
      BY <1>7, <3>2
  <2> HIDE DEF c
  <2>3. Len(c) \in Nat /\ \A i \in 1 .. Len(c) : c[i] \in ToSet(c)
    BY <2>1, IsSeqIn
  <2>4. /\ IsSeq(seen[2]) /\ Len(seen[2]) = Len(seen[1]) + Len(c)
        /\ \A i \in 1 .. Len(seen[1]) : seen[2][i] = seen[1][i]
        /\ \A i \in 1 .. Len(c) : seen[2][Len(seen[1]) + i] = c[i]
        /\ ToSet(seen[2]) = ToSet(seen[1]) \cup ToSet(c)
    BY <1>7, <2>1, <2>2, PutTogether
  <2>5. \A i \in Len(seen[1]) + 1 .. Len(seen[2]) : seen[2][i] \in ToSet(inputs[2]) \ ToSet(inputs[1])
    <3> SUFFICES ASSUME NEW i \in Len(seen[1]) + 1 .. Len(seen[2])
                 PROVE  seen[2][i] \in ToSet(inputs[2]) \ ToSet(inputs[1])
      OBVIOUS
    <3> DEFINE j == i - Len(seen[1])
    <3>1. j \in 1 .. Len(c) /\ i = Len(seen[1]) + j
      BY <1>7, <2>3, <2>4
    <3> HIDE DEF j
    <3>. QED
      BY <2>1, <2>3, <2>4, <3>1
  <2>6. Split(inputs, seen[2], Len(seen[1]))
    <3>1. Len(seen[1]) <= Len(seen[2]) /\ Len(seen[1]) \in Nat
      BY <1>7, <2>3, <2>4
    <3>2. \A i \in 1 .. Len(seen[1]) : seen[2][i] \in ToSet(inputs[1])
      BY <1>7, <2>4
    <3>. QED
      BY <1>9, <2>4, <2>5, <3>1, <3>2 DEF Split
  <2>7. UNION {ToSet(inputs[k]) : k \in 1 .. N} = ToSet(inputs[1]) \cup ToSet(inputs[2])
    <3>1. 1 .. N = {1, 2}
      BY <1>9
    <3>. QED
      BY <3>1
  <2>. QED
    BY <1>2, <1>7, <1>9, <2>1, <2>4, <2>6, <2>7
<1>. QED
  BY <1>0, <1>8, <1>9

(***************************************************************************)
(* The naming of one operation.  The state of the pass only ever gains     *)
(* names, of entities of the result; what was planned stays.               *)
(***************************************************************************)
Grown(st, start, planned, result) ==
  /\ DOMAIN st = {"names", "step", "pending", "fault"}
  /\ st.step = start.step
  /\ st.pending \subseteq planned
  /\ DOMAIN start.names \subseteq DOMAIN st.names
  /\ DOMAIN st.names \subseteq ToSet(result)
  /\ \A x \in DOMAIN start.names : st.names[x] = start.names[x]
  /\ \A x \in DOMAIN st.names : IsSeq(st.names[x])

\* What two functions put over one another give.
LEMMA Combined ==
  ASSUME NEW f, NEW g
  PROVE  /\ DOMAIN Over(f, g) = DOMAIN f \cup DOMAIN g
         /\ \A x \in DOMAIN f : Over(f, g)[x] = f[x]
         /\ \A x \in DOMAIN g \ DOMAIN f : Over(f, g)[x] = g[x]
  BY DEF Over

\* A batch of names of the result is taken.
LEMMA AssignGrows ==
  ASSUME NEW st, NEW start, NEW planned, NEW result, Grown(st, start, planned, result),
         NEW fresh, DOMAIN fresh \subseteq ToSet(result), \A x \in DOMAIN fresh : IsSeq(fresh[x])
  PROVE  Grown(Assign(st, fresh), start, planned, result)
<1> DEFINE names == Over(st.names, fresh)
           next == Assign(st, fresh)
<1>1. DOMAIN names = DOMAIN st.names \cup DOMAIN fresh
      /\ (\A x \in DOMAIN st.names : names[x] = st.names[x])
      /\ (\A x \in DOMAIN fresh \ DOMAIN st.names : names[x] = fresh[x])
  BY Combined
<1>2. DOMAIN st = {"names", "step", "pending", "fault"}
  BY DEF Grown
<1>3. DOMAIN next = DOMAIN st /\ next.names = names /\ next.step = st.step /\ next.pending = st.pending
  BY <1>2 DEF Assign
<1> HIDE DEF names, next
<1>4. \A x \in DOMAIN names : IsSeq(names[x])
  BY <1>1 DEF Grown
<1>. QED
  BY <1>1, <1>3, <1>4 DEF Grown, next

\* Planned steps are told apart.
LEMMA DisambiguateGrows ==
  ASSUME NEW st, NEW start, NEW planned, NEW result, Grown(st, start, planned, result),
         planned \subseteq ToSet(result), \A x \in planned : IsSeq(start.step[x].name),
         NEW kind, NEW force
  PROVE  Grown(Disambiguate(st, kind, force), start, planned, result)
<1> DEFINE open == {x \in st.pending : Kind(x) = kind}
           known == {x \in open : Below(x) # {} /\ Below(x) \subseteq DOMAIN st.names}
           ready == IF force \/ kind = "v" THEN open ELSE known
           last(x) == IF kind # "v" /\ x \in known
                      THEN [Last(st.step[x].name) EXCEPT !.by = HashNameSet(Below(x), st.names)]
                      ELSE [Last(st.step[x].name) EXCEPT !.geometry = x]
           named == [x \in ready |-> LastBut(st.step[x].name, last(x))]
<1>1. Disambiguate(st, kind, force) = [Assign(st, named) EXCEPT !.pending = st.pending \ ready]
  BY DEF Disambiguate
<1>2. ready \subseteq planned
  BY DEF Grown
<1>3. \A x \in planned : \A segment : IsSeq(LastBut(st.step[x].name, segment))
  <2> SUFFICES ASSUME NEW x \in planned, NEW segment
               PROVE  IsSeq(LastBut(st.step[x].name, segment))
    OBVIOUS
  <2> DEFINE s == st.step[x].name
             front == SubSeq(s, 1, Len(s) - 1)
  <2>1. IsSeq(s)
    BY DEF Grown
  <2>2. s \in Seq(ToSet(s)) /\ Len(s) \in Nat
    BY <2>1, IsSeqIn
  <2>3. IsSeq(front)
    <3> HIDE DEF s
    <3>1. front \in Seq(ToSet(s))
      BY <2>2
    <3>. QED
      BY <3>1, SeqIsSeq
  <2>4. LastBut(s, segment) = Append(front, segment)
    BY DEF LastBut, Front
  <2> HIDE DEF front, s
  <2>5. IsSeq(LastBut(s, segment))
    BY <2>3, <2>4, OneMore
  <2>. QED
    BY <2>5 DEF s
<1>4. DOMAIN named = ready /\ \A x \in DOMAIN named : IsSeq(named[x])
  <2> HIDE DEF ready, last
  <2>1. DOMAIN named = ready /\ \A x \in ready : named[x] = LastBut(st.step[x].name, last(x))
    OBVIOUS
  <2> HIDE DEF named
  <2>. QED
    BY <1>2, <1>3, <2>1
<1> HIDE DEF named, ready
<1>5. Grown(Assign(st, named), start, planned, result)
  BY <1>2, <1>4, AssignGrows
<1> DEFINE mid == Assign(st, named)
<1>6. mid.pending = st.pending
  <2>1. DOMAIN st = {"names", "step", "pending", "fault"}
    BY DEF Grown
  <2>. QED
    BY <2>1 DEF Assign
<1> HIDE DEF mid
<1> DEFINE end == [mid EXCEPT !.pending = st.pending \ ready]
<1>7. DOMAIN end = DOMAIN mid /\ end.names = mid.names /\ end.step = mid.step
      /\ end.pending = st.pending \ ready
  BY <1>5 DEF Grown, mid
<1> HIDE DEF end
<1>8. Grown(end, start, planned, result)
  BY <1>5, <1>7 DEF Grown, mid
<1>. QED
  BY <1>1, <1>8 DEF end, mid

\* Pending entities are resolved, kind by kind.
LEMMA ResolvePendingGrows ==
  ASSUME NEW st, NEW start, NEW planned, NEW result, Grown(st, start, planned, result),
         planned \subseteq ToSet(result), \A x \in planned : IsSeq(start.step[x].name),
         NEW force
  PROVE  Grown(ResolvePending(st, force), start, planned, result)
<1>1. Grown(Disambiguate(st, "v", force), start, planned, result)
  BY DisambiguateGrows
<1>2. Grown(Disambiguate(Disambiguate(st, "v", force), "e", force), start, planned, result)
  BY <1>1, DisambiguateGrows
<1>3. Grown(Disambiguate(Disambiguate(Disambiguate(st, "v", force), "e", force), "f", force),
            start, planned, result)
  BY <1>2, DisambiguateGrows
<1>. QED
  BY <1>3 DEF ResolvePending

\* Entities are named after what is above them.
LEMMA ReconstructGrows ==
  ASSUME NEW st, NEW start, NEW planned, NEW result, Grown(st, start, planned, result),
         NEW op, NEW kind
  PROVE  Grown(Reconstruct(st, op, result, kind), start, planned, result)
<1> DEFINE open == {x \in OfKind(result, kind) \ DOMAIN st.names :
                      Above(result, x) # {} /\ Above(result, x) \subseteq DOMAIN st.names}
           segment(x) == [Segment("L", op) EXCEPT !.of = HashNameSet(Above(result, x), st.names)]
           fresh == [x \in open |-> <<segment(x)>>]
<1>1. Reconstruct(st, op, result, kind) = Assign(st, fresh)
  BY DEF Reconstruct
<1>2. open \subseteq ToSet(result)
  BY DEF OfKind
<1> HIDE DEF open, segment
<1>3. DOMAIN fresh \subseteq ToSet(result) /\ \A x \in DOMAIN fresh : IsSeq(fresh[x])
  BY <1>2, SingleIsSeq
<1> HIDE DEF fresh
<1>. QED
  BY <1>1, <1>3, AssignGrows

\* Entities are named after what is below them.
LEMMA LowerBoundGrows ==
  ASSUME NEW st, NEW start, NEW planned, NEW result, Grown(st, start, planned, result), NEW op
  PROVE  Grown(LowerBound(st, op, result), start, planned, result)
<1>1. Grown(Reconstruct(st, op, result, "e"), start, planned, result)
  BY ReconstructGrows
<1>2. Grown(Reconstruct(Reconstruct(st, op, result, "e"), op, result, "v"), start, planned, result)
  BY <1>1, ReconstructGrows
<1>. QED
  BY <1>2 DEF LowerBound

(***************************************************************************)
(* The sweeps: Rounds of them, then by force.                              *)
(***************************************************************************)
Sweep(st, op, result) == LowerBound(ResolvePending(st, FALSE), op, result)
SettleStep(start, op, result, g, n) == IF n = 0 THEN start ELSE Sweep(g[n - 1], op, result)
SettleEquation(g, start, op, result, N) == g = [n \in 0 .. N |-> SettleStep(start, op, result, g, n)]
ForceStep(start, op, result, g, n) ==
  IF n = 0 THEN start ELSE LowerBound(g[n - 1], op, result)
ForceEquation(g, start, op, result, N) == g = [n \in 0 .. N |-> ForceStep(start, op, result, g, n)]

\* One sweep.
LEMMA SweepGrows ==
  ASSUME NEW st, NEW start, NEW planned, NEW result, Grown(st, start, planned, result), NEW op,
         planned \subseteq ToSet(result), \A x \in planned : IsSeq(start.step[x].name)
  PROVE  Grown(Sweep(st, op, result), start, planned, result)
<1>1. \A force : Grown(ResolvePending(st, force), start, planned, result)
  BY ResolvePendingGrows
<1>2. Grown(ResolvePending(st, FALSE), start, planned, result)
  BY <1>1, Zenon
<1>3. \A other : Grown(other, start, planned, result)
                 => Grown(LowerBound(other, op, result), start, planned, result)
  BY LowerBoundGrows
<1>. QED
  BY <1>2, <1>3, Zenon DEF Sweep

\* The equation of the sweeps has a solution.
LEMMA SettlingExists ==
  ASSUME NEW start, NEW op, NEW result, NEW N \in Nat
  PROVE  \E g : SettleEquation(g, start, op, result, N)
<1> DEFINE S == {n \in Nat : \E g : SettleEquation(g, start, op, result, n)}
<1>1. 0 \in S
  <2>1. SettleEquation([n \in 0 .. 0 |-> start], start, op, result, 0)
    BY DEF SettleEquation, SettleStep
  <2>. QED
    BY <2>1
<1>2. ASSUME NEW n \in Nat, n \in S PROVE n + 1 \in S
  <2>1. PICK g : SettleEquation(g, start, op, result, n)
    BY <1>2
  <2> DEFINE next == Sweep(g[n], op, result)
             h == [k \in 0 .. n + 1 |-> IF k = n + 1 THEN next ELSE g[k]]
  <2>2. \A k \in 0 .. n : g[k] = SettleStep(start, op, result, g, k)
    BY <2>1 DEF SettleEquation
  <2>3. \A k \in 0 .. n + 1 : h[k] = SettleStep(start, op, result, h, k)
    BY <2>2 DEF SettleStep
  <2>4. h = [k \in 0 .. n + 1 |-> h[k]]
    OBVIOUS
  <2> HIDE DEF h
  <2>5. SettleEquation(h, start, op, result, n + 1)
    BY <2>3, <2>4 DEF SettleEquation
  <2>. QED
    BY <2>5
<1> HIDE DEF S
<1>3. N \in S
  BY <1>1, <1>2, Counting
<1>. QED
  BY <1>3 DEF S

\* The equation of the forced sweeps has a solution.
LEMMA ForcingExists ==
  ASSUME NEW start, NEW op, NEW result, NEW N \in Nat
  PROVE  \E g : ForceEquation(g, start, op, result, N)
<1> DEFINE S == {n \in Nat : \E g : ForceEquation(g, start, op, result, n)}
<1>1. 0 \in S
  <2>1. ForceEquation([n \in 0 .. 0 |-> start], start, op, result, 0)
    BY DEF ForceEquation, ForceStep
  <2>. QED
    BY <2>1
<1>2. ASSUME NEW n \in Nat, n \in S PROVE n + 1 \in S
  <2>1. PICK g : ForceEquation(g, start, op, result, n)
    BY <1>2
  <2> DEFINE next == LowerBound(g[n], op, result)
             h == [k \in 0 .. n + 1 |-> IF k = n + 1 THEN next ELSE g[k]]
  <2>2. \A k \in 0 .. n : g[k] = ForceStep(start, op, result, g, k)
    BY <2>1 DEF ForceEquation
  <2>3. \A k \in 0 .. n + 1 : h[k] = ForceStep(start, op, result, h, k)
    BY <2>2 DEF ForceStep
  <2>4. h = [k \in 0 .. n + 1 |-> h[k]]
    OBVIOUS
  <2> HIDE DEF h
  <2>5. ForceEquation(h, start, op, result, n + 1)
    BY <2>3, <2>4 DEF ForceEquation
  <2>. QED
    BY <2>5
<1> HIDE DEF S
<1>3. N \in S
  BY <1>1, <1>2, Counting
<1>. QED
  BY <1>3 DEF S

\* All the sweeps.
LEMMA SweepsGrow ==
  ASSUME NEW start, NEW planned, NEW result, Grown(start, start, planned, result), NEW op,
         planned \subseteq ToSet(result), \A x \in planned : IsSeq(start.step[x].name),
         NEW g, SettleEquation(g, start, op, result, Rounds)
  PROVE  Grown(g[Rounds], start, planned, result)
<1>0. Rounds \in Nat /\ \A n \in 0 .. Rounds : g[n] = SettleStep(start, op, result, g, n)
  BY RoundsAssumption DEF SettleEquation
<1> DEFINE S == {n \in Nat : n <= Rounds => Grown(g[n], start, planned, result)}
<1>1. 0 \in S
  BY <1>0 DEF SettleStep
<1>2. ASSUME NEW n \in Nat, n \in S PROVE n + 1 \in S
  <2> SUFFICES ASSUME n + 1 <= Rounds PROVE Grown(g[n + 1], start, planned, result)
    OBVIOUS
  <2>1. Grown(g[n], start, planned, result)
    BY <1>0, <1>2
  <2>2. n + 1 \in 0 .. Rounds /\ n + 1 # 0 /\ (n + 1) - 1 = n
    BY <1>0
  <2>3. g[n + 1] = Sweep(g[n], op, result)
    BY <1>0, <2>2 DEF SettleStep
  <2>4. Grown(Sweep(g[n], op, result), start, planned, result)
    BY <2>1, SweepGrows
  <2>. QED
    BY <2>3, <2>4
<1> HIDE DEF S
<1>3. Rounds \in S
  BY <1>0, <1>1, <1>2, Counting
<1>. QED
  BY <1>0, <1>3 DEF S

\* All the forced sweeps.
LEMMA ForcedGrow ==
  ASSUME NEW start, NEW planned, NEW result, NEW first, Grown(first, start, planned, result), NEW op,
         NEW g, ForceEquation(g, first, op, result, Rounds)
  PROVE  Grown(g[Rounds], start, planned, result)
<1>0. Rounds \in Nat /\ \A n \in 0 .. Rounds : g[n] = ForceStep(first, op, result, g, n)
  BY RoundsAssumption DEF ForceEquation
<1> DEFINE S == {n \in Nat : n <= Rounds => Grown(g[n], start, planned, result)}
<1>1. 0 \in S
  BY <1>0 DEF ForceStep
<1>2. ASSUME NEW n \in Nat, n \in S PROVE n + 1 \in S
  <2> SUFFICES ASSUME n + 1 <= Rounds PROVE Grown(g[n + 1], start, planned, result)
    OBVIOUS
  <2>1. Grown(g[n], start, planned, result)
    BY <1>0, <1>2
  <2>2. n + 1 \in 0 .. Rounds /\ n + 1 # 0 /\ (n + 1) - 1 = n
    BY <1>0
  <2>3. g[n + 1] = LowerBound(g[n], op, result)
    BY <1>0, <2>2 DEF ForceStep
  <2>. QED
    BY <2>1, <2>3, LowerBoundGrows
<1> HIDE DEF S
<1>3. Rounds \in S
  BY <1>0, <1>1, <1>2, Counting
<1>. QED
  BY <1>0, <1>3 DEF S

\* The least of a set is in it and below all of it.
LEMMA LeastIn ==
  ASSUME NEW T, T \subseteq Nat, T # {}
  PROVE  Min(T) \in T /\ \A k \in T : Min(T) <= k
<1>1. \E m \in T : \A k \in T : m <= k
  BY LeastNumber
<1>. QED
  BY <1>1 DEF Min

Names(book) == \A x \in DOMAIN book : IsSeq(book[x])

\* What the pass says of a result.
Modified(sources, history, x) == Parents(sources, history, "modified", x)
Kept(inputs, result) == ToSet(Sources(inputs)) \cap ToSet(result)
OnlyImage(inputs, result, history, x) ==
  LET sources == Sources(inputs)
  IN /\ Modified(sources, history, x) # {}
     /\ \A y \in ToSet(result) \ Kept(inputs, result) :
          (/\ Modified(sources, history, y) # {}
           /\ Min(Modified(sources, history, y)) = Min(Modified(sources, history, x)))
            => y = x

\* A step is a name; a modification is told by the first source of the image.
LEMMA StepsAreNames ==
  ASSUME NEW book, Names(book), NEW op, NEW sources, IsSeq(sources), ToSet(sources) \subseteq DOMAIN book,
         NEW history, NEW x
  PROVE  LET step == StepOf(book, op, sources, history, x)
         IN  /\ IsSeq(step.name)
             /\ Modified(sources, history, x) # {} =>
                  step = [of |-> Min(Modified(sources, history, x)),
                          name |-> Append(book[sources[Min(Modified(sources, history, x))]],
                                          Segment("M", op))]
             /\ \A i \in DOMAIN sources :
                  (step.of = i /\ \E n : step.name = Append(n, Segment("M", op)) /\ IsSeq(n))
                    => Modified(sources, history, x) # {} /\ Min(Modified(sources, history, x)) = i
<1> DEFINE modified == Modified(sources, history, x)
           generated == Parents(sources, history, "generated", x)
           nameOf == [i \in DOMAIN sources |-> book[sources[i]]]
           step == StepOf(book, op, sources, history, x)
           from(i, tag) == [of |-> i, name |-> Append(nameOf[i], Segment(tag, op))]
           section == [of |-> 0, name |-> <<[Segment("S", op) EXCEPT
                        !.of = HashNameSet(Preferred(sources, generated, Kind(x)), nameOf)]>>]
           none == [of |-> 0, name |-> << >>]
<1>1. step = CASE modified # {} -> from(Min(modified), "M")
               [] modified = {} /\ Cardinality(generated) = 1 -> from(Min(generated), "G")
               [] modified = {} /\ Cardinality(generated) > 1 -> section
               [] OTHER -> none
  BY DEF StepOf, Modified
<1>2. DOMAIN sources = 1 .. Len(sources) /\ Len(sources) \in Nat
      /\ \A i \in DOMAIN sources : sources[i] \in DOMAIN book
  BY IsSeqIn
<1>3. modified \subseteq DOMAIN sources /\ generated \subseteq DOMAIN sources /\ DOMAIN sources \subseteq Nat
  BY <1>2 DEF Modified, Parents
<1>4. \A i \in DOMAIN sources : nameOf[i] = book[sources[i]] /\ IsSeq(nameOf[i])
  BY <1>2 DEF Names
<1> HIDE DEF modified, generated, nameOf
<1>5. ASSUME NEW i \in DOMAIN sources, NEW tag
      PROVE  IsSeq(from(i, tag).name) /\ from(i, tag).of = i
             /\ from(i, tag).name = Append(book[sources[i]], Segment(tag, op))
  BY <1>4, OneMore
<1>6. Segment("M", op) # Segment("G", op)
  <2>1. Segment("M", op).tag = "M" /\ Segment("G", op).tag = "G"
    BY DEF Segment
  <2>. QED
    BY <2>1
<1>7. CASE modified # {}
  <2>1. step = from(Min(modified), "M") /\ Min(modified) \in DOMAIN sources
    <3>1. Min(modified) \in modified
      BY <1>3, <1>7, LeastIn
    <3>. QED
      BY <1>1, <1>3, <1>7, <3>1
  <2>. QED
    BY <1>4, <1>5, <1>7, <2>1 DEF modified
<1>8. CASE modified = {} /\ Cardinality(generated) = 1
  <2>1. step = from(Min(generated), "G")
    BY <1>1, <1>8
  <2>2. generated # {}
    BY <1>8, FS_EmptySet
  <2>3. Min(generated) \in DOMAIN sources
    BY <1>3, <2>2, LeastIn
  <2>4. IsSeq(step.name) /\ step.name = Append(nameOf[Min(generated)], Segment("G", op))
    BY <1>5, <2>1, <2>3
  <2>5. \A n : IsSeq(n) => step.name # Append(n, Segment("M", op))
    <3> SUFFICES ASSUME NEW n, IsSeq(n), step.name = Append(n, Segment("M", op)) PROVE FALSE
      OBVIOUS
    <3> DEFINE a == nameOf[Min(generated)]
               sm == Segment("M", op)
               sg == Segment("G", op)
    <3>1. IsSeq(a)
      BY <1>4, <2>3
    <3>2. Append(a, sg) = Append(n, sm)
      BY <2>4
    <3> HIDE DEF a, sm, sg
    <3>3. Append(a, sg)[Len(a) + 1] = sg /\ Len(Append(a, sg)) = Len(a) + 1 /\ Len(a) \in Nat
      BY <3>1, OneMore, IsSeqIn
    <3>4. Append(n, sm)[Len(n) + 1] = sm /\ Len(Append(n, sm)) = Len(n) + 1 /\ Len(n) \in Nat
      BY OneMore, IsSeqIn
    <3>5. Len(a) = Len(n)
      BY <3>2, <3>3, <3>4
    <3>6. sg = sm
      BY <3>2, <3>3, <3>4, <3>5
    <3>. QED
      BY <1>6, <3>6 DEF sm, sg
  <2> HIDE DEF step
  <2>. QED
    BY <1>8, <2>4, <2>5 DEF modified, step
<1>9. CASE modified = {} /\ Cardinality(generated) # 1
  <2>1. step = section \/ step = none
    BY <1>1, <1>9
  <2>2. step.of = 0 /\ IsSeq(step.name)
    <3> DEFINE s == [Segment("S", op) EXCEPT
                       !.of = HashNameSet(Preferred(sources, generated, Kind(x)), nameOf)]
    <3>1. section = [of |-> 0, name |-> <<s>>]
      OBVIOUS
    <3> HIDE DEF s, section
    <3>. QED
      BY <2>1, <3>1, SingleIsSeq, EmptyIsSeq
  <2>3. \A i \in DOMAIN sources : i # 0
    BY <1>2
  <2> HIDE DEF step
  <2>. QED
    BY <1>9, <2>2, <2>3 DEF modified, step
<1>. QED
  BY <1>7, <1>8, <1>9

\* One map of names extends another.
Extends(book, other) == DOMAIN other \subseteq DOMAIN book /\ \A x \in DOMAIN other : book[x] = other[x]

\* What an operation gives: the names of its sources stay, everything in the
\* result is named, and the only image of a source is named after it.
NamesGrow(names, book, op, inputs, result, history) ==
  LET sources == Sources(inputs)
  IN /\ Extends(names, book) /\ Names(names)
     /\ ToSet(result) \subseteq DOMAIN names
     /\ ToSet(sources) \subseteq DOMAIN book
     /\ \A x \in ToSet(result) \ Kept(inputs, result) :
          OnlyImage(inputs, result, history, x) =>
            names[x] = Append(book[sources[Min(Modified(sources, history, x))]],
                              Segment("M", op))

\* What is modified goes one step from its first source.
LEMMA ModifiedIsStep ==
  ASSUME NEW book, Names(book), NEW op, NEW sources, IsSeq(sources), ToSet(sources) \subseteq DOMAIN book,
         NEW history, NEW x, NEW i, Modified(sources, history, x) # {}, Min(Modified(sources, history, x)) = i
  PROVE  StepOf(book, op, sources, history, x)
           = [of |-> i, name |-> Append(book[sources[i]], Segment("M", op))]
<1> DEFINE step == StepOf(book, op, sources, history, x)
           first == Min(Modified(sources, history, x))
<1>1. step = [of |-> first, name |-> Append(book[sources[first]], Segment("M", op))]
  BY StepsAreNames
<1>. QED
  BY <1>1

\* ApplyOperation: naming an operation only ever adds names.
LEMMA OperationNames ==
  ASSUME NEW book, Names(book), NEW op, NEW inputs, Inputs(inputs), NEW result, IsSeq(result),
         NEW history, ~ ApplyOperation(book, op, inputs, result, history).fault
  PROVE  NamesGrow(ApplyOperation(book, op, inputs, result, history).names,
                   book, op, inputs, result, history)
<1> DEFINE sources == Sources(inputs)
           kept == ToSet(sources) \cap ToSet(result)
           step == [x \in ToSet(result) \ kept |-> StepOf(book, op, sources, history, x)]
           planned == {x \in DOMAIN step : step[x].name # << >>}
           siblings(x) == {y \in planned : step[y] = step[x] /\ Kind(y) = Kind(x)}
           alone == {x \in planned : siblings(x) = {x}}
           keeping == [x \in kept |-> book[x]]
           stepping == [x \in alone |-> step[x].name]
           start == [names |-> Over(keeping, stepping),
                     step |-> step, pending |-> planned \ alone, fault |-> FALSE]
           settled == CHOOSE g : SettleEquation(g, start, op, result, Rounds)
           first == ResolvePending(settled[Rounds], TRUE)
           forced == CHOOSE g : ForceEquation(g, first, op, result, Rounds)
           end == forced[Rounds]
           rest == ToSet(result) \ DOMAIN end.names
           rooted == [x \in rest |-> QuantizedRoot(x)]
           named == Over(end.names, rooted)
           faulty == \/ ToSet(sources) \ DOMAIN book # {}
                     \/ end.fault
                     \/ \E x \in ToSet(result) \cap DOMAIN book : book[x] # named[x]
<1>1. ApplyOperation(book, op, inputs, result, history) = [names |-> Over(named, book), fault |-> faulty]
  BY Zenon DEF ApplyOperation, SettleEquation, SettleStep, ForceEquation, ForceStep, Sweep
<1>2. (~ faulty) /\ ApplyOperation(book, op, inputs, result, history).names = Over(named, book)
  <2> DEFINE f == faulty
             n == Over(named, book)
  <2>1. ApplyOperation(book, op, inputs, result, history) = [names |-> n, fault |-> f]
    BY <1>1
  <2> HIDE DEF f, n
  <2>2. (~ f) /\ ApplyOperation(book, op, inputs, result, history).names = n
    BY <2>1
  <2>. QED
    BY <2>2 DEF f, n
<1>3. ToSet(sources) \subseteq DOMAIN book /\ \A x \in ToSet(result) \cap DOMAIN book : book[x] = named[x]
  BY <1>2
<1>4. IsSeq(sources) /\ DOMAIN sources = 1 .. Len(sources) /\ Len(sources) \in Nat
      /\ \A i \in DOMAIN sources : sources[i] \in DOMAIN book
  <2>1. IsSeq(sources)
    BY SourcesSplit DEF Split
  <2> HIDE DEF sources
  <2>. QED
    BY <1>3, <2>1, IsSeqIn
<1>k. /\ Kept(inputs, result) = kept
      /\ \A x : OnlyImage(inputs, result, history, x) =>
           /\ Modified(sources, history, x) # {}
           /\ \A y \in ToSet(result) \ kept :
                (/\ Modified(sources, history, y) # {}
                 /\ Min(Modified(sources, history, y)) = Min(Modified(sources, history, x)))
                  => y = x
  <2>1. Kept(inputs, result) = kept
    BY DEF Kept
  <2>. QED
    BY <2>1, Zenon DEF OnlyImage
<1>s. ASSUME NEW x, Modified(sources, history, x) # {}
      PROVE  Min(Modified(sources, history, x)) \in DOMAIN sources
  <2>1. Modified(sources, history, x) \subseteq DOMAIN sources /\ DOMAIN sources \subseteq Nat
    BY <1>4 DEF Modified, Parents
  <2>. QED
    BY <1>s, <2>1, LeastIn
<1> HIDE DEF sources
<1>5. DOMAIN step = ToSet(result) \ kept
      /\ \A x \in DOMAIN step : step[x] = StepOf(book, op, sources, history, x)
  OBVIOUS
<1>6. \A x \in DOMAIN step : IsSeq(step[x].name)
  BY <1>3, <1>4, <1>5, StepsAreNames
<1>7. planned \subseteq ToSet(result) \ kept /\ alone \subseteq planned
  OBVIOUS
<1>8. Grown(start, start, planned, result)
  <2>1. /\ DOMAIN start.names = kept \cup alone
        /\ \A x \in kept : start.names[x] = book[x]
        /\ \A x \in alone \ kept : start.names[x] = step[x].name
    <3>1. DOMAIN keeping = kept /\ DOMAIN stepping = alone
          /\ (\A x \in kept : keeping[x] = book[x]) /\ \A x \in alone : stepping[x] = step[x].name
      OBVIOUS
    <3>2. start.names = Over(keeping, stepping)
      OBVIOUS
    <3> HIDE DEF keeping, stepping, start, kept, alone
    <3>. QED
      BY <3>1, <3>2 DEF Over
  <2>2. start.pending = planned \ alone /\ DOMAIN start = {"names", "step", "pending", "fault"}
    OBVIOUS
  <2>3. \A x \in kept \cup alone : IsSeq(start.names[x])
    <3>1. \A x \in kept : x \in DOMAIN book
      BY <1>3
    <3> HIDE DEF start, step, kept, planned, alone
    <3>. QED
      BY <1>5, <1>6, <1>7, <2>1, <3>1 DEF Names
  <2> HIDE DEF start, planned, alone, step
  <2>. QED
    BY <1>7, <2>1, <2>2, <2>3 DEF Grown
<1>9. start.step = step
  OBVIOUS
<1> HIDE DEF start
<1>10. Grown(settled[Rounds], start, planned, result)
  <2>1. \E g : SettleEquation(g, start, op, result, Rounds)
    BY RoundsAssumption, SettlingExists
  <2>2. SettleEquation(settled, start, op, result, Rounds)
    BY <2>1, Zenon
  <2> HIDE DEF settled, planned, step
  <2>3. planned \subseteq ToSet(result) /\ \A x \in planned : IsSeq(start.step[x].name)
    BY <1>5, <1>6, <1>7, <1>9
  <2>. QED
    BY <1>8, <2>2, <2>3, SweepsGrow
<1> HIDE DEF settled
<1>11. Grown(first, start, planned, result)
  <2> DEFINE st == settled[Rounds]
  <2> HIDE DEF planned, step
  <2>1. planned \subseteq ToSet(result) /\ \A x \in planned : IsSeq(start.step[x].name)
    BY <1>5, <1>6, <1>7, <1>9
  <2>2. Grown(st, start, planned, result)
    BY <1>10
  <2> HIDE DEF st
  <2>3. \A force : Grown(ResolvePending(st, force), start, planned, result)
    BY <2>1, <2>2, ResolvePendingGrows
  <2>. QED
    BY <2>3, Zenon DEF st
<1> HIDE DEF first
<1>12. Grown(end, start, planned, result)
  <2>1. \E g : ForceEquation(g, first, op, result, Rounds)
    BY RoundsAssumption, ForcingExists
  <2>2. ForceEquation(forced, first, op, result, Rounds)
    BY <2>1, Zenon
  <2> HIDE DEF forced, planned
  <2>. QED
    BY <1>11, <2>2, ForcedGrow
<1> HIDE DEF end
<1>13. /\ DOMAIN named = ToSet(result)
       /\ \A x \in DOMAIN end.names : named[x] = end.names[x]
       /\ \A x \in DOMAIN named : IsSeq(named[x])
  <2>1. DOMAIN rooted = rest /\ \A x \in rest : rooted[x] = QuantizedRoot(x)
    OBVIOUS
  <2>2. \A x \in rest : IsSeq(rooted[x])
    BY <2>1, SingleIsSeq DEF QuantizedRoot
  <2>3. DOMAIN end.names \subseteq ToSet(result) /\ \A x \in DOMAIN end.names : IsSeq(end.names[x])
    BY <1>12 DEF Grown
  <2> HIDE DEF rooted
  <2>. QED
    BY <2>1, <2>2, <2>3 DEF Over
<1> HIDE DEF named
<1>14. /\ DOMAIN Over(named, book) = ToSet(result) \cup DOMAIN book
       /\ \A x \in ToSet(result) : Over(named, book)[x] = named[x]
       /\ \A x \in DOMAIN book \ ToSet(result) : Over(named, book)[x] = book[x]
  BY <1>13 DEF Over
<1>15. Extends(Over(named, book), book) /\ Names(Over(named, book))
  BY <1>3, <1>13, <1>14 DEF Extends, Names
<1>a. /\ \A x \in DOMAIN step : step[x].name # << >> => x \in planned
      /\ \A x \in planned : (\A y \in planned : step[y] = step[x] => y = x) => x \in alone
      /\ alone \subseteq planned
  OBVIOUS
<1>b. \A x \in alone : x \in DOMAIN start.names /\ start.names[x] = step[x].name
  <2>1. DOMAIN keeping = kept /\ DOMAIN stepping = alone
        /\ \A y \in alone : stepping[y] = step[y].name
    OBVIOUS
  <2>2. start.names = Over(keeping, stepping)
    BY DEF start
  <2>3. alone \cap kept = {}
    BY <1>7
  <2> HIDE DEF keeping, stepping, kept, alone, step
  <2>. QED
    BY <2>1, <2>2, <2>3 DEF Over
<1> HIDE DEF step, planned, alone, keeping, stepping, kept, faulty, rooted, rest
<1>16. ASSUME NEW x \in ToSet(result) \ kept, OnlyImage(inputs, result, history, x)
       PROVE  named[x] = Append(book[sources[Min(Modified(sources, history, x))]], Segment("M", op))
  <2> DEFINE i == Min(Modified(sources, history, x))
             longer == Append(book[sources[i]], Segment("M", op))
  <2>2. /\ Modified(sources, history, x) # {}
        /\ \A y \in ToSet(result) \ kept :
             (Modified(sources, history, y) # {} /\ Min(Modified(sources, history, y)) = i) => y = x
    BY <1>k, <1>16
  <2>3. i \in DOMAIN sources
    BY <1>s, <2>2
  <2>4. step[x] = [of |-> i, name |-> longer]
    <3> HIDE DEF i, longer
    <3>0. IsSeq(sources) /\ ToSet(sources) \subseteq DOMAIN book /\ Names(book)
      BY <1>3, <1>4
    <3>1. StepOf(book, op, sources, history, x)
            = [of |-> i, name |-> Append(book[sources[i]], Segment("M", op))]
      BY <2>2, <3>0, ModifiedIsStep DEF i
    <3>2. StepOf(book, op, sources, history, x) = [of |-> i, name |-> longer]
      BY <3>1 DEF longer
    <3>. QED
      BY <1>5, <3>2
  <2>6. IsSeq(book[sources[i]])
    BY <1>4, <2>3 DEF Names
  <2>5. step[x].of = i /\ step[x].name = longer
    BY <2>4
  <2>7. longer # << >>
    <3> DEFINE n == book[sources[i]]
               s == Segment("M", op)
    <3>1. IsSeq(n)
      BY <2>6
    <3> HIDE DEF n, s
    <3>2. Len(Append(n, s)) = Len(n) + 1 /\ Len(n) \in Nat
      BY <3>1, OneMore, IsSeqIn
    <3>3. Append(n, s) # << >>
      BY <3>2, EmptyIsSeq
    <3>. QED
      BY <3>3 DEF n, s
  <2>8. x \in planned
    BY <1>5, <1>a, <2>5, <2>7
  <2>9. ASSUME NEW y \in planned, step[y] = step[x] PROVE y = x
    <3>1. y \in ToSet(result) \ kept /\ step[y] = StepOf(book, op, sources, history, y)
      BY <1>5, <1>7
    <3>2. StepOf(book, op, sources, history, y).of = i
          /\ StepOf(book, op, sources, history, y).name = Append(book[sources[i]], Segment("M", op))
      BY <2>5, <2>9, <3>1
    <3> HIDE DEF i, longer
    <3>3. Modified(sources, history, y) # {} /\ Min(Modified(sources, history, y)) = i
      BY <1>3, <1>4, <2>3, <2>6, <3>2, StepsAreNames
    <3>. QED
      BY <2>2, <3>1, <3>3
  <2> HIDE DEF i, longer
  <2>10. x \in alone
    BY <1>a, <2>8, <2>9
  <2>11. x \in DOMAIN start.names /\ start.names[x] = longer
    BY <1>b, <2>5, <2>10
  <2>12. x \in DOMAIN end.names /\ end.names[x] = start.names[x]
    BY <1>12, <2>11 DEF Grown
  <2>. QED
    BY <1>13, <2>11, <2>12 DEF i, longer
<1>17. ASSUME NEW x \in ToSet(result) \ kept, OnlyImage(inputs, result, history, x)
       PROVE  Over(named, book)[x] = Append(book[sources[Min(Modified(sources, history, x))]], Segment("M", op))
  <2>1. x \in ToSet(result)
    OBVIOUS
  <2>2. named[x] = Append(book[sources[Min(Modified(sources, history, x))]], Segment("M", op))
    BY <1>16, <1>17
  <2>. QED
    BY <1>14, <2>1, <2>2
<1>18. ToSet(result) \subseteq DOMAIN Over(named, book)
  BY <1>14
<1>19. NamesGrow(Over(named, book), book, op, inputs, result, history)
  BY <1>3, <1>k, <1>15, <1>17, <1>18, Zenon DEF sources, NamesGrow
<1>. QED
  BY <1>2, <1>19

(***************************************************************************)
(* The registry.                                                           *)
(***************************************************************************)
States == {"book", "records", "answering", "fault"}
Fields == {"token", "shape", "born", "kind", "name", "ancestors", "live", "collision"}

\* The records that answer for a sub-shape are records of that sub-shape.
Chains(st) ==
  \A x \in DOMAIN st.answering :
    /\ IsSeq(st.answering[x])
    /\ \A i \in ToSet(st.answering[x]) : i \in 1 .. Len(st.records) /\ st.records[i].shape = x
\* A live record answers for its sub-shape, under its name, and comes from one
\* that the sub-shape continues.
Speaks(st, i) ==
  LET r == st.records[i]
  IN /\ r.shape \in DOMAIN st.answering /\ i \in ToSet(st.answering[r.shape])
     /\ r.shape \in DOMAIN st.book /\ r.name = NormalizeName(st.book[r.shape])
     /\ r.shape \in 1 .. Len(shapes) /\ r.born \in shapes[r.shape].continues
Registry(st) ==
  /\ DOMAIN st = States
  /\ Names(st.book)
  /\ IsSeq(st.records) /\ \A i \in 1 .. Len(st.records) : DOMAIN st.records[i] = Fields
  /\ Chains(st)
  /\ \A i \in 1 .. Len(st.records) : st.records[i].live => Speaks(st, i)

\* The names grow.
LEMMA NamedIsSound ==
  ASSUME NEW st, Registry(st), NEW naming, Extends(naming.names, st.book), Names(naming.names)
  PROVE  LET next == Named(st, naming)
         IN  /\ Registry(next)
             /\ next.book = naming.names /\ next.records = st.records /\ next.answering = st.answering
             /\ \A x : LiveAnswers(next, x) = LiveAnswers(st, x)
<1> DEFINE next == Named(st, naming)
<1>1. DOMAIN st = States
  BY DEF Registry
<1>2. /\ DOMAIN next = States
      /\ next.book = naming.names /\ next.records = st.records /\ next.answering = st.answering
  BY <1>1 DEF Named, States
<1> HIDE DEF next
<1>3. Chains(next)
  BY <1>2 DEF Chains, Registry
<1>4. ASSUME NEW i \in 1 .. Len(next.records), next.records[i].live PROVE Speaks(next, i)
  <2>1. Speaks(st, i)
    BY <1>2, <1>4 DEF Registry
  <2>. QED
    BY <1>2, <2>1 DEF Speaks, Extends
<1>5. Registry(next)
  BY <1>2, <1>3, <1>4 DEF Registry
<1>6. \A x : LiveAnswers(next, x) = LiveAnswers(st, x)
  BY <1>2 DEF LiveAnswers, Answering
<1>. QED
  BY <1>2, <1>5, <1>6 DEF next

\* A fault stays.
LEMMA NamedFaults ==
  ASSUME NEW st, DOMAIN st = States, NEW naming
  PROVE  /\ DOMAIN Named(st, naming) = States
         /\ ~ Named(st, naming).fault => ~ st.fault /\ ~ naming.fault
<1> DEFINE f == st.fault \/ naming.fault
           next == [st EXCEPT !.book = naming.names, !.fault = f]
<1>1. DOMAIN next = States /\ next.fault = f
  <2> HIDE DEF f
  <2>. QED
    BY DEF States
<1>2. Named(st, naming) = next
  BY DEF Named
<1> HIDE DEF next
<1>. QED
  BY <1>1, <1>2

\* Records that answer for a set of sub-shapes die; nothing else changes.
LEMMA RetireIsSound ==
  ASSUME NEW st, Registry(st), NEW set
  PROVE  LET next == Retire(st, set)
         IN  /\ Registry(next)
             /\ next.book = st.book /\ next.fault = st.fault
             /\ DOMAIN next.answering = DOMAIN st.answering \ set
             /\ \A x : x \notin set => LiveAnswers(next, x) = LiveAnswers(st, x)
<1> DEFINE dead == UNION {ToSet(Answering(st, x)) : x \in set}
           records == [i \in DOMAIN st.records |-> [st.records[i] EXCEPT !.live = @ /\ i \notin dead]]
           answering == Without(st.answering, set)
           next == Retire(st, set)
           N == Len(st.records)
<1>1. /\ DOMAIN st = States /\ IsSeq(st.records) /\ DOMAIN st.records = 1 .. N /\ N \in Nat
      /\ \A i \in 1 .. N : DOMAIN st.records[i] = Fields
  BY IsSeqIn DEF Registry
<1>2. /\ DOMAIN next = States /\ next.book = st.book /\ next.fault = st.fault
      /\ next.records = records /\ next.answering = answering
  BY <1>1 DEF Retire, States
<1>3. /\ IsSeq(records) /\ Len(records) = N
      /\ \A i \in 1 .. N : /\ DOMAIN records[i] = Fields
                           /\ records[i].shape = st.records[i].shape
                           /\ records[i].born = st.records[i].born
                           /\ records[i].name = st.records[i].name
                           /\ records[i].live <=> st.records[i].live /\ i \notin dead
  <2> HIDE DEF dead
  <2>1. records = [i \in 1 .. N |-> records[i]]
    BY <1>1
  <2>2. \A i \in 1 .. N : records[i] = [st.records[i] EXCEPT !.live = @ /\ i \notin dead]
    BY <1>1
  <2> HIDE DEF records
  <2>3. IsSeq(records) /\ Len(records) = N
    BY <1>1, <2>1, FunctionIsSeq
  <2>. QED
    BY <1>1, <2>2, <2>3 DEF Fields
<1>4. DOMAIN answering = DOMAIN st.answering \ set
      /\ \A x \in DOMAIN answering : answering[x] = st.answering[x]
  BY DEF Without
<1>5. ASSUME NEW i \in 1 .. N, st.records[i].shape \notin set PROVE i \notin dead
  <2> SUFFICES ASSUME NEW x \in set, i \in ToSet(Answering(st, x)) PROVE FALSE
    OBVIOUS
  <2>1. x \in DOMAIN st.answering /\ Answering(st, x) = st.answering[x]
    BY EmptyIsSeq DEF Answering
  <2>2. st.records[i].shape = x
    BY <2>1 DEF Registry, Chains
  <2>. QED
    BY <1>5, <2>2
<1>6. ASSUME NEW i \in 1 .. N, i \notin dead, st.records[i].live PROVE st.records[i].shape \notin set
  <2>1. st.records[i].shape \in DOMAIN st.answering /\ i \in ToSet(st.answering[st.records[i].shape])
    BY <1>6 DEF Registry, Speaks
  <2>. QED
    BY <1>6, <2>1 DEF Answering
<1> HIDE DEF dead, records, answering, next, N
<1>7. Chains(next)
  BY <1>2, <1>3, <1>4 DEF Registry, Chains, N
<1>8. ASSUME NEW i \in 1 .. N, records[i].live PROVE Speaks(next, i)
  <2>1. Speaks(st, i) /\ st.records[i].shape \notin set
    BY <1>3, <1>6, <1>8 DEF Registry, N
  <2>. QED
    BY <1>2, <1>3, <1>4, <2>1 DEF Speaks
<1>9. Registry(next)
  BY <1>2, <1>3, <1>7, <1>8 DEF Registry
<1>10. ASSUME NEW x, x \notin set PROVE LiveAnswers(next, x) = LiveAnswers(st, x)
  <2>1. Answering(next, x) = Answering(st, x)
    BY <1>2, <1>4, <1>10 DEF Answering
  <2>2. \A i \in ToSet(Answering(st, x)) : i \in 1 .. N /\ st.records[i].shape = x
    BY EmptyIsSeq DEF Answering, Registry, Chains, N
  <2>3. \A i \in ToSet(Answering(st, x)) : next.records[i].live <=> st.records[i].live
    BY <1>2, <1>3, <1>5, <1>10, <2>2
  <2>. QED
    BY <2>1, <2>3 DEF LiveAnswers
<1>. QED
  BY <1>2, <1>4, <1>9, <1>10 DEF next

\* A plan that may be minted, and its record.
Minted(book, plan, record) ==
  /\ plan.shape \in DOMAIN book /\ plan.shape \in 1 .. Len(shapes)
  /\ plan.shape \in shapes[plan.shape].continues
  /\ DOMAIN record = Fields /\ record.live
  /\ record.shape = plan.shape /\ record.born = plan.shape
  /\ record.name = NormalizeName(book[plan.shape])
Follows(book, plan) ==
  /\ plan.alias # plan.shape
  /\ NormalizeName(book[plan.alias]) = NormalizeName(book[plan.shape])
  /\ shapes[plan.alias].continues \subseteq shapes[plan.shape].continues

\* What minting a plan gives.
Mints(st, next, plan) ==
  /\ Registry(next) /\ next.book = st.book
  /\ DOMAIN next.answering \subseteq
       (DOMAIN st.answering \cup {plan.shape}) \ ({plan.alias} \ {0})
  /\ \A x : (x \notin {plan.alias} \ {0} /\ LiveAnswers(st, x) # {}) => LiveAnswers(next, x) # {}
  /\ plan.alias = 0 => LiveAnswers(next, plan.shape) # {}

\* A new token.
LEMMA MintOwnIsSound ==
  ASSUME NEW st, Registry(st), NEW plan, NEW record, Minted(st.book, plan, record), plan.alias = 0
  PROVE  Mints(st, MintOwn(st, plan, record), plan) /\ MintOwn(st, plan, record).fault = st.fault
<1> DEFINE n == Len(st.records) + 1
           s == plan.shape
           old == Answering(st, s)
           chain == Append(old, n)
           records == Append(st.records, record)
           answering == Bind(st.answering, s, chain)
           next == MintOwn(st, plan, record)
<1>1. DOMAIN st = States /\ IsSeq(st.records) /\ Len(st.records) \in Nat
  BY IsSeqIn DEF Registry
<1>2. /\ DOMAIN next = States /\ next.book = st.book /\ next.fault = st.fault
      /\ next.records = records /\ next.answering = answering
  BY <1>1 DEF MintOwn, States
<1>3. /\ IsSeq(records) /\ Len(records) = n /\ records[n] = record
      /\ \A i \in 1 .. Len(st.records) : records[i] = st.records[i]
  BY <1>1, OneMore
<1>4. IsSeq(old) /\ \A i \in ToSet(old) : i \in 1 .. Len(st.records) /\ st.records[i].shape = s
  BY EmptyIsSeq DEF Answering, Registry, Chains
<1>5. IsSeq(chain) /\ ToSet(chain) = ToSet(old) \cup {n}
  BY <1>4, OneMore
<1>6. /\ DOMAIN answering = DOMAIN st.answering \cup {s} /\ answering[s] = chain
      /\ \A x \in DOMAIN st.answering : x # s => answering[x] = st.answering[x]
  <2> HIDE DEF chain
  <2>. QED
    BY DEF Bind
<1>7. s \in DOMAIN st.answering => old = st.answering[s]
  BY DEF Answering
<1> HIDE DEF chain, old, records, answering, next
<1>8. ASSUME NEW x \in DOMAIN answering
      PROVE  IsSeq(answering[x]) /\ \A i \in ToSet(answering[x]) : i \in 1 .. n /\ records[i].shape = x
  <2>1. CASE x = s
    BY <1>1, <1>3, <1>4, <1>5, <1>6, <2>1 DEF Minted
  <2>2. CASE x # s
    <3>1. x \in DOMAIN st.answering /\ answering[x] = st.answering[x]
      BY <1>6, <2>2
    <3>2. IsSeq(st.answering[x])
          /\ \A i \in ToSet(st.answering[x]) : i \in 1 .. Len(st.records) /\ st.records[i].shape = x
      BY <3>1 DEF Registry, Chains
    <3>3. 1 .. Len(st.records) \subseteq 1 .. n
      BY <1>1
    <3>. QED
      BY <1>3, <3>1, <3>2, <3>3
  <2>. QED
    BY <2>1, <2>2
<1>9. Chains(next)
  BY <1>2, <1>3, <1>8 DEF Chains
<1>10. ASSUME NEW i \in 1 .. n, records[i].live PROVE Speaks(next, i)
  <2>1. CASE i = n
    BY <1>2, <1>3, <1>5, <1>6, <2>1 DEF Minted, Speaks
  <2>2. CASE i # n
    <3>1. i \in 1 .. Len(st.records) /\ records[i] = st.records[i]
      BY <1>1, <1>3, <2>2
    <3>2. Speaks(st, i)
      BY <1>10, <3>1 DEF Registry
    <3>3. records[i].shape \in DOMAIN answering /\ i \in ToSet(answering[records[i].shape])
      BY <1>5, <1>6, <1>7, <3>1, <3>2 DEF Speaks
    <3>. QED
      BY <1>2, <3>1, <3>2, <3>3 DEF Speaks
  <2>. QED
    BY <2>1, <2>2
<1>11. \A i \in 1 .. n : DOMAIN records[i] = Fields
  BY <1>1, <1>3 DEF Minted, Registry
<1>12. Registry(next)
  BY <1>2, <1>3, <1>9, <1>10, <1>11 DEF Registry
<1>13. ASSUME NEW x, LiveAnswers(st, x) # {} PROVE LiveAnswers(next, x) # {}
  <2>1. PICK i \in ToSet(Answering(st, x)) : st.records[i].live
    BY <1>13 DEF LiveAnswers
  <2>2. x \in DOMAIN st.answering /\ i \in ToSet(st.answering[x])
    BY <2>1, EmptyIsSeq DEF Answering
  <2>3. i \in 1 .. Len(st.records)
    BY <2>2 DEF Registry, Chains
  <2>4. x \in DOMAIN answering /\ i \in ToSet(answering[x])
    BY <1>5, <1>6, <1>7, <2>2
  <2>. QED
    BY <1>2, <1>3, <2>1, <2>3, <2>4 DEF LiveAnswers, Answering
<1>14. LiveAnswers(next, s) # {}
  <2>1. s \in DOMAIN answering /\ n \in ToSet(answering[s])
    BY <1>5, <1>6
  <2>. QED
    BY <1>2, <1>3, <2>1 DEF LiveAnswers, Answering, Minted
<1>. QED
  BY <1>2, <1>6, <1>12, <1>13, <1>14 DEF Mints, next

\* A record of which chain, now.
Moves(st, plan, record, source, dropped, i) ==
  LET r == IF i = Len(st.records) + 1 THEN record ELSE st.records[i]
  IN [r EXCEPT !.shape = IF i \in ToSet(source) THEN plan.shape ELSE r.shape,
               !.live = r.live /\ i \notin dropped]

\* A token carried on: its records move to the image, and the oldest die.
LEMMA MintAliasIsSound ==
  ASSUME NEW st, Registry(st), NEW plan, NEW record, Minted(st.book, plan, record), plan.alias # 0,
         Follows(st.book, plan), ~ MintAlias(st, plan, record).fault
  PROVE  Mints(st, MintAlias(st, plan, record), plan) /\ ~ st.fault
<1> DEFINE n == Len(st.records) + 1
           s == plan.shape
           a == plan.alias
           source == Answering(st, a)
           chain == Append(source, n)
           excess == IF Len(chain) > AliasCap THEN Len(chain) - AliasCap ELSE 0
           dropped == {chain[i] : i \in 1 .. excess}
           kept == SubSeq(chain, excess + 1, Len(chain))
           moved == [i \in 1 .. n |-> Moves(st, plan, record, source, dropped, i)]
           answering == Bind(Without(st.answering, {a}), s, kept)
           f == st.fault \/ source = << >> \/ s \in DOMAIN st.answering
           next == MintAlias(st, plan, record)
<1>0. next = [st EXCEPT !.records = moved, !.answering = answering, !.fault = f]
  BY Zenon DEF MintAlias, Moves
<1>1. DOMAIN st = States /\ IsSeq(st.records) /\ Len(st.records) \in Nat
  BY IsSeqIn DEF Registry
<1>2. /\ DOMAIN next = States /\ next.book = st.book /\ next.fault = f
      /\ next.records = moved /\ next.answering = answering
  <2> HIDE DEF f, moved, answering, next
  <2>. QED
    BY <1>0, <1>1 DEF States
<1>3. ~ st.fault /\ s \notin DOMAIN st.answering
  BY <1>2
<1>4. IsSeq(source) /\ \A i \in ToSet(source) : i \in 1 .. Len(st.records) /\ st.records[i].shape = a
  BY EmptyIsSeq DEF Answering, Registry, Chains
<1>5. IsSeq(chain) /\ ToSet(chain) = ToSet(source) \cup {n} /\ Len(chain) = Len(source) + 1
      /\ chain[Len(chain)] = n /\ Len(source) \in Nat
  BY <1>4, OneMore, IsSeqIn
<1> HIDE DEF chain
<1>6. /\ IsSeq(kept) /\ ToSet(kept) \subseteq ToSet(chain)
      /\ \A i \in ToSet(chain) : i \notin dropped => i \in ToSet(kept)
  <2>1. AliasCap \in Nat \ {0} /\ excess \in 0 .. Len(chain) /\ Len(chain) \in Nat /\ chain \in Seq(ToSet(chain))
        /\ DOMAIN chain = 1 .. Len(chain)
    BY <1>5, AliasCapAssumption, IsSeqIn
  <2> HIDE DEF excess
  <2> DEFINE S == ToSet(chain)
  <2>2. /\ kept \in Seq(S) /\ Len(kept) = Len(chain) - excess
        /\ \A i \in 1 .. Len(chain) - excess : kept[i] = chain[excess + i]
    <3> DEFINE m == excess + 1
               l == Len(chain)
    <3>1. m \in Int /\ l \in Int /\ \A i \in m .. l : chain[i] \in S
      BY <2>1
    <3>2. excess + 1 = m /\ l = Len(chain)
      OBVIOUS
    <3>3. kept = SubSeq(chain, m, l)
      OBVIOUS
    <3> HIDE DEF S, m, l, kept
    <3>4. /\ kept \in Seq(S) /\ Len(kept) = IF m <= l THEN l - m + 1 ELSE 0
          /\ \A i \in 1 .. l - m + 1 : kept[i] = chain[m + i - 1]
      BY <3>1, <3>3, SubSeqProperties
    <3>5. l - m + 1 = Len(chain) - excess
          /\ (IF m <= l THEN l - m + 1 ELSE 0) = Len(chain) - excess
          /\ \A i \in 1 .. Len(chain) - excess : m + i - 1 = excess + i
      BY <2>1, <3>2
    <3>. QED
      BY <3>4, <3>5
  <2> HIDE DEF kept
  <2>3. IsSeq(kept) /\ DOMAIN kept = 1 .. Len(kept) /\ ToSet(kept) \subseteq S
    <3> HIDE DEF S
    <3>. QED
      BY <2>2, SeqIsSeq
  <2>4. ASSUME NEW i \in ToSet(chain), i \notin dropped PROVE i \in ToSet(kept)
    <3>1. PICK k \in 1 .. Len(chain) : chain[k] = i
      BY <1>5, IsSeqIn
    <3>2. k > excess
      BY <2>1, <2>4, <3>1
    <3> DEFINE j == k - excess
    <3>3. j \in 1 .. Len(chain) - excess /\ excess + j = k
      BY <2>1, <3>1, <3>2
    <3> HIDE DEF j
    <3>4. kept[j] = i /\ j \in DOMAIN kept
      BY <2>2, <2>3, <3>1, <3>3
    <3>. QED
      BY <3>4 DEF ToSet
  <2>. QED
    BY <2>3, <2>4
<1>7. dropped \cap ({n} \cup ToSet(source)) = dropped
  <2>1. excess \in 0 .. Len(chain)
    BY <1>5, AliasCapAssumption
  <2> HIDE DEF excess
  <2>2. \A i \in 1 .. excess : chain[i] \in ToSet(chain)
    BY <1>5, <2>1, IsSeqIn
  <2>. QED
    BY <1>5, <2>2
<1> HIDE DEF kept, dropped, excess, source
<1>8. /\ IsSeq(moved) /\ Len(moved) = n
      /\ \A i \in 1 .. n : moved[i] = Moves(st, plan, record, source, dropped, i)
  <2>1. moved = [i \in 1 .. n |-> moved[i]] /\ n \in Nat
    BY <1>1
  <2>2. \A i \in 1 .. n : moved[i] = Moves(st, plan, record, source, dropped, i)
    OBVIOUS
  <2> HIDE DEF moved, n
  <2>. QED
    BY <2>1, <2>2, FunctionIsSeq
<1>9. /\ DOMAIN answering = (DOMAIN st.answering \ {a}) \cup {s} /\ answering[s] = kept
      /\ \A x \in DOMAIN st.answering \ {a} : answering[x] = st.answering[x]
  BY <1>3 DEF Bind, Without
<1> HIDE DEF moved, answering, next, f
<1>10. ASSUME NEW i \in 1 .. Len(st.records)
       PROVE  /\ DOMAIN moved[i] = Fields /\ moved[i].born = st.records[i].born
              /\ moved[i].name = st.records[i].name
              /\ moved[i].shape = IF i \in ToSet(source) THEN s ELSE st.records[i].shape
              /\ moved[i].live <=> st.records[i].live /\ i \notin dropped
  <2>1. i \in 1 .. n /\ i # n
    BY <1>1
  <2>2. DOMAIN st.records[i] = Fields
    BY DEF Registry
  <2>3. moved[i] = Moves(st, plan, record, source, dropped, i)
    BY <1>8, <2>1
  <2> DEFINE r == st.records[i]
             m == moved[i]
  <2>4. m = [r EXCEPT !.shape = IF i \in ToSet(source) THEN s ELSE r.shape,
                      !.live = r.live /\ i \notin dropped]
    BY <2>1, <2>3 DEF Moves
  <2> HIDE DEF r, m, s, n
  <2>5. DOMAIN r = Fields
    BY <2>2 DEF r
  <2>6. /\ DOMAIN m = Fields /\ m.born = r.born /\ m.name = r.name
        /\ m.shape = IF i \in ToSet(source) THEN s ELSE r.shape
        /\ m.live <=> r.live /\ i \notin dropped
    BY <2>4, <2>5 DEF Fields
  <2>. QED
    BY <2>6 DEF m, r
<1>11. /\ n \notin ToSet(source) /\ n \in 1 .. n
       /\ 1 .. n = 1 .. Len(st.records) \cup {n}
  BY <1>1, <1>4
<1>12. /\ DOMAIN moved[n] = Fields /\ moved[n].born = s /\ moved[n].shape = s
       /\ moved[n].name = record.name
       /\ moved[n].live <=> n \notin dropped
  <2>1. DOMAIN record = Fields /\ record.live /\ record.born = s /\ record.shape = s
    BY DEF Minted
  <2>2. moved[n] = Moves(st, plan, record, source, dropped, n)
    BY <1>8, <1>11
  <2>3. moved[n] = [record EXCEPT !.shape = s, !.live = record.live /\ n \notin dropped]
    BY <1>11, <2>1, <2>2 DEF Moves
  <2>4. moved[n].live <=> record.live /\ n \notin dropped
    BY <2>1, <2>3 DEF Fields
  <2>5. DOMAIN moved[n] = Fields /\ moved[n].born = s /\ moved[n].shape = s
        /\ moved[n].name = record.name
    BY <2>1, <2>3 DEF Fields
  <2>. QED
    BY <2>1, <2>4, <2>5
<1>13. ASSUME NEW x \in DOMAIN answering
       PROVE  IsSeq(answering[x]) /\ \A i \in ToSet(answering[x]) : i \in 1 .. n /\ moved[i].shape = x
  <2>1. CASE x = s
    <3>1. \A i \in ToSet(kept) : i = n \/ i \in ToSet(source)
      BY <1>5, <1>6
    <3>2. \A i \in ToSet(source) : i \in 1 .. n /\ moved[i].shape = s
      BY <1>4, <1>10, <1>11
    <3>. QED
      BY <1>6, <1>9, <1>11, <1>12, <2>1, <3>1, <3>2
  <2>2. CASE x # s
    <3>1. x \in DOMAIN st.answering /\ x # a /\ answering[x] = st.answering[x]
      BY <1>9, <2>2
    <3>2. IsSeq(st.answering[x])
          /\ \A i \in ToSet(st.answering[x]) : i \in 1 .. Len(st.records) /\ st.records[i].shape = x
      BY <3>1 DEF Registry, Chains
    <3>3. \A i \in ToSet(st.answering[x]) : i \notin ToSet(source)
      BY <1>4, <3>1, <3>2
    <3>. QED
      BY <1>10, <1>11, <3>1, <3>2, <3>3
  <2>. QED
    BY <2>1, <2>2
<1>14. Chains(next)
  BY <1>2, <1>8, <1>13 DEF Chains
<1>15. ASSUME NEW i \in 1 .. n, moved[i].live PROVE Speaks(next, i)
  <2>1. CASE i = n
    <3>0. i \notin dropped /\ i \in ToSet(chain)
      BY <1>5, <1>12, <1>15, <2>1
    <3>1. i \in ToSet(kept)
      BY <1>6, <3>0
    <3>. QED
      BY <1>2, <1>9, <1>12, <2>1, <3>1 DEF Minted, Speaks
  <2>2. CASE i \in ToSet(source)
    <3>1. i \in 1 .. Len(st.records) /\ st.records[i].shape = a /\ st.records[i].live /\ i \notin dropped
      BY <1>4, <1>10, <1>15, <2>2
    <3>2. Speaks(st, i)
      BY <3>1 DEF Registry
    <3>3. i \in ToSet(kept)
      BY <1>5, <1>6, <2>2, <3>1
    <3>4. moved[i].shape = s /\ moved[i].name = st.records[i].name /\ moved[i].born = st.records[i].born
      BY <1>10, <2>2, <3>1
    <3>5. /\ st.records[i].name = NormalizeName(st.book[s])
          /\ st.records[i].born \in shapes[s].continues
      BY <3>1, <3>2 DEF Speaks, Follows
    <3>. QED
      BY <1>2, <1>9, <3>3, <3>4, <3>5 DEF Minted, Speaks
  <2>3. CASE i # n /\ i \notin ToSet(source)
    <3>1. i \in 1 .. Len(st.records) /\ st.records[i].live
      BY <1>10, <1>11, <1>15, <2>3
    <3>2. Speaks(st, i)
      BY <3>1 DEF Registry
    <3> DEFINE x == st.records[i].shape
    <3>3. x \in DOMAIN st.answering /\ i \in ToSet(st.answering[x])
      BY <3>2 DEF Speaks
    <3>4. x # a
      BY <2>3, <3>3 DEF source, Answering
    <3>5. x \in DOMAIN answering /\ i \in ToSet(answering[x])
      BY <1>9, <3>3, <3>4
    <3>6. moved[i].shape = x /\ moved[i].name = st.records[i].name /\ moved[i].born = st.records[i].born
      BY <1>10, <2>3, <3>1
    <3>. QED
      BY <1>2, <3>2, <3>5, <3>6 DEF Speaks
  <2>. QED
    BY <2>1, <2>2, <2>3
<1>16. \A i \in 1 .. n : DOMAIN moved[i] = Fields
  BY <1>10, <1>11, <1>12
<1>17. Registry(next)
  BY <1>2, <1>8, <1>14, <1>15, <1>16 DEF Registry
<1>18. ASSUME NEW x, x # a, LiveAnswers(st, x) # {} PROVE LiveAnswers(next, x) # {}
  <2>1. PICK i \in ToSet(Answering(st, x)) : st.records[i].live
    BY <1>18 DEF LiveAnswers
  <2>2. x \in DOMAIN st.answering /\ i \in ToSet(st.answering[x])
    BY <2>1, EmptyIsSeq DEF Answering
  <2>3. i \in 1 .. Len(st.records) /\ st.records[i].shape = x
    BY <2>2 DEF Registry, Chains
  <2>4. i \notin ToSet(source) /\ i # n
    BY <1>1, <1>4, <1>18, <2>3
  <2>5. i \notin dropped
    BY <1>7, <2>4
  <2>6. x \in DOMAIN answering /\ i \in ToSet(answering[x])
    BY <1>9, <1>18, <2>2
  <2>. QED
    BY <1>2, <1>10, <2>1, <2>3, <2>5, <2>6 DEF LiveAnswers, Answering
<1>19. DOMAIN answering \subseteq (DOMAIN st.answering \cup {s}) \ ({a} \ {0})
  BY <1>9 DEF Follows
<1>. QED
  BY <1>2, <1>3, <1>17, <1>18, <1>19 DEF Mints, next

\* A fault stays.
LEMMA MintFaults ==
  ASSUME NEW st, DOMAIN st = States, NEW plan, NEW record
  PROVE  /\ DOMAIN Mint(st, plan, record) = States
         /\ ~ Mint(st, plan, record).fault =>
              /\ ~ st.fault
              /\ plan.alias # 0 => ~ MintAlias(st, plan, record).fault
              /\ Mint(st, plan, record) = IF plan.alias # 0 THEN MintAlias(st, plan, record)
                                          ELSE MintOwn(st, plan, record)
<1> DEFINE failed == [st EXCEPT !.fault = TRUE]
           own == MintOwn(st, plan, record)
           alias == MintAlias(st, plan, record)
<1>1. DOMAIN failed = States /\ failed.fault
  BY DEF States
<1>2. DOMAIN own = States /\ own.fault = st.fault
  BY DEF MintOwn, States
<1>3. DOMAIN alias = States /\ (~ alias.fault => ~ st.fault)
  <2> DEFINE source == Answering(st, plan.alias)
             f == st.fault \/ source = << >> \/ plan.shape \in DOMAIN st.answering
  <2>1. \E records, answering : alias = [st EXCEPT !.records = records, !.answering = answering, !.fault = f]
    BY Zenon DEF MintAlias
  <2>2. f \/ ~ st.fault
    OBVIOUS
  <2> HIDE DEF f, alias
  <2>3. DOMAIN alias = States /\ alias.fault = f
    BY <2>1 DEF States
  <2>. QED
    BY <2>2, <2>3
<1>4. Mint(st, plan, record) = IF FindByToken(st, record.token) # {} THEN failed
                               ELSE IF plan.alias # 0 THEN alias ELSE own
  BY DEF Mint
<1> HIDE DEF failed, own, alias
<1>. QED
  BY <1>1, <1>2, <1>3, <1>4 DEF own, alias

\* One record of MintBuckets.
LEMMA MintIsSound ==
  ASSUME NEW st, Registry(st), NEW plan, NEW record, Minted(st.book, plan, record),
         plan.alias # 0 => Follows(st.book, plan), ~ Mint(st, plan, record).fault
  PROVE  Mints(st, Mint(st, plan, record), plan)
<1>1. DOMAIN st = States
  BY DEF Registry
<1>2. CASE plan.alias = 0
  <2>1. Mint(st, plan, record) = MintOwn(st, plan, record)
    BY <1>1, <1>2, MintFaults
  <2>. QED
    BY <1>2, <2>1, MintOwnIsSound
<1>3. CASE plan.alias # 0
  <2>1. Mint(st, plan, record) = MintAlias(st, plan, record) /\ ~ MintAlias(st, plan, record).fault
    BY <1>1, <1>3, MintFaults
  <2>. QED
    BY <1>3, <2>1, MintAliasIsSound
<1>. QED
  BY <1>2, <1>3

(***************************************************************************)
(* The plans of one harvest.                                               *)
(***************************************************************************)
ShapesOf(plans) == {p.shape : p \in plans}
AliasesOf(plans) == {p.alias : p \in plans} \ {0}
Sane(plan, book) ==
  /\ plan.shape \in DOMAIN book /\ plan.shape \in 1 .. Len(shapes)
  /\ plan.shape \in shapes[plan.shape].continues
  /\ plan.alias # 0 => Follows(book, plan)
Plans(plans, book) ==
  /\ IsFiniteSet(plans)
  /\ \A p \in plans : Sane(p, book)
  /\ ShapesOf(plans) \cap AliasesOf(plans) = {}

\* What minting a set of plans gives.
Harvests(st, next, plans) ==
  /\ Registry(next) /\ next.book = st.book
  /\ DOMAIN next.answering \subseteq (DOMAIN st.answering \cup ShapesOf(plans)) \ AliasesOf(plans)
  /\ \A x : (x \notin AliasesOf(plans) /\ LiveAnswers(st, x) # {}) => LiveAnswers(next, x) # {}
  /\ \A p \in plans : p.alias = 0 => LiveAnswers(next, p.shape) # {}

BucketStep(st, ordered, record, g, i) ==
  IF i = 0 THEN st ELSE Mint(g[i - 1], ordered[i], record[i])
BucketEquation(g, st, ordered, record, N) ==
  g = [i \in 0 .. N |-> BucketStep(st, ordered, record, g, i)]

\* The equation of MintBuckets has a solution.
LEMMA BucketExists ==
  ASSUME NEW st, NEW ordered, NEW record, NEW N \in Nat
  PROVE  \E g : BucketEquation(g, st, ordered, record, N)
<1> DEFINE S == {n \in Nat : \E g : BucketEquation(g, st, ordered, record, n)}
<1>1. 0 \in S
  <2>1. BucketEquation([n \in 0 .. 0 |-> st], st, ordered, record, 0)
    BY DEF BucketEquation, BucketStep
  <2>. QED
    BY <2>1
<1>2. ASSUME NEW n \in Nat, n \in S PROVE n + 1 \in S
  <2>1. PICK g : BucketEquation(g, st, ordered, record, n)
    BY <1>2
  <2> DEFINE next == Mint(g[n], ordered[n + 1], record[n + 1])
             h == [k \in 0 .. n + 1 |-> IF k = n + 1 THEN next ELSE g[k]]
  <2>2. \A k \in 0 .. n : g[k] = BucketStep(st, ordered, record, g, k)
    BY <2>1 DEF BucketEquation
  <2>3. \A k \in 0 .. n + 1 : h[k] = BucketStep(st, ordered, record, h, k)
    BY <2>2 DEF BucketStep
  <2>4. h = [k \in 0 .. n + 1 |-> h[k]]
    OBVIOUS
  <2> HIDE DEF h
  <2>5. BucketEquation(h, st, ordered, record, n + 1)
    BY <2>3, <2>4 DEF BucketEquation
  <2>. QED
    BY <2>5
<1> HIDE DEF S
<1>3. N \in S
  BY <1>1, <1>2, Counting
<1>. QED
  BY <1>3 DEF S

\* The plans in order, their records and the states on the way.
Unfolds(st, op, out, plans, ordered, record, g) ==
  /\ IsSeq(ordered) /\ ToSet(ordered) = plans
  /\ \A i \in 1 .. Len(ordered) : \E o : record[i] = NewRecord(st, op, out, o, plans, ordered[i])
  /\ \A i \in 0 .. Len(ordered) : g[i] = BucketStep(st, ordered, record, g, i)
  /\ MintBuckets(st, op, out, plans) = g[Len(ordered)]

\* MintBuckets can be computed plan by plan.
LEMMA BucketsUnfold ==
  ASSUME NEW st, NEW op, NEW out, NEW plans, IsFiniteSet(plans)
  PROVE  \E ordered, record, g : Unfolds(st, op, out, plans, ordered, record, g)
<1> DEFINE ordered == InSomeOrder(plans)
           N == Len(ordered)
           ordinal(i) == Cardinality({j \in 1 .. i - 1 : ordered[j].role = ordered[i].role})
           record == [i \in 1 .. N |-> NewRecord(st, op, out, ordinal(i), plans, ordered[i])]
           minted == CHOOSE g : g = [i \in 0 .. N |->
                       IF i = 0 THEN st
                       ELSE Mint(g[i - 1], ordered[i],
                                 NewRecord(st, op, out, ordinal(i), plans, ordered[i]))]
<1>1. MintBuckets(st, op, out, plans) = minted[N]
  BY Zenon DEF MintBuckets
<1>2. /\ IsSeq(ordered) /\ ToSet(ordered) = plans /\ N \in Nat
      /\ \A i \in 1 .. N : ordered[i] \in plans
      /\ \A p \in plans : \E i \in 1 .. N : ordered[i] = p
  <2>1. IsSeq(ordered) /\ ToSet(ordered) = plans
    BY LaidOut
  <2> HIDE DEF ordered
  <2>. QED
    BY <2>1, IsSeqIn
<1> HIDE DEF ordered
<1>3. \A g : BucketEquation(g, st, ordered, record, N) <=>
               g = [i \in 0 .. N |->
                       IF i = 0 THEN st
                       ELSE Mint(g[i - 1], ordered[i],
                                 NewRecord(st, op, out, ordinal(i), plans, ordered[i]))]
  <2> SUFFICES ASSUME NEW g
               PROVE  [i \in 0 .. N |-> BucketStep(st, ordered, record, g, i)] =
                      [i \in 0 .. N |->
                       IF i = 0 THEN st
                       ELSE Mint(g[i - 1], ordered[i],
                                 NewRecord(st, op, out, ordinal(i), plans, ordered[i]))]
    BY DEF BucketEquation
  <2> HIDE DEF ordinal
  <2>1. \A i \in 1 .. N : record[i] = NewRecord(st, op, out, ordinal(i), plans, ordered[i])
    OBVIOUS
  <2> HIDE DEF record
  <2>2. \A i \in 0 .. N : i # 0 => i \in 1 .. N
    BY <1>2
  <2>. QED
    BY <2>1, <2>2 DEF BucketStep
<1>4. BucketEquation(minted, st, ordered, record, N)
  <2>1. \E g : BucketEquation(g, st, ordered, record, N)
    BY <1>2, BucketExists
  <2> HIDE DEF ordinal, record, N
  <2>. QED
    BY <1>3, <2>1, Zenon
<1> HIDE DEF minted
<1>5. \A i \in 0 .. N : minted[i] = BucketStep(st, ordered, record, minted, i)
  <2> HIDE DEF ordinal, record, N
  <2>. QED
    BY <1>4 DEF BucketEquation
<1>6. \A i \in 1 .. N : \E o : record[i] = NewRecord(st, op, out, o, plans, ordered[i])
  OBVIOUS
<1> HIDE DEF ordinal, record
<1>7. Unfolds(st, op, out, plans, ordered, record, minted)
  BY <1>1, <1>2, <1>5, <1>6 DEF Unfolds
<1>. QED
  BY <1>7, Zenon

\* A fault stays.
LEMMA BucketsFault ==
  ASSUME NEW st, DOMAIN st = States, NEW op, NEW out, NEW plans, IsFiniteSet(plans)
  PROVE  LET next == MintBuckets(st, op, out, plans)
         IN  DOMAIN next = States /\ (~ next.fault => ~ st.fault)
<1> DEFINE next == MintBuckets(st, op, out, plans)
<1>1. PICK ordered, record, minted : Unfolds(st, op, out, plans, ordered, record, minted)
  BY BucketsUnfold
<1> DEFINE N == Len(ordered)
           S == {n \in Nat : n <= N =>
                   DOMAIN minted[n] = States /\ (~ minted[n].fault => ~ st.fault)}
<1>2. N \in Nat /\ (\A i \in 0 .. N : minted[i] = BucketStep(st, ordered, record, minted, i))
      /\ next = minted[N]
  BY <1>1, IsSeqIn DEF Unfolds
<1> HIDE DEF next
<1>3. 0 \in S
  BY <1>2 DEF BucketStep
<1>4. ASSUME NEW n \in Nat, n \in S PROVE n + 1 \in S
  <2> SUFFICES ASSUME n + 1 <= N
               PROVE  DOMAIN minted[n + 1] = States /\ (~ minted[n + 1].fault => ~ st.fault)
    OBVIOUS
  <2>1. n + 1 \in 0 .. N /\ n + 1 # 0 /\ (n + 1) - 1 = n
    BY <1>2
  <2>2. minted[n + 1] = Mint(minted[n], ordered[n + 1], record[n + 1])
    BY <1>2, <2>1 DEF BucketStep
  <2>3. DOMAIN minted[n] = States /\ (~ minted[n].fault => ~ st.fault)
    BY <1>2, <1>4
  <2>. QED
    BY <2>2, <2>3, MintFaults
<1> HIDE DEF S
<1>5. N \in S
  BY <1>2, <1>3, <1>4, Counting
<1>6. DOMAIN minted[N] = States /\ (~ minted[N].fault => ~ st.fault)
  <2>1. N <= N
    BY <1>2
  <2>. QED
    BY <1>5, <2>1 DEF S
<1> HIDE DEF N
<1>7. DOMAIN next = States /\ (~ next.fault => ~ st.fault)
  BY <1>2, <1>6
<1>. QED
  BY <1>7 DEF next

\* MintBuckets: all of a harvest's plans.
LEMMA BucketsAreSound ==
  ASSUME NEW st, Registry(st), NEW op, NEW out, NEW plans, Plans(plans, st.book)
  PROVE  LET next == MintBuckets(st, op, out, plans)
         IN  DOMAIN next = States /\ (~ next.fault => ~ st.fault /\ Harvests(st, next, plans))
<1> DEFINE next == MintBuckets(st, op, out, plans)
<1>0. PICK ordered, record, minted : Unfolds(st, op, out, plans, ordered, record, minted)
  BY BucketsUnfold DEF Plans
<1> DEFINE N == Len(ordered)
<1>1. next = minted[N]
  BY <1>0 DEF Unfolds
<1>2. /\ IsSeq(ordered) /\ ToSet(ordered) = plans /\ N \in Nat
      /\ \A i \in 1 .. N : ordered[i] \in plans
      /\ \A p \in plans : \E i \in 1 .. N : ordered[i] = p
  BY <1>0, IsSeqIn DEF Unfolds
<1>5. \A i \in 0 .. N : minted[i] = BucketStep(st, ordered, record, minted, i)
  BY <1>0 DEF Unfolds
<1>6. ASSUME NEW i \in 1 .. N PROVE Minted(st.book, ordered[i], record[i])
  <2> DEFINE p == ordered[i]
  <2>1. Sane(p, st.book)
    BY <1>2 DEF Plans
  <2>2. PICK o : record[i] = NewRecord(st, op, out, o, plans, p)
    BY <1>0 DEF Unfolds
  <2> HIDE DEF p
  <2> DEFINE c == Twins(st, plans, p) # {p}
  <2>3. record[i] = [token |-> <<op, out, p.role, o>>, shape |-> p.shape, born |-> p.shape,
                     kind |-> Kind(p.shape), name |-> NormalizeName(st.book[p.shape]),
                     ancestors |-> p.ancestors, live |-> TRUE, collision |-> c]
    BY <2>2, Zenon DEF NewRecord
  <2> HIDE DEF c
  <2>. QED
    BY <2>1, <2>3 DEF Minted, Sane, Fields, p
<1> HIDE DEF next
<1> DEFINE Before(i) == {ordered[k] : k \in 1 .. i}
           S == {n \in Nat : n <= N =>
                   /\ DOMAIN minted[n] = States
                   /\ ~ minted[n].fault => ~ st.fault /\ Harvests(st, minted[n], Before(n))}
<1>7. 0 \in S
  <2>1. minted[0] = st
    BY <1>2, <1>5 DEF BucketStep
  <2>2. Before(0) = {}
    OBVIOUS
  <2> HIDE DEF Before
  <2>3. Harvests(st, st, Before(0))
    BY <2>2 DEF Harvests, ShapesOf, AliasesOf
  <2>4. DOMAIN st = States
    BY DEF Registry
  <2>. QED
    BY <2>1, <2>3, <2>4
<1>8. ASSUME NEW n \in Nat, n \in S PROVE n + 1 \in S
  <2> SUFFICES ASSUME n + 1 <= N
               PROVE  /\ DOMAIN minted[n + 1] = States
                      /\ ~ minted[n + 1].fault =>
                           ~ st.fault /\ Harvests(st, minted[n + 1], Before(n + 1))
    OBVIOUS
  <2> DEFINE mid == minted[n]
             p == ordered[n + 1]
             r == record[n + 1]
  <2>1. n + 1 \in 1 .. N /\ n + 1 \in 0 .. N /\ n + 1 # 0 /\ (n + 1) - 1 = n
    BY <1>2
  <2>2. minted[n + 1] = Mint(mid, p, r)
    BY <1>5, <2>1 DEF BucketStep
  <2>3. DOMAIN mid = States /\ (~ mid.fault => ~ st.fault /\ Harvests(st, mid, Before(n)))
    BY <1>2, <1>8
  <2>4. Before(n + 1) = Before(n) \cup {p} /\ Before(n + 1) \subseteq plans /\ p \in plans
    BY <1>2, <2>1
  <2>5. Minted(st.book, p, r)
    BY <1>6, <2>1
  <2> HIDE DEF Before, mid, p, r, S, N
  <2> SUFFICES ASSUME ~ Mint(mid, p, r).fault
               PROVE  ~ st.fault /\ Harvests(st, Mint(mid, p, r), Before(n + 1))
    BY <2>2, <2>3, MintFaults
  <2>6. ~ mid.fault
    BY <2>3, MintFaults
  <2>7. Harvests(st, mid, Before(n)) /\ ~ st.fault
    BY <2>3, <2>6
  <2>8. Registry(mid) /\ mid.book = st.book
    BY <2>7 DEF Harvests
  <2>9. Sane(p, st.book)
    BY <2>4 DEF Plans
  <2>10. Mints(mid, Mint(mid, p, r), p)
    BY <2>5, <2>8, <2>9, MintIsSound DEF Sane
  <2> DEFINE end == Mint(mid, p, r)
  <2> HIDE DEF end
  <2>11. /\ ShapesOf(Before(n + 1)) = ShapesOf(Before(n)) \cup {p.shape}
         /\ AliasesOf(Before(n + 1)) = AliasesOf(Before(n)) \cup ({p.alias} \ {0})
    BY <2>4 DEF ShapesOf, AliasesOf
  <2>12. /\ AliasesOf(Before(n + 1)) \subseteq AliasesOf(plans)
         /\ ShapesOf(Before(n + 1)) \subseteq ShapesOf(plans)
    BY <2>4 DEF AliasesOf, ShapesOf
  <2>13. ShapesOf(plans) \cap AliasesOf(plans) = {}
    BY DEF Plans
  <2>14. DOMAIN end.answering \subseteq
           (DOMAIN st.answering \cup ShapesOf(Before(n + 1))) \ AliasesOf(Before(n + 1))
    <3>1. DOMAIN end.answering \subseteq (DOMAIN mid.answering \cup {p.shape}) \ ({p.alias} \ {0})
      BY <2>10 DEF Mints, end
    <3>2. DOMAIN mid.answering \subseteq
            (DOMAIN st.answering \cup ShapesOf(Before(n))) \ AliasesOf(Before(n))
      BY <2>7 DEF Harvests
    <3>3. p.shape \notin AliasesOf(Before(n + 1))
      BY <2>11, <2>12, <2>13
    <3>. QED
      BY <2>11, <3>1, <3>2, <3>3
  <2>15. ASSUME NEW x, x \notin AliasesOf(Before(n + 1)), LiveAnswers(st, x) # {}
         PROVE  LiveAnswers(end, x) # {}
    <3>1. LiveAnswers(mid, x) # {}
      BY <2>7, <2>11, <2>15 DEF Harvests
    <3>2. x \notin {p.alias} \ {0}
      BY <2>11, <2>15
    <3>. QED
      BY <2>10, <3>1, <3>2 DEF Mints, end
  <2>16. ASSUME NEW q \in Before(n + 1), q.alias = 0
         PROVE  LiveAnswers(end, q.shape) # {}
    <3>1. CASE q = p
      BY <2>10, <2>16, <3>1 DEF Mints, end
    <3>2. CASE q # p
      <4>1. q \in Before(n)
        BY <2>4, <3>2
      <4>2. LiveAnswers(mid, q.shape) # {}
        BY <2>7, <2>16, <4>1 DEF Harvests
      <4>3. q.shape \in ShapesOf(plans) /\ {p.alias} \ {0} \subseteq AliasesOf(plans)
        BY <2>4, <4>1 DEF ShapesOf, AliasesOf
      <4>. QED
        BY <2>10, <2>13, <4>2, <4>3 DEF Mints, end
    <3>. QED
      BY <3>1, <3>2
  <2>17. Registry(end) /\ end.book = st.book
    BY <2>8, <2>10 DEF Mints, end
  <2>. QED
    BY <2>7, <2>14, <2>15, <2>16, <2>17 DEF Harvests, end
<1> HIDE DEF S
<1>9. N \in S
  BY <1>2, <1>7, <1>8, Counting
<1>10. Before(N) = plans
  BY <1>2
<1>11. DOMAIN minted[N] = States
       /\ (~ minted[N].fault => ~ st.fault /\ Harvests(st, minted[N], Before(N)))
  <2>1. N <= N
    BY <1>2
  <2>. QED
    BY <1>9, <2>1 DEF S
<1> HIDE DEF Before, N
<1>12. DOMAIN next = States /\ (~ next.fault => ~ st.fault /\ Harvests(st, next, plans))
  BY <1>1, <1>10, <1>11
<1>. QED
  BY <1>12 DEF next

PartsIn(inputs) == [k \in DOMAIN inputs |-> inputs[k].parts]
\* The target first, then a tool.
InputsFit(inputs) ==
  /\ DOMAIN inputs = 1 .. Len(inputs) /\ Inputs(PartsIn(inputs))
  /\ Len(PartsIn(inputs)) = Len(inputs)
  /\ ~ inputs[1].tool /\ ~ inputs[1].synthetic
  /\ Len(inputs) = 2 => inputs[2].tool

\* Contains asks what is in a sequence.
LEMMA ContainsIsIn ==
  ASSUME NEW s, IsSeq(s), NEW x
  PROVE  Contains(s, x) <=> x \in ToSet(s)
  BY IsSeqIn DEF Contains

\* Of several sources the heir is the first.
LEMMA HeirIsFirst ==
  ASSUME NEW inputs, InputsFit(inputs),
         NEW parents, parents \subseteq DOMAIN Sources(PartsIn(inputs)), parents # {}
  PROVE  Heir(Sources(PartsIn(inputs)), inputs, parents) = Min(parents)
<1> DEFINE sources == Sources(PartsIn(inputs))
           parts == PartsIn(inputs)
           whose(i) == {k \in DOMAIN inputs : Contains(inputs[k].parts, sources[i])}
           rank(i) == (IF InputOf(sources, inputs, i).tool THEN 2 ELSE 0)
                      + (IF InputOf(sources, inputs, i).synthetic THEN 1 ELSE 0)
           m == Min(parents)
<1>1. /\ Len(inputs) \in {1, 2} /\ DOMAIN inputs = 1 .. Len(inputs)
      /\ \A k \in 1 .. Len(inputs) : IsSeq(inputs[k].parts) /\ parts[k] = inputs[k].parts
  <2>1. \A k \in DOMAIN inputs : parts[k] = inputs[k].parts
    BY DEF PartsIn
  <2> HIDE DEF parts
  <2>. QED
    BY <2>1 DEF InputsFit, Inputs, parts
<1>2. PICK n : Split(parts, sources, n)
  BY SourcesSplit DEF InputsFit
<1>3. DOMAIN sources = 1 .. Len(sources) /\ Len(sources) \in Nat /\ n \in Nat
  <2> HIDE DEF sources
  <2>. QED
    BY <1>2, IsSeqIn DEF Split
<1>4. parents \subseteq Nat /\ \A i \in parents : i \in 1 .. Len(sources)
  BY <1>3
<1> HIDE DEF sources, parts
<1>5. ASSUME NEW i \in parents
      PROVE  (i <= n => rank(i) = 0) /\ (i > n => rank(i) = rank(n + 1) /\ rank(i) \in {2, 3})
  <2>1. \A k \in 1 .. Len(inputs) : Contains(inputs[k].parts, sources[i]) <=> sources[i] \in ToSet(parts[k])
    BY <1>1, ContainsIsIn
  <2>2. CASE i <= n
    <3>1. i \in 1 .. n
      BY <1>3, <1>4, <2>2
    <3>2. 1 \in whose(i) /\ whose(i) \subseteq Nat /\ \A k \in whose(i) : 1 <= k
      BY <1>1, <1>2, <2>1, <3>1 DEF Split
    <3>3. Min(whose(i)) = 1
      <4> HIDE DEF whose
      <4>1. Min(whose(i)) \in whose(i) /\ Min(whose(i)) <= 1
        BY <3>2, LeastIn
      <4>. QED
        BY <3>2, <4>1
    <3>4. InputOf(sources, inputs, i) = inputs[1]
      BY <3>3 DEF InputOf
    <3>. QED
      BY <1>3, <2>2, <3>4 DEF InputsFit
  <2>3. CASE i > n
    <3>1. i \in n + 1 .. Len(sources) /\ n + 1 \in n + 1 .. Len(sources) /\ n < Len(sources)
      BY <1>3, <1>4, <2>3
    <3>2. Len(inputs) = 2
      BY <1>2, <3>1 DEF Split, InputsFit, parts
    <3>3. \A j \in n + 1 .. Len(sources) : sources[j] \in ToSet(parts[2]) /\ sources[j] \notin ToSet(parts[1])
      BY <1>2 DEF Split
    <3>4. ASSUME NEW j \in n + 1 .. Len(sources) PROVE InputOf(sources, inputs, j) = inputs[2]
      <4>1. \A k \in 1 .. Len(inputs) : Contains(inputs[k].parts, sources[j]) <=> sources[j] \in ToSet(parts[k])
        BY <1>1, ContainsIsIn
      <4>2. whose(j) = {2}
        BY <1>1, <3>2, <3>3, <4>1
      <4>3. Min(whose(j)) = 2
        <5> HIDE DEF whose
        <5>1. Min(whose(j)) \in whose(j)
          BY <4>2, LeastIn
        <5>. QED
          BY <4>2, <5>1
      <4>. QED
        BY <4>3 DEF InputOf
    <3>5. inputs[2].tool
      BY <3>2 DEF InputsFit
    <3>. QED
      BY <1>3, <2>3, <3>1, <3>4, <3>5
  <2>. QED
    BY <1>3, <1>4, <2>2, <2>3
<1>6. m \in parents /\ \A j \in parents : m <= j
  BY <1>4, LeastIn
<1> HIDE DEF rank, m
<1>7. rank(n + 1) \in {2, 3} \/ \A i \in parents : i <= n
  BY <1>3, <1>4, <1>5
<1>8. \A j \in parents : rank(m) < rank(j) \/ (rank(m) = rank(j) /\ m <= j)
  BY <1>3, <1>4, <1>5, <1>6, <1>7
<1>9. ASSUME NEW i \in parents, \A j \in parents : rank(i) < rank(j) \/ (rank(i) = rank(j) /\ i <= j)
      PROVE  i = m
  <2>1. rank(i) < rank(m) \/ (rank(i) = rank(m) /\ i <= m)
    BY <1>6, <1>9
  <2>2. rank(m) < rank(i) \/ (rank(m) = rank(i) /\ m <= i)
    BY <1>8
  <2>3. rank(i) \in 0 .. 3 /\ rank(m) \in 0 .. 3 /\ i \in Nat /\ m \in Nat
    BY <1>3, <1>4, <1>5, <1>6
  <2>. QED
    BY <2>1, <2>2, <2>3
<1>10. Heir(sources, inputs, parents) =
         CHOOSE i \in parents : \A j \in parents : rank(i) < rank(j) \/ (rank(i) = rank(j) /\ i <= j)
  BY Zenon DEF Heir, rank
<1>. QED
  BY <1>6, <1>8, <1>9, <1>10 DEF m, sources

\* What a result and a history must be for an operation to be harvested.
Fits(inputs, result, history) ==
  LET sources == Sources(PartsIn(inputs))
  IN /\ InputsFit(inputs) /\ IsSeq(result) /\ ToSet(result) \subseteq 1 .. Len(shapes)
     /\ \A x \in ToSet(result) : x \in shapes[x].continues
     /\ \A s \in ToSet(sources) :
          /\ ImagesIn(history, "modified", s) \subseteq ToSet(result) \ ToSet(sources)
          /\ \A x \in ToSet(result) :
               ImagesIn(history, "modified", s) = {x} => shapes[s].continues \subseteq shapes[x].continues

\* Where an entity carries on the token of its source.
Carries(inputs, result, history, x, alias) ==
  LET sources == Sources(PartsIn(inputs))
      i == Min(Modified(sources, history, x))
  IN /\ Modified(sources, history, x) # {} /\ alias = sources[i]
     /\ Images(sources, result, history, i) = {x}

\* A plan is for its entity, and carries a token on as CarriesOn says.
LEMMA PlanOfEntity ==
  ASSUME NEW st, NEW class, NEW inputs, InputsFit(inputs), NEW result, NEW history, NEW x
  PROVE  LET plan == PlanOf(st, class, Sources(PartsIn(inputs)), inputs, result, history, x)
         IN  /\ plan.shape = x
             /\ plan.alias = 0 \/ Carries(inputs, result, history, x, plan.alias)
<1> DEFINE sources == Sources(PartsIn(inputs))
           modified == Parents(sources, history, "modified", x)
           generated == Parents(sources, history, "generated", x)
           tool(i) == InputOf(sources, inputs, i).tool
           ancestors == {NewestTokenOf(st, sources[i]) : i \in modified \cup generated}
           heir == Heir(sources, inputs, modified)
           given(role, alias) == [shape |-> x, role |-> role, ancestors |-> ancestors, alias |-> alias]
           carried == IF CarriesOn(sources, inputs, result, history, heir, x) THEN sources[heir] ELSE 0
           plan == PlanOf(st, class, sources, inputs, result, history, x)
<1>1. \/ modified # {} /\ \E role : plan = given(role, carried)
      \/ \E role : plan = given(role, 0)
      \/ \E role : plan = [PlanFor(x, role) EXCEPT !.ancestors = {NewestTokenOf(st, x)}]
  <2> HIDE DEF modified, generated
  <2> DEFINE fresh == IF tool(heir) /\ \E i \in generated : ~ tool(i)
                      THEN RoleForGenerated(class, FALSE, Kind(x))
                      ELSE RoleForModified(class, tool(heir), Kind(x))
             c2 == modified = {} /\ Cardinality(generated) = 1
             c3 == modified = {} /\ Cardinality(generated) > 1
             c4 == modified = {} /\ generated = {} /\ Contains(sources, x)
             r2 == RoleForGenerated(class, tool(Min(generated)), Kind(x))
             r3 == RoleForSection(class, Kind(x))
             r4 == RoleForModified(class, TRUE, Kind(x))
             r5 == RoleForUnattributed(class, Kind(x))
  <2>1. plan = CASE modified # {} -> given(fresh, carried)
                 [] c2 -> given(r2, 0)
                 [] c3 -> given(r3, 0)
                 [] c4 -> [PlanFor(x, r4) EXCEPT !.ancestors = {NewestTokenOf(st, x)}]
                 [] OTHER -> given(r5, 0)
    BY Zenon DEF PlanOf, modified, generated
  <2> HIDE DEF fresh, c2, c3, c4, r2, r3, r4, r5, given, carried, plan
  <2>2. \/ modified # {} /\ plan = given(fresh, carried)
        \/ plan = given(r2, 0) \/ plan = given(r3, 0) \/ plan = given(r5, 0)
        \/ plan = [PlanFor(x, r4) EXCEPT !.ancestors = {NewestTokenOf(st, x)}]
    <3>1. c2 => modified = {}
      BY DEF c2
    <3>2. c3 => modified = {}
      BY DEF c3
    <3>3. c4 => modified = {}
      BY DEF c4
    <3>4. ~ (c2 /\ c3)
      BY DEF c2, c3
    <3>. QED
      BY <2>1, <3>1, <3>2, <3>3
  <2>. QED
    BY <2>2
<1>2. ASSUME NEW role PROVE [PlanFor(x, role) EXCEPT !.ancestors = {NewestTokenOf(st, x)}].alias = 0
                             /\ [PlanFor(x, role) EXCEPT !.ancestors = {NewestTokenOf(st, x)}].shape = x
  BY DEF PlanFor
<1>3. \A role, alias : given(role, alias).shape = x /\ given(role, alias).alias = alias
  OBVIOUS
<1>4. ASSUME modified # {}, carried # 0 PROVE Carries(inputs, result, history, x, carried)
  <2>1. heir = Min(modified)
    <3>1. modified \subseteq DOMAIN sources
      BY DEF Parents
    <3>. QED
      BY <1>4, <3>1, HeirIsFirst
  <2>2. CarriesOn(sources, inputs, result, history, heir, x) /\ carried = sources[heir]
    BY <1>4
  <2>. QED
    BY <1>4, <2>1, <2>2, Zenon DEF Carries, CarriesOn, Modified
<1> DEFINE other(role) == [PlanFor(x, role) EXCEPT !.ancestors = {NewestTokenOf(st, x)}]
<1>n. \A role : other(role).shape = x /\ other(role).alias = 0
  BY <1>2
<1>m. \/ modified # {} /\ \E role : plan = given(role, carried)
      \/ \E role : plan = given(role, 0)
      \/ \E role : plan = other(role)
  BY <1>1, Zenon
<1> HIDE DEF given, carried, plan, modified, other
<1>5. plan.shape = x /\ (plan.alias = 0 \/ (modified # {} /\ plan.alias = carried))
  BY <1>3, <1>m, <1>n
<1>6. plan.shape = x /\ (plan.alias = 0 \/ Carries(inputs, result, history, x, plan.alias))
  BY <1>4, <1>5
<1>. QED
  BY <1>6, Zenon DEF plan

\* The fault of a registry is no part of its soundness.
LEMMA OnlyRecordsCount ==
  ASSUME NEW st, Registry(st), NEW next, DOMAIN next = States, next.book = st.book,
         next.records = st.records, next.answering = st.answering
  PROVE  Registry(next) /\ \A x : LiveAnswers(next, x) = LiveAnswers(st, x)
<1>1. Chains(next)
  BY DEF Registry, Chains
<1>2. \A i \in 1 .. Len(next.records) : next.records[i].live => Speaks(next, i)
  BY DEF Registry, Speaks
<1>. QED
  BY <1>1, <1>2 DEF Registry, LiveAnswers, Answering

\* The names of an operation: everything in it has one, and an entity that
\* carries on a token has that of its source.
NamesCarry(book, inputs, result, history) ==
  LET sources == Sources(PartsIn(inputs))
  IN /\ ToSet(result) \cup ToSet(sources) \subseteq DOMAIN book
     /\ \A x \in ToSet(result) \ ToSet(sources) :
          OnlyImage(PartsIn(inputs), result, history, x) =>
            NormalizeName(book[x]) =
              NormalizeName(book[sources[Min(Modified(sources, history, x))]])

\* A token that is carried on means the same entity under the same name.
LEMMA CarriedIsSane ==
  ASSUME NEW book, NEW inputs, NEW result, NEW history, Fits(inputs, result, history),
         NamesCarry(book, inputs, result, history), NEW x \in ToSet(result), NEW alias,
         Carries(inputs, result, history, x, alias)
  PROVE  /\ alias \in ToSet(Sources(PartsIn(inputs))) /\ alias # x
         /\ NormalizeName(book[alias]) = NormalizeName(book[x])
         /\ shapes[alias].continues \subseteq shapes[x].continues
<1> DEFINE sources == Sources(PartsIn(inputs))
           i == Min(Modified(sources, history, x))
<1>0. IsSeq(sources)
  BY SourcesSplit DEF Fits, InputsFit, Split
<1> HIDE DEF sources
<1>1. DOMAIN sources = 1 .. Len(sources) /\ Len(sources) \in Nat /\ \A j \in DOMAIN sources : sources[j] \in ToSet(sources)
  BY <1>0, IsSeqIn
<1>2. \A y : Modified(sources, history, y) # {} =>
               /\ Min(Modified(sources, history, y)) \in DOMAIN sources
               /\ y \in ImagesIn(history, "modified", sources[Min(Modified(sources, history, y))])
  <2> SUFFICES ASSUME NEW y, Modified(sources, history, y) # {}
               PROVE  /\ Min(Modified(sources, history, y)) \in DOMAIN sources
                      /\ y \in ImagesIn(history, "modified", sources[Min(Modified(sources, history, y))])
    OBVIOUS
  <2>1. Modified(sources, history, y) \subseteq DOMAIN sources /\ DOMAIN sources \subseteq Nat
    BY <1>1 DEF Modified, Parents
  <2>2. Min(Modified(sources, history, y)) \in Modified(sources, history, y)
    BY <2>1, LeastIn
  <2>. QED
    BY <2>1, <2>2 DEF Modified, Parents
<1>3. /\ Modified(sources, history, x) # {} /\ alias = sources[i]
      /\ Images(sources, result, history, i) = {x}
  BY DEF Carries, sources
<1>4. i \in DOMAIN sources /\ alias \in ToSet(sources)
  BY <1>1, <1>2, <1>3
<1>5. \A s \in ToSet(sources) :
          /\ ImagesIn(history, "modified", s) \subseteq ToSet(result) \ ToSet(sources)
          /\ \A y : ImagesIn(history, "modified", s) = {y} =>
                      shapes[s].continues \subseteq shapes[y].continues
  BY DEF Fits, sources
<1>6. ImagesIn(history, "modified", alias) = {x}
  BY <1>3, <1>4, <1>5 DEF Images
<1>7. x \notin ToSet(sources)
  BY <1>4, <1>5, <1>6
<1>8. OnlyImage(PartsIn(inputs), result, history, x)
  <2>1. ASSUME NEW y, Modified(sources, history, y) # {}, Min(Modified(sources, history, y)) = i
        PROVE  y = x
    BY <1>2, <1>3, <1>6, <2>1
  <2>. QED
    BY <1>3, <2>1 DEF OnlyImage, sources
<1>9. NormalizeName(book[x]) = NormalizeName(book[alias])
  <2>1. x \in ToSet(result) \ ToSet(sources)
    BY <1>7
  <2>. QED
    BY <1>3, <1>8, <2>1, Zenon DEF NamesCarry, sources, i
<1>. QED
  BY <1>4, <1>5, <1>6, <1>7, <1>9 DEF sources

\* The image of a finite set is finite.
LEMMA ImageFinite ==
  ASSUME NEW S, IsFiniteSet(S), NEW f, DOMAIN f = S
  PROVE  IsFiniteSet({f[x] : x \in S})
<1> DEFINE g == [x \in S |-> f[x]]
           T == {f[x] : x \in S}
<1>1. g \in Surjection(S, T)
  BY DEF Surjection
<1> HIDE DEF g, T
<1>2. IsFiniteSet(T)
  BY <1>1, FS_Surjection
<1>. QED
  BY <1>2 DEF T

\* What the harvest of an operation gives.
Attributes(st, next, sources, result) ==
  /\ Registry(next)
  /\ DOMAIN next.answering \subseteq (DOMAIN st.answering \ sources) \cup result
  /\ \A x : (x \notin sources /\ LiveAnswers(st, x) # {}) => LiveAnswers(next, x) # {}
  /\ \A x \in result : LiveAnswers(next, x) # {}

\* A fault stays.
LEMMA HarvestFaults ==
  ASSUME NEW st, DOMAIN st = States, NEW op, NEW class, NEW inputs, NEW result, IsSeq(result),
         NEW history, ~ HarvestOperation(st, op, class, inputs, result, history).fault
  PROVE  ~ st.fault
<1> DEFINE sources == Sources(PartsIn(inputs))
           images(i) == Images(sources, result, history, i)
           staying == {i \in DOMAIN sources : Contains(result, sources[i])}
           scaffolds == {sources[i] : i \in {j \in staying : InputOf(sources, inputs, j).synthetic}}
           survivors == {sources[i] : i \in staying} \ scaffolds
           minted == ToSet(result) \ survivors
           plan(x) == PlanOf(st, class, sources, inputs, result, history, x)
           plans == {plan(x) : x \in minted}
           unattributed == {x \in minted : /\ IsBareQuantizedRoot(st.book[x])
                                           /\ Parents(sources, history, "modified", x) = {}
                                           /\ Parents(sources, history, "generated", x) = {}}
           broken == \/ \E x \in ToSet(sources) : Answering(st, x) = << >>
                     \/ \E i \in staying : images(i) # {}
                     \/ \E i \in DOMAIN sources : \E y \in images(i) : Kind(y) # Kind(sources[i])
                     \/ unattributed # {}
                     \/ \E p \in plans : p.role = NoRole
           begun == Retire(st, scaffolds)
           minting == MintBuckets(begun, op, 0, plans)
           aliased == {p.alias : p \in plans} \ {0}
           gone == ToSet(sources) \ (survivors \cup aliased \cup scaffolds)
           swept == Retire(minting, gone)
           f == swept.fault \/ \E x \in ToSet(result) : LiveAnswers(swept, x) = {}
           failed == [st EXCEPT !.fault = TRUE]
           next == HarvestOperation(st, op, class, inputs, result, history)
<1>1. next = IF broken THEN failed ELSE [swept EXCEPT !.fault = f]
  BY Zenon DEF HarvestOperation, PartsIn
<1>2. next = [swept EXCEPT !.fault = f]
  <2>1. failed.fault
    BY DEF States
  <2> HIDE DEF broken, failed, swept, f
  <2>. QED
    BY <1>1, <2>1
<1>3. f <=> swept.fault \/ \E x \in ToSet(result) : LiveAnswers(swept, x) = {}
  OBVIOUS
<1>4. IsFiniteSet(plans)
  <2>1. IsFiniteSet(ToSet(result))
    BY ToSetFinite
  <2>2. IsFiniteSet(minted)
    BY <2>1, FS_Subset
  <2> HIDE DEF minted, plan
  <2> DEFINE all == [x \in minted |-> plan(x)]
  <2>3. DOMAIN all = minted /\ plans = {all[x] : x \in minted}
    OBVIOUS
  <2> HIDE DEF all
  <2>. QED
    BY <2>2, <2>3, ImageFinite
<1> HIDE DEF broken, failed, f, plans, gone, scaffolds
<1>5. DOMAIN begun = States /\ begun.fault = st.fault
  BY DEF Retire, States
<1> HIDE DEF begun
<1>6. DOMAIN minting = States /\ (~ minting.fault => ~ begun.fault)
  BY <1>4, <1>5, BucketsFault
<1> HIDE DEF minting
<1>7. DOMAIN swept = States /\ swept.fault = minting.fault
  BY <1>6 DEF Retire, States
<1> HIDE DEF swept
<1>8. next.fault = f
  BY <1>2, <1>7 DEF States
<1>9. ~ f
  BY <1>8
<1>. QED
  BY <1>3, <1>5, <1>6, <1>7, <1>9

\* HarvestOperation: what it retires, mints and sweeps.
LEMMA HarvestIsSound ==
  ASSUME NEW st, Registry(st), NEW op, NEW class, NEW inputs, NEW result, NEW history,
         Fits(inputs, result, history), NamesCarry(st.book, inputs, result, history)
  PROVE  LET next == HarvestOperation(st, op, class, inputs, result, history)
         IN  ~ next.fault =>
               ~ st.fault /\ Attributes(st, next, ToSet(Sources(PartsIn(inputs))), ToSet(result))
<1> DEFINE sources == Sources(PartsIn(inputs))
           images(i) == Images(sources, result, history, i)
           staying == {i \in DOMAIN sources : Contains(result, sources[i])}
           scaffolds == {sources[i] : i \in {j \in staying : InputOf(sources, inputs, j).synthetic}}
           survivors == {sources[i] : i \in staying} \ scaffolds
           minted == ToSet(result) \ survivors
           plan(x) == PlanOf(st, class, sources, inputs, result, history, x)
           plans == {plan(x) : x \in minted}
           unattributed == {x \in minted : /\ IsBareQuantizedRoot(st.book[x])
                                           /\ Parents(sources, history, "modified", x) = {}
                                           /\ Parents(sources, history, "generated", x) = {}}
           broken == \/ \E x \in ToSet(sources) : Answering(st, x) = << >>
                     \/ \E i \in staying : images(i) # {}
                     \/ \E i \in DOMAIN sources : \E y \in images(i) : Kind(y) # Kind(sources[i])
                     \/ unattributed # {}
                     \/ \E p \in plans : p.role = NoRole
           begun == Retire(st, scaffolds)
           minting == MintBuckets(begun, op, 0, plans)
           aliased == {p.alias : p \in plans} \ {0}
           gone == ToSet(sources) \ (survivors \cup aliased \cup scaffolds)
           swept == Retire(minting, gone)
           f == swept.fault \/ \E x \in ToSet(result) : LiveAnswers(swept, x) = {}
           failed == [st EXCEPT !.fault = TRUE]
           next == HarvestOperation(st, op, class, inputs, result, history)
<1>1. next = IF broken THEN failed ELSE [swept EXCEPT !.fault = f]
  BY Zenon DEF HarvestOperation, PartsIn
<1>2. IsSeq(sources) /\ IsSeq(result) /\ InputsFit(inputs)
  BY SourcesSplit DEF Fits, InputsFit, Split
<1>3. DOMAIN st = States
  BY DEF Registry
<1>4. SUFFICES ASSUME ~ next.fault
               PROVE  ~ st.fault /\ Attributes(st, next, ToSet(sources), ToSet(result))
  BY Zenon
<1>5. ~ broken /\ next = [swept EXCEPT !.fault = f]
  <2>1. failed.fault
    BY <1>3 DEF States
  <2> HIDE DEF broken, failed, swept, f, next
  <2>. QED
    BY <1>1, <1>4, <2>1
<1>6. \A i \in staying : images(i) = {}
  <2> HIDE DEF images, staying
  <2>. QED
    BY <1>5
<1> HIDE DEF broken, unattributed
<1>7. scaffolds \subseteq ToSet(result) /\ survivors \subseteq ToSet(result)
      /\ scaffolds \subseteq ToSet(sources) /\ survivors \subseteq ToSet(sources)
  <2>1. \A i \in staying : sources[i] \in ToSet(result) /\ sources[i] \in ToSet(sources)
    BY <1>2, ContainsIsIn DEF ToSet
  <2>. QED
    BY <2>1
<1>8. ASSUME NEW x \in minted, plan(x).alias # 0
      PROVE  /\ plan(x).alias \in ToSet(sources) \ ToSet(result)
             /\ Follows(st.book, plan(x))
  <2> DEFINE a == plan(x).alias
             i == Min(Modified(sources, history, x))
  <2>1. Carries(inputs, result, history, x, a) /\ plan(x).shape = x
    BY <1>2, <1>8, PlanOfEntity
  <2>2. x \in ToSet(result)
    OBVIOUS
  <2> HIDE DEF plan, minted
  <2>3. /\ a \in ToSet(sources) /\ a # x
        /\ NormalizeName(st.book[a]) = NormalizeName(st.book[x])
        /\ shapes[a].continues \subseteq shapes[x].continues
    BY <2>1, <2>2, CarriedIsSane
  <2>4. Follows(st.book, plan(x))
    BY <2>1, <2>3 DEF Follows
  <2>5. a \notin ToSet(result)
    <3> SUFFICES ASSUME a \in ToSet(result) PROVE FALSE
      OBVIOUS
    <3>1. /\ Modified(sources, history, x) # {} /\ a = sources[i] /\ images(i) = {x}
      BY <2>1, Zenon DEF Carries
    <3>2. i \in DOMAIN sources
      <4>1. DOMAIN sources = 1 .. Len(sources) /\ Len(sources) \in Nat
        BY <1>2, IsSeqIn
      <4> HIDE DEF sources
      <4>2. Modified(sources, history, x) \subseteq DOMAIN sources /\ DOMAIN sources \subseteq Nat
        BY <4>1 DEF Modified, Parents
      <4>. QED
        BY <3>1, <4>2, LeastIn
    <3>3. Contains(result, sources[i])
      BY <1>2, <3>1, ContainsIsIn
    <3>4. i \in staying
      BY <3>2, <3>3
    <3>. QED
      BY <1>6, <3>1, <3>4
  <2>. QED
    BY <2>3, <2>4, <2>5
<1>9. \A x \in minted : plan(x).shape = x
  BY <1>2, PlanOfEntity
<1>10. ShapesOf(plans) = minted
  <2> HIDE DEF plan, minted
  <2>. QED
    BY <1>9 DEF ShapesOf
<1>11. AliasesOf(plans) = aliased /\ aliased \subseteq ToSet(sources) \ ToSet(result)
  <2>1. AliasesOf(plans) = aliased
    BY DEF AliasesOf
  <2>2. \A x \in minted : plan(x).alias = 0 \/ plan(x).alias \in ToSet(sources) \ ToSet(result)
    BY <1>8
  <2> HIDE DEF plan, minted, sources
  <2>. QED
    BY <2>1, <2>2
<1>12. Plans(plans, st.book)
  <2>1. IsFiniteSet(plans)
    <3>1. IsFiniteSet(ToSet(result))
      BY <1>2, ToSetFinite
    <3>2. IsFiniteSet(minted)
      BY <3>1, FS_Subset
    <3> HIDE DEF minted, plan
    <3> DEFINE all == [x \in minted |-> plan(x)]
    <3>3. DOMAIN all = minted /\ plans = {all[x] : x \in minted}
      OBVIOUS
    <3> HIDE DEF all
    <3>. QED
      BY <3>2, <3>3, ImageFinite
  <2>2. ASSUME NEW x \in minted PROVE Sane(plan(x), st.book)
    <3>1. x \in ToSet(result)
      OBVIOUS
    <3>2. x \in DOMAIN st.book
      BY <3>1 DEF NamesCarry
    <3>3. x \in 1 .. Len(shapes) /\ x \in shapes[x].continues
      BY <3>1 DEF Fits
    <3> HIDE DEF plan, minted
    <3>. QED
      BY <1>8, <1>9, <3>2, <3>3 DEF Sane
  <2>3. ShapesOf(plans) \cap AliasesOf(plans) = {}
    BY <1>10, <1>11
  <2> HIDE DEF plan, minted
  <2>4. \A p \in plans : Sane(p, st.book)
    BY <2>2
  <2> HIDE DEF plans
  <2>. QED
    BY <2>1, <2>3, <2>4 DEF Plans
<1> HIDE DEF plan, plans, minting, begun, swept
<1>13. /\ Registry(begun) /\ begun.book = st.book /\ begun.fault = st.fault
       /\ DOMAIN begun.answering = DOMAIN st.answering \ scaffolds
       /\ \A x : x \notin scaffolds => LiveAnswers(begun, x) = LiveAnswers(st, x)
  BY RetireIsSound DEF begun
<1>14. Plans(plans, begun.book)
  BY <1>12, <1>13
<1>15. DOMAIN minting = States /\ (~ minting.fault => ~ begun.fault /\ Harvests(begun, minting, plans))
  BY <1>13, <1>14, BucketsAreSound DEF minting
<1>g. \A x \in gone : x \in ToSet(sources) /\ x \notin survivors /\ x \notin aliased /\ x \notin scaffolds
  OBVIOUS
<1>h. \A x \in ToSet(sources) : x \in gone \/ x \in survivors \/ x \in aliased \/ x \in scaffolds
  OBVIOUS
<1>i. minted \subseteq ToSet(result) /\ \A x \in ToSet(result) : x \in minted \/ x \in survivors
  OBVIOUS
<1>j. f <=> swept.fault \/ \E x \in ToSet(result) : LiveAnswers(swept, x) = {}
  OBVIOUS
<1> HIDE DEF gone, f, next, scaffolds, survivors, staying, images, aliased, sources, minted
<1>16. DOMAIN swept = States /\ swept.fault = minting.fault
  BY <1>15 DEF swept, Retire, States
<1>17. DOMAIN next = States /\ next.fault = f /\ next.book = swept.book
       /\ next.records = swept.records /\ next.answering = swept.answering
  BY <1>5, <1>16 DEF States
<1>18. ~ f
  BY <1>4, <1>17
<1>19. ~ minting.fault /\ \A x \in ToSet(result) : LiveAnswers(swept, x) # {}
  BY <1>16, <1>18, <1>j
<1>20. ~ st.fault /\ Harvests(begun, minting, plans)
  BY <1>13, <1>15, <1>19
<1>21. Registry(minting)
  BY <1>20 DEF Harvests
<1>22. /\ Registry(swept) /\ swept.book = minting.book
       /\ DOMAIN swept.answering = DOMAIN minting.answering \ gone
       /\ \A x : x \notin gone => LiveAnswers(swept, x) = LiveAnswers(minting, x)
  BY <1>21, RetireIsSound DEF swept
<1>23. Registry(next) /\ \A x : LiveAnswers(next, x) = LiveAnswers(swept, x)
  BY <1>17, <1>22, OnlyRecordsCount
<1>24. DOMAIN next.answering \subseteq (DOMAIN st.answering \ ToSet(sources)) \cup ToSet(result)
  <2>1. DOMAIN minting.answering \subseteq (DOMAIN begun.answering \cup minted) \ aliased
    BY <1>10, <1>11, <1>20 DEF Harvests
  <2>. QED
    BY <1>7, <1>13, <1>17, <1>22, <1>h, <1>i, <2>1
<1>25. ASSUME NEW x, x \notin ToSet(sources), LiveAnswers(st, x) # {} PROVE LiveAnswers(next, x) # {}
  <2>1. x \notin scaffolds /\ x \notin aliased /\ x \notin gone
    BY <1>7, <1>11, <1>25, <1>g
  <2>2. LiveAnswers(minting, x) # {}
    BY <1>11, <1>13, <1>20, <1>25, <2>1 DEF Harvests
  <2>. QED
    BY <1>22, <1>23, <2>1, <2>2
<1>. QED
  BY <1>19, <1>20, <1>23, <1>24, <1>25 DEF Attributes

\* A fault stays.
LEMMA AttributeFaults ==
  ASSUME NEW st, DOMAIN st = States, NEW op, NEW class, NEW inputs, NEW result, IsSeq(result),
         NEW history, ~ Attribute(st, op, class, inputs, result, history).fault
  PROVE  ~ st.fault
<1> DEFINE naming == ApplyOperation(st.book, op, PartsIn(inputs), result, history)
           mid == Named(st, naming)
           failed == [st EXCEPT !.fault = TRUE]
           end == HarvestOperation(mid, op, class, inputs, result, history)
<1>1. Attribute(st, op, class, inputs, result, history) = IF naming.fault THEN failed ELSE end
  BY Zenon DEF Attribute, PartsIn
<1>2. failed.fault
  BY DEF States
<1> HIDE DEF naming, failed, end
<1>3. Attribute(st, op, class, inputs, result, history) = end /\ ~ end.fault
  BY <1>1, <1>2
<1>4. DOMAIN mid = States
  BY DEF Named, States
<1> HIDE DEF mid
<1>5. ~ mid.fault
  BY <1>3, <1>4, HarvestFaults DEF end
<1> DEFINE f == st.fault \/ naming.fault
<1>6. mid = [st EXCEPT !.book = naming.names, !.fault = f]
  BY DEF mid, Named
<1> HIDE DEF f
<1>7. mid.fault = f
  BY <1>6 DEF States
<1>8. ~ f
  BY <1>5, <1>7
<1>. QED
  BY <1>8 DEF f

\* The naming pass and the harvest of an operation together.
LEMMA AttributeIsSound ==
  ASSUME NEW st, Registry(st), NEW op, NEW class, NEW inputs, NEW result, NEW history,
         Fits(inputs, result, history),
         ~ Attribute(st, op, class, inputs, result, history).fault
  PROVE  Attributes(st, Attribute(st, op, class, inputs, result, history),
                    ToSet(Sources(PartsIn(inputs))), ToSet(result))
<1> DEFINE parts == PartsIn(inputs)
           sources == Sources(parts)
           naming == ApplyOperation(st.book, op, parts, result, history)
           names == naming.names
           mid == Named(st, naming)
           failed == [st EXCEPT !.fault = TRUE]
           end == HarvestOperation(mid, op, class, inputs, result, history)
<1>1. Attribute(st, op, class, inputs, result, history) = IF naming.fault THEN failed ELSE end
  BY Zenon DEF Attribute, PartsIn
<1>2. failed.fault
  BY DEF States, Registry
<1> HIDE DEF naming, failed, end
<1>3. Attribute(st, op, class, inputs, result, history) = end /\ ~ end.fault /\ ~ naming.fault
  BY <1>1, <1>2
<1>4. Inputs(parts) /\ IsSeq(result) /\ Names(st.book)
  BY DEF Fits, InputsFit, Registry
<1> HIDE DEF parts
<1>5. /\ Extends(names, st.book) /\ Names(names)
      /\ ToSet(result) \subseteq DOMAIN names
      /\ ToSet(sources) \subseteq DOMAIN st.book
      /\ \A x \in ToSet(result) \ Kept(parts, result) :
           OnlyImage(parts, result, history, x) =>
             names[x] = Append(st.book[sources[Min(Modified(sources, history, x))]],
                               Segment("M", op))
  <2> DEFINE book == st.book
  <2>1. Inputs(parts) /\ IsSeq(result) /\ Names(book) /\ ~ ApplyOperation(book, op, parts, result, history).fault
    BY <1>3, <1>4 DEF naming
  <2> HIDE DEF book
  <2>2. NamesGrow(ApplyOperation(book, op, parts, result, history).names,
                  book, op, parts, result, history)
    BY <2>1, OperationNames
  <2>. QED
    BY <2>2, Zenon DEF naming, book, NamesGrow
<1>6. /\ Registry(mid) /\ mid.book = names /\ mid.answering = st.answering
      /\ \A x : LiveAnswers(mid, x) = LiveAnswers(st, x)
  BY <1>5, NamedIsSound
<1>7. ASSUME NEW x \in ToSet(result) \ ToSet(sources), OnlyImage(parts, result, history, x)
      PROVE  NormalizeName(names[x]) =
               NormalizeName(names[sources[Min(Modified(sources, history, x))]])
  <2> DEFINE i == Min(Modified(sources, history, x))
             s == sources[i]
             m == Segment("M", op)
  <2>1. names[x] = Append(st.book[s], m)
    BY <1>5, <1>7 DEF Kept
  <2>2. s \in DOMAIN st.book
    <3>0. IsSeq(sources)
      BY <1>4, SourcesSplit DEF Split
    <3>1. DOMAIN sources = 1 .. Len(sources) /\ \A j \in DOMAIN sources : sources[j] \in ToSet(sources)
      <4> HIDE DEF sources
      <4>. QED
        BY <3>0, IsSeqIn
    <3>2. Modified(sources, history, x) # {}
      BY <1>7 DEF OnlyImage
    <3> HIDE DEF sources
    <3>3. Modified(sources, history, x) \subseteq DOMAIN sources /\ DOMAIN sources \subseteq Nat
      BY <3>0, <3>1, IsSeqIn DEF Modified, Parents
    <3>4. i \in DOMAIN sources
      BY <3>2, <3>3, LeastIn
    <3>. QED
      BY <1>5, <3>1, <3>4
  <2>3. Plain(m)
    BY DEF Plain, Segment
  <2>4. IsSeq(st.book[s]) /\ names[s] = st.book[s]
    BY <1>4, <1>5, <2>2 DEF Names, Extends
  <2> HIDE DEF m, s, i, names
  <2>5. NormalizeName(names[x]) = NormalizeName(names[s])
    BY <2>1, <2>3, <2>4, PlainIsErased
  <2>. QED
    BY <2>5 DEF s, i
<1>8. NamesCarry(names, inputs, result, history)
  <2>1. ToSet(result) \cup ToSet(sources) \subseteq DOMAIN names
    BY <1>5 DEF Extends
  <2> HIDE DEF names
  <2>. QED
    BY <1>7, <2>1, Zenon DEF NamesCarry, parts
<1> HIDE DEF mid, names
<1>9. ~ mid.fault /\ Attributes(mid, end, ToSet(sources), ToSet(result))
  BY <1>3, <1>6, <1>8, HarvestIsSound DEF end, parts
<1>10. Attributes(st, end, ToSet(sources), ToSet(result))
  BY <1>6, <1>9 DEF Attributes
<1>. QED
  BY <1>3, <1>10 DEF parts

\* The names of a new body.
LEMMA RootsAreNames ==
  ASSUME NEW op, NEW parts
  PROVE  /\ DOMAIN RootNames(op, parts) = ToSet(parts)
         /\ Names(RootNames(op, parts))
<1> DEFINE at(x) == CHOOSE i \in DOMAIN parts : parts[i] = x
           segment(x) == [Segment(Kind(x), op) EXCEPT !.geometry = OrdinalOf(parts, at(x))]
           names == [x \in ToSet(parts) |-> <<segment(x)>>]
<1>1. RootNames(op, parts) = names
  BY Zenon DEF RootNames, Root
<1> HIDE DEF segment
<1>2. DOMAIN names = ToSet(parts) /\ \A x \in ToSet(parts) : names[x] = <<segment(x)>>
  OBVIOUS
<1> HIDE DEF names
<1>3. \A x \in ToSet(parts) : IsSeq(names[x])
  BY <1>2, SingleIsSeq
<1>. QED
  BY <1>1, <1>2, <1>3 DEF Names

\* AddPrimitive only adds names.
LEMMA PrimitiveNames ==
  ASSUME NEW book, Names(book), NEW op, NEW parts, ~ AddPrimitive(book, op, parts).fault
  PROVE  LET names == AddPrimitive(book, op, parts).names
         IN  Extends(names, book) /\ Names(names) /\ ToSet(parts) \subseteq DOMAIN names
<1> DEFINE roots == RootNames(op, parts)
           f == \E x \in ToSet(parts) \cap DOMAIN book : book[x] # roots[x]
           over == Over(roots, book)
<1>1. DOMAIN roots = ToSet(parts) /\ Names(roots)
  BY RootsAreNames
<1> HIDE DEF roots
<1>2. AddPrimitive(book, op, parts) = [names |-> over, fault |-> f]
  BY Zenon DEF AddPrimitive, roots
<1>3. /\ DOMAIN over = ToSet(parts) \cup DOMAIN book
      /\ \A x \in ToSet(parts) : over[x] = roots[x]
      /\ \A x \in DOMAIN book \ ToSet(parts) : over[x] = book[x]
  BY <1>1 DEF Over
<1>4. AddPrimitive(book, op, parts).names = over /\ ~ f
  <2> HIDE DEF over, f
  <2>. QED
    BY <1>2
<1>5. \A x \in ToSet(parts) \cap DOMAIN book : book[x] = roots[x]
  BY <1>4
<1> HIDE DEF over, f
<1>6. Extends(over, book) /\ Names(over) /\ ToSet(parts) \subseteq DOMAIN over
  BY <1>1, <1>3, <1>5 DEF Extends, Names
<1>. QED
  BY <1>4, <1>6

\* AddDerivedPrimitive only adds names.
LEMMA DerivedNames ==
  ASSUME NEW book, Names(book), NEW op, NEW parts
  PROVE  LET names == AddDerivedPrimitive(book, op, parts).names
         IN  Extends(names, book) /\ Names(names) /\ ToSet(parts) \subseteq DOMAIN names
<1> DEFINE roots == RootNames(op, parts)
           over == Over(book, roots)
<1>1. DOMAIN roots = ToSet(parts) /\ Names(roots)
  BY RootsAreNames
<1> HIDE DEF roots
<1>2. AddDerivedPrimitive(book, op, parts).names = over
  BY DEF AddDerivedPrimitive, roots
<1>3. /\ DOMAIN over = ToSet(parts) \cup DOMAIN book
      /\ \A x \in DOMAIN book : over[x] = book[x]
      /\ \A x \in ToSet(parts) \ DOMAIN book : over[x] = roots[x]
  BY <1>1 DEF Over
<1> HIDE DEF over
<1>4. Extends(over, book) /\ Names(over) /\ ToSet(parts) \subseteq DOMAIN over
  BY <1>1, <1>3 DEF Extends, Names
<1>. QED
  BY <1>2, <1>4

(***************************************************************************)
(* New bodies.                                                             *)
(***************************************************************************)
\* Sub-shapes that are there.
Placeable(parts) ==
  /\ IsSeq(parts) /\ ToSet(parts) \subseteq 1 .. Len(shapes)
  /\ \A x \in ToSet(parts) : x \in shapes[x].continues
\* A plan of a new token for each of them.
PlansEach(plan, parts) ==
  DOMAIN plan = ToSet(parts) /\ \A x \in ToSet(parts) : plan[x].shape = x /\ plan[x].alias = 0
\* What minting them gives.
Bears(st, next, new) ==
  /\ Registry(next)
  /\ DOMAIN next.answering \subseteq DOMAIN st.answering \cup new
  /\ \A x : LiveAnswers(st, x) # {} => LiveAnswers(next, x) # {}
  /\ \A x \in new : LiveAnswers(next, x) # {}

\* The plans of a new body are finitely many.
LEMMA PlansAreFinite ==
  ASSUME NEW parts, IsSeq(parts), NEW plan, DOMAIN plan = ToSet(parts)
  PROVE  IsFiniteSet({plan[x] : x \in ToSet(parts)})
  BY ToSetFinite, ImageFinite

\* Minting one plan for each part of a new body.
LEMMA MintingBears ==
  ASSUME NEW st, Registry(st), NEW op, NEW out, NEW parts, Placeable(parts),
         ToSet(parts) \subseteq DOMAIN st.book, NEW plan, PlansEach(plan, parts),
         ~ MintBuckets(st, op, out, {plan[x] : x \in ToSet(parts)}).fault
  PROVE  Bears(st, MintBuckets(st, op, out, {plan[x] : x \in ToSet(parts)}), ToSet(parts))
<1> DEFINE plans == {plan[x] : x \in ToSet(parts)}
           next == MintBuckets(st, op, out, plans)
<1>1. ShapesOf(plans) = ToSet(parts) /\ AliasesOf(plans) = {}
  BY DEF ShapesOf, AliasesOf, PlansEach
<1>2. Plans(plans, st.book)
  <2>1. IsFiniteSet(plans)
    BY PlansAreFinite DEF Placeable, PlansEach
  <2>2. \A p \in plans : Sane(p, st.book)
    BY DEF Placeable, PlansEach, Sane
  <2> HIDE DEF plans
  <2>. QED
    BY <1>1, <2>1, <2>2 DEF Plans
<1>3. \A x \in ToSet(parts) : plan[x] \in plans /\ plan[x].shape = x /\ plan[x].alias = 0
  BY DEF PlansEach
<1> HIDE DEF plans
<1>4. Harvests(st, next, plans)
  BY <1>2, BucketsAreSound DEF plans
<1> HIDE DEF next
<1>5. Bears(st, next, ToSet(parts))
  BY <1>1, <1>3, <1>4 DEF Bears, Harvests
<1>. QED
  BY <1>5 DEF next, plans

\* A body is born: its names, then its tokens.
Born(st, first, op, out, parts, plan) ==
  MintBuckets(Named(st, AddPrimitive(st.book, first, parts)), op, out, {plan[x] : x \in ToSet(parts)})

\* A fault stays.
LEMMA BirthFaults ==
  ASSUME NEW st, DOMAIN st = States, NEW first, NEW op, NEW out, NEW parts, IsSeq(parts),
         NEW plan, DOMAIN plan = ToSet(parts)
  PROVE  /\ DOMAIN Born(st, first, op, out, parts, plan) = States
         /\ ~ Born(st, first, op, out, parts, plan).fault =>
              ~ st.fault /\ ~ AddPrimitive(st.book, first, parts).fault
<1> DEFINE naming == AddPrimitive(st.book, first, parts)
           mid == Named(st, naming)
           plans == {plan[x] : x \in ToSet(parts)}
<1>1. IsFiniteSet(plans)
  BY PlansAreFinite
<1> HIDE DEF plans, naming
<1>2. DOMAIN mid = States /\ (~ mid.fault => ~ st.fault /\ ~ naming.fault)
  BY NamedFaults
<1> HIDE DEF mid
<1>3. DOMAIN MintBuckets(mid, op, out, plans) = States
      /\ (~ MintBuckets(mid, op, out, plans).fault => ~ mid.fault)
  BY <1>1, <1>2, BucketsFault
<1>4. Born(st, first, op, out, parts, plan) = MintBuckets(mid, op, out, plans)
  BY DEF Born, mid, plans, naming
<1>. QED
  BY <1>2, <1>3, <1>4 DEF naming

\* A new body, its naming and its minting.
LEMMA BirthIsSound ==
  ASSUME NEW st, Registry(st), NEW first, NEW op, NEW out, NEW parts, Placeable(parts),
         NEW plan, PlansEach(plan, parts), ~ Born(st, first, op, out, parts, plan).fault
  PROVE  Bears(st, Born(st, first, op, out, parts, plan), ToSet(parts))
<1> DEFINE book == st.book
           naming == AddPrimitive(book, first, parts)
           mid == Named(st, naming)
           plans == {plan[x] : x \in ToSet(parts)}
<1>1. Names(book) /\ ~ naming.fault
  BY BirthFaults DEF Registry, Placeable, PlansEach
<1> HIDE DEF book
<1>2. Extends(naming.names, book) /\ Names(naming.names) /\ ToSet(parts) \subseteq DOMAIN naming.names
  BY <1>1, PrimitiveNames
<1> HIDE DEF naming
<1>3. /\ Registry(mid) /\ mid.book = naming.names /\ mid.answering = st.answering
      /\ \A x : LiveAnswers(mid, x) = LiveAnswers(st, x)
  BY <1>2, NamedIsSound DEF book
<1> HIDE DEF mid
<1>4. Born(st, first, op, out, parts, plan) = MintBuckets(mid, op, out, plans)
  BY DEF Born, mid, naming, book
<1>5. Bears(mid, MintBuckets(mid, op, out, plans), ToSet(parts))
  BY <1>2, <1>3, <1>4, MintingBears
<1> HIDE DEF plans
<1>. QED
  BY <1>3, <1>4, <1>5 DEF Bears

\* The state is that of a body of these parts just born.
BornAs(next, st, first, op, out, parts) ==
  \E plan : PlansEach(plan, parts) /\ next = Born(st, first, op, out, parts, plan)

\* The copy of a body, and a solid of an imported file.
LEMMA CopyIsABirth ==
  ASSUME NEW st, DOMAIN st = States, NEW first, NEW op, NEW out, NEW parts, IsSeq(parts),
         NEW role, NEW from,
         NEW next, next = HarvestCopiedBody(Named(st, AddPrimitive(st.book, first, parts)),
                                            op, out, parts, role, from),
         ~ next.fault \/ DOMAIN from = {}
  PROVE  BornAs(next, st, first, op, out, parts)
<1> DEFINE mid == Named(st, AddPrimitive(st.book, first, parts))
           lost == \E x \in DOMAIN from : Answering(mid, from[x]) = << >>
           each(x) == [PlanFor(x, role[Kind(x)]) EXCEPT
                         !.ancestors = IF x \in DOMAIN from THEN {NewestTokenOf(mid, from[x])} ELSE {}]
           plan == [x \in ToSet(parts) |-> each(x)]
           failed == [mid EXCEPT !.fault = TRUE]
           end == MintBuckets(mid, op, out, {each(x) : x \in ToSet(parts)})
<1>1. next = IF lost THEN failed ELSE end
  BY Zenon DEF HarvestCopiedBody
<1>2. failed.fault
  <2>1. DOMAIN mid = States
    BY NamedFaults
  <2> HIDE DEF mid
  <2>. QED
    BY <2>1 DEF States
<1>3. next = end
  <2>1. DOMAIN from = {} => ~ lost
    OBVIOUS
  <2> HIDE DEF lost, failed, end
  <2>. QED
    BY <1>1, <1>2, <2>1
<1>4. \A x : each(x).shape = x /\ each(x).alias = 0
  BY DEF PlanFor
<1> HIDE DEF each, mid
<1>5. PlansEach(plan, parts)
  BY <1>4 DEF PlansEach
<1>6. {each(x) : x \in ToSet(parts)} = {plan[x] : x \in ToSet(parts)}
  OBVIOUS
<1>7. next = Born(st, first, op, out, parts, plan)
  <2>1. end = MintBuckets(mid, op, out, {plan[x] : x \in ToSet(parts)})
    BY <1>6
  <2> HIDE DEF plan, end
  <2>. QED
    BY <1>3, <2>1 DEF Born, mid
<1>. QED
  BY <1>5, <1>7 DEF BornAs

\* A solid of an imported file.
LEMMA ImportIsABirth ==
  ASSUME NEW st, DOMAIN st = States, NEW op, NEW out, NEW parts, IsSeq(parts)
  PROVE  BornAs(HarvestImportedBody(st, op, out, parts), st, op, op, out, parts)
<1> DEFINE role == [f |-> "imported-face", e |-> "imported-edge", v |-> "imported-vertex"]
           from == [x \in {} |-> 0]
<1>1. HarvestImportedBody(st, op, out, parts) =
        HarvestCopiedBody(Named(st, AddPrimitive(st.book, op, parts)), op, out, parts, role, from)
  BY Zenon DEF HarvestImportedBody
<1> DEFINE next == HarvestImportedBody(st, op, out, parts)
<1>2. DOMAIN from = {}
  OBVIOUS
<1> HIDE DEF role, from, next
<1>3. next = HarvestCopiedBody(Named(st, AddPrimitive(st.book, op, parts)), op, out, parts, role, from)
  BY <1>1 DEF next
<1>4. BornAs(next, st, op, op, out, parts)
  BY <1>2, <1>3, CopyIsABirth
<1>. QED
  BY <1>4 DEF next

\* What HarvestBirth does, unless it refuses, is a birth.
LEMMA BirthIsABirth ==
  ASSUME NEW st, DOMAIN st = States, NEW op, NEW spec, NEW parts, NEW side,
         ~ HarvestBirth(st, op, spec, parts, side).fault
  PROVE  BornAs(HarvestBirth(st, op, spec, parts, side), st, op, op, 0, parts)
<1> DEFINE mid == Named(st, AddPrimitive(st.book, op, parts))
           each(x) == PlanFor(x, BirthRole(spec.class, Kind(x), side[x]))
           plan == [x \in ToSet(parts) |-> each(x)]
           end == MintBuckets(mid, op, 0, {each(x) : x \in ToSet(parts)})
           fits == BirthFits(spec, parts, side)
           failed == [st EXCEPT !.fault = TRUE]
           next == HarvestBirth(st, op, spec, parts, side)
<1>0. next = IF fits THEN end ELSE failed
  BY Zenon DEF HarvestBirth
<1>1. next = end
  <2>1. failed.fault
    BY DEF States
  <2> HIDE DEF fits, end, failed
  <2>. QED
    BY <1>0, <2>1
<1>2. \A x : each(x).shape = x /\ each(x).alias = 0
  BY DEF PlanFor
<1> HIDE DEF each, mid, next
<1>3. PlansEach(plan, parts)
  BY <1>2 DEF PlansEach
<1>4. {each(x) : x \in ToSet(parts)} = {plan[x] : x \in ToSet(parts)}
  OBVIOUS
<1>5. next = Born(st, op, op, 0, parts, plan)
  <2>1. end = MintBuckets(mid, op, 0, {plan[x] : x \in ToSet(parts)})
    BY <1>4
  <2> HIDE DEF plan, end
  <2>. QED
    BY <1>1, <2>1 DEF Born, mid
<1>. QED
  BY <1>3, <1>5 DEF next, BornAs

\* What RegisterDatumEntity does is a birth of one.
LEMMA EntityIsABirth ==
  ASSUME NEW st, NEW op, NEW role, NEW x
  PROVE  BornAs(RegisterDatumEntity(st, op, role, x), st, op, op, 0, <<x>>)
<1> DEFINE mid == Named(st, AddPrimitive(st.book, op, <<x>>))
           plan == [y \in {x} |-> PlanFor(x, role)]
<1>1. RegisterDatumEntity(st, op, role, x) = MintBuckets(mid, op, 0, {PlanFor(x, role)})
  BY Zenon DEF RegisterDatumEntity
<1>2. ToSet(<<x>>) = {x}
  BY SingleIsSeq
<1>3. plan[x] = PlanFor(x, role) /\ DOMAIN plan = {x} /\ plan[x].shape = x /\ plan[x].alias = 0
  BY DEF PlanFor
<1> HIDE DEF plan, mid
<1>4. {plan[y] : y \in {x}} = {PlanFor(x, role)}
  BY <1>3
<1>5. PlansEach(plan, <<x>>)
  BY <1>2, <1>3 DEF PlansEach
<1>6. RegisterDatumEntity(st, op, role, x) = Born(st, op, op, 0, <<x>>, plan)
  BY <1>1, <1>2, <1>4, Zenon DEF Born, mid
<1>. QED
  BY <1>5, <1>6 DEF BornAs

\* What a birth gives.
LEMMA BirthBears ==
  ASSUME NEW st, Registry(st), NEW first, NEW op, NEW out, NEW parts, Placeable(parts),
         NEW next, BornAs(next, st, first, op, out, parts), ~ next.fault
  PROVE  Bears(st, next, ToSet(parts))
  BY BirthIsSound DEF BornAs

\* A fault stays.
LEMMA BirthStays ==
  ASSUME NEW st, DOMAIN st = States, NEW first, NEW op, NEW out, NEW parts, IsSeq(parts),
         NEW next, BornAs(next, st, first, op, out, parts)
  PROVE  DOMAIN next = States /\ (~ next.fault => ~ st.fault)
  BY BirthFaults DEF BornAs, PlansEach

(***************************************************************************)
(* What every state keeps.                                                 *)
(***************************************************************************)
Counted == document \in Documents /\ made \in Nat
Numbered == IsSeq(shapes) /\ \A x \in 1 .. Len(shapes) : x \in shapes[x].continues

\* No sub-shape is of two bodies, or of a body and a datum.
ApartIn(set, alone) ==
  /\ alone \subseteq 1 .. Len(shapes)
  /\ \A b \in set : /\ IsSeq(b.parts) /\ PartsOf(b) \subseteq 1 .. Len(shapes)
                    /\ PartsOf(b) \cap alone = {}
  /\ \A b, c \in set : b # c => PartsOf(b) \cap PartsOf(c) = {}
Apart == ApartIn(bodies, datums)

IndexedIn(st, set, alone) ==
  /\ DOMAIN st.answering \subseteq VisibleShapes(set) \cup alone
  /\ \A b \in set : ~ b.bare => \A x \in PartsOf(b) : LiveAnswers(st, x) # {}
Indexed == IndexedIn(registry, bodies, datums)

Births == {"birth", "bare", "datum", "copy"}
New(parts) ==
  /\ IsSeq(parts) /\ ToSet(parts) \subseteq 1 .. Len(shapes)
  /\ ToSet(parts) \cap (VisibleShapes(bodies) \cup datums) = {}

\* What an operation works on, and gives, is of the bodies it consumes or new.
WorkSources == ToSet(Sources(PartsIn(work.inputs)))
WorkHistory == [modified |-> work.modified, generated |-> work.generated]
Working ==
  /\ Fits(work.inputs, work.result, WorkHistory)
  /\ work.consumed \subseteq bodies /\ VisibleShapes(work.consumed) \subseteq WorkSources
  /\ (WorkSources \cup ToSet(work.result))
       \cap (VisibleShapes(bodies \ work.consumed) \cup datums) = {}
  /\ IsSeq(work.tool) /\ ToSet(work.tool) \subseteq WorkSources
  /\ WorkSources \subseteq 1 .. Len(shapes)

Prepared ==
  /\ work.what \in Births \cup {"import", "operation"} \/ work = Idle
  /\ work.what \in Births => DOMAIN work.parts = {1} /\ New(work.parts[1]) /\ work.consumed = {}
  /\ work.what = "datum" => work.parts[1] = <<work.parts[1][1]>>
  /\ work.what = "import" => /\ DOMAIN work.parts = {1, 2} /\ work.consumed = {}
                             /\ New(work.parts[1]) /\ New(work.parts[2])
                             /\ ToSet(work.parts[1]) \cap ToSet(work.parts[2]) = {}
  /\ work.what = "operation" => Working

Sound == Counted /\ Numbered /\ Apart /\ Registry(registry) /\ Indexed /\ Prepared

(***************************************************************************)
(* What the harvest of each kind of work gives.                            *)
(***************************************************************************)
\* New sub-shapes may be born.
LEMMA NewIsPlaceable ==
  ASSUME Numbered, NEW parts, New(parts)
  PROVE  Placeable(parts)
  BY DEF Numbered, New, Placeable

\* A body, a datum or a copy.
LEMMA BodyHarvested ==
  ASSUME Numbered, Registry(registry), Prepared, work.what \in {"birth", "datum", "copy"},
         ~ Harvested.fault
  PROVE  Bears(registry, Harvested, ToSet(work.parts[1]))
<1> DEFINE parts == work.parts[1]
<1>1. Placeable(parts) /\ IsSeq(parts)
  BY NewIsPlaceable DEF Prepared, Births, Placeable
<1>2. DOMAIN registry = States
  BY DEF Registry
<1>3. CASE work.what = "birth"
  <2> DEFINE spec == [class |-> work.class, ends |-> work.ends]
  <2>1. Harvested = HarvestBirth(registry, made, spec, parts, work.side)
    BY <1>3 DEF Harvested
  <2> HIDE DEF spec
  <2>2. BornAs(Harvested, registry, made, made, 0, parts)
    BY <1>2, <2>1, BirthIsABirth
  <2> HIDE DEF parts
  <2>. QED
    BY <1>1, <2>2, BirthBears DEF parts
<1>4. CASE work.what = "datum"
  <2> DEFINE x == parts[1]
  <2>0. parts = <<x>>
    BY <1>4 DEF Prepared
  <2>1. Harvested = RegisterDatumEntity(registry, made, "plane", x)
    BY <1>4 DEF Harvested
  <2> HIDE DEF x
  <2>2. BornAs(Harvested, registry, made, made, 0, parts)
    BY <2>0, <2>1, EntityIsABirth
  <2> HIDE DEF parts
  <2>. QED
    BY <1>1, <2>2, BirthBears DEF parts
<1>5. CASE work.what = "copy"
  <2> DEFINE from == work.from
  <2>1. Harvested = HarvestCopiedBody(Named(registry, AddPrimitive(registry.book, made, parts)),
                                      made, 0, parts, MirrorRoles, from)
    BY <1>5 DEF Harvested, Rooted
  <2> HIDE DEF parts, from
  <2>2. BornAs(Harvested, registry, made, made, 0, parts)
    BY <1>1, <1>2, <2>1, CopyIsABirth
  <2>. QED
    BY <1>1, <2>2, BirthBears DEF parts
<1>. QED
  BY <1>3, <1>4, <1>5

\* The two solids of a file.
LEMMA ImportHarvested ==
  ASSUME Numbered, Registry(registry), Prepared, work.what = "import", ~ Harvested.fault
  PROVE  Bears(registry, Harvested, ToSet(work.parts[1]) \cup ToSet(work.parts[2]))
<1> DEFINE one == work.parts[1]
           two == work.parts[2]
           mid == HarvestImportedBody(registry, made, 0, one)
<1>1. Placeable(one) /\ Placeable(two) /\ IsSeq(one) /\ IsSeq(two)
  BY NewIsPlaceable DEF Prepared, Births, Placeable
<1>2. Harvested = HarvestImportedBody(mid, made, 1, two)
  BY DEF Harvested
<1>3. DOMAIN registry = States
  BY DEF Registry
<1> HIDE DEF one, two
<1>4. BornAs(mid, registry, made, made, 0, one) /\ DOMAIN mid = States
  BY <1>1, <1>3, ImportIsABirth, BirthStays
<1> HIDE DEF mid
<1>5. BornAs(Harvested, mid, made, made, 1, two) /\ ~ mid.fault
  BY <1>1, <1>2, <1>4, ImportIsABirth, BirthStays
<1>6. Bears(registry, mid, ToSet(one)) /\ Registry(mid)
  BY <1>1, <1>4, <1>5, BirthBears DEF Bears
<1>7. Bears(mid, Harvested, ToSet(two))
  BY <1>1, <1>5, <1>6, BirthBears
<1>8. Bears(registry, Harvested, ToSet(one) \cup ToSet(two))
  BY <1>6, <1>7 DEF Bears
<1>. QED
  BY <1>8 DEF one, two

\* A body that holds no record.
LEMMA BareHarvested ==
  ASSUME Registry(registry), work.what = "bare"
  PROVE  /\ Registry(Harvested) /\ Harvested.answering = registry.answering
         /\ \A x : LiveAnswers(Harvested, x) = LiveAnswers(registry, x)
<1> DEFINE naming == AddDerivedPrimitive(registry.book, made, work.parts[1])
<1>1. Harvested = Named(registry, naming)
  BY DEF Harvested
<1>2. Names(registry.book)
  BY DEF Registry
<1>3. Extends(naming.names, registry.book) /\ Names(naming.names)
  BY <1>2, DerivedNames
<1> HIDE DEF naming
<1>. QED
  BY <1>1, <1>3, NamedIsSound

\* The tool a hole is made with, before the operation itself.
LEMMA ToolHarvested ==
  ASSUME NEW st, DOMAIN st = States, Placeable(work.tool)
  PROVE  /\ DOMAIN WithTool(st) = States /\ (~ WithTool(st).fault => ~ st.fault)
         /\ Registry(st) /\ ~ WithTool(st).fault => Bears(st, WithTool(st), ToSet(work.tool))
<1> DEFINE parts == work.tool
           book == st.book
           naming == AddDerivedPrimitive(book, made, parts)
           mid == Named(st, naming)
           plan == [x \in ToSet(parts) |-> PlanFor(x, "tool")]
           next == MintBuckets(mid, made, 0, {plan[x] : x \in ToSet(parts)})
<1>1. CASE parts = << >>
  <2>1. WithTool(st) = st
    BY <1>1 DEF WithTool
  <2>2. ToSet(parts) = {}
    BY <1>1, EmptyIsSeq
  <2>. QED
    BY <2>1, <2>2 DEF Bears
<1>2. CASE parts # << >>
  <2>1. WithTool(st) = next
    <3>1. WithTool(st) = HarvestSyntheticTool(mid, made, parts)
      BY <1>2 DEF WithTool
    <3>2. {plan[x] : x \in ToSet(parts)} = {PlanFor(x, "tool") : x \in ToSet(parts)}
      OBVIOUS
    <3> HIDE DEF mid, plan
    <3>. QED
      BY <3>1, <3>2 DEF HarvestSyntheticTool
  <2>2. PlansEach(plan, parts)
    BY DEF PlansEach, PlanFor
  <2>3. IsSeq(parts)
    BY DEF Placeable
  <2> HIDE DEF plan
  <2>4. DOMAIN mid = States /\ (~ mid.fault => ~ st.fault)
    BY NamedFaults
  <2> DEFINE plans == {plan[x] : x \in ToSet(parts)}
  <2>5. IsFiniteSet(plans)
    BY <2>2, <2>3, PlansAreFinite DEF PlansEach
  <2> HIDE DEF mid, plans
  <2>6. DOMAIN next = States /\ (~ next.fault => ~ mid.fault)
    BY <2>4, <2>5, BucketsFault DEF plans
  <2>7. ASSUME Registry(st), ~ next.fault
        PROVE  Bears(st, next, ToSet(parts))
    <3>1. Names(book)
      BY <2>7 DEF Registry
    <3> HIDE DEF book
    <3>2. Extends(naming.names, book) /\ Names(naming.names) /\ ToSet(parts) \subseteq DOMAIN naming.names
      BY <3>1, DerivedNames
    <3> HIDE DEF naming
    <3>3. /\ Registry(mid) /\ mid.book = naming.names /\ mid.answering = st.answering
          /\ \A x : LiveAnswers(mid, x) = LiveAnswers(st, x)
      BY <2>7, <3>2, NamedIsSound DEF book, mid
    <3>4. Bears(mid, next, ToSet(parts))
      BY <2>2, <2>7, <3>2, <3>3, MintingBears
    <3> HIDE DEF next
    <3>. QED
      BY <3>3, <3>4 DEF Bears
  <2> HIDE DEF next, parts
  <2>. QED
    BY <2>1, <2>4, <2>6, <2>7 DEF parts
<1>. QED
  BY <1>1, <1>2

\* An operation with a history.
LEMMA OperationHarvested ==
  ASSUME Numbered, Registry(registry), Working, work.what = "operation", ~ Harvested.fault
  PROVE  Attributes(registry, Harvested, WorkSources, ToSet(work.result))
<1> DEFINE mid == WithTool(registry)
           inputs == work.inputs
           result == work.result
           history == WorkHistory
           sources == ToSet(Sources(PartsIn(inputs)))
<1>1. Harvested = Attribute(mid, made, work.class, inputs, result, history)
  BY DEF Harvested, WorkHistory
<1>2. Placeable(work.tool) /\ ToSet(work.tool) \subseteq sources
  BY DEF Working, WorkSources, Numbered, Placeable
<1>3. DOMAIN registry = States
  BY DEF Registry
<1>4. Fits(inputs, result, history) /\ IsSeq(result) /\ sources = WorkSources
  BY DEF Working, Fits, WorkSources
<1>5. DOMAIN mid = States
      /\ (~ mid.fault => Bears(registry, mid, ToSet(work.tool)))
  BY <1>2, <1>3, ToolHarvested
<1> HIDE DEF mid, inputs, result, history
<1>6. ~ mid.fault
  BY <1>1, <1>4, <1>5, AttributeFaults
<1>7. Bears(registry, mid, ToSet(work.tool)) /\ Registry(mid)
  BY <1>5, <1>6 DEF Bears
<1>8. Attributes(mid, Harvested, sources, ToSet(result))
  BY <1>1, <1>4, <1>7, AttributeIsSound
<1> HIDE DEF sources
<1>9. Attributes(registry, Harvested, sources, ToSet(result))
  BY <1>2, <1>7, <1>8 DEF Attributes, Bears
<1>. QED
  BY <1>4, <1>9 DEF result

\* The bodies and the datums after a harvest.
Remaining == bodies \ work.consumed
NextDatums == IF work.what = "datum" THEN datums \cup ToSet(work.parts[1]) ELSE datums

\* What a harvest has to give.
Settles == /\ Registry(Harvested)
           /\ ApartIn(Remaining \cup Produced, NextDatums)
           /\ IndexedIn(Harvested, Remaining \cup Produced, NextDatums)

\* A birth produces the one body it made.
LEMMA OneProduced ==
  ASSUME work.what \in {"birth", "bare", "copy"}, DOMAIN work.parts = {1}
  PROVE  \E b : /\ Produced = {b} /\ b.parts = work.parts[1] /\ (b.bare <=> work.what = "bare")
                /\ PartsOf(b) = ToSet(work.parts[1])
<1> DEFINE b == [op |-> made, out |-> 1 - 1, parts |-> work.parts[1], bare |-> work.what = "bare"]
<1>1. Produced = {b}
  <2>1. Produced = {[op |-> made, out |-> i - 1, parts |-> work.parts[i], bare |-> work.what = "bare"] :
                  i \in DOMAIN work.parts}
    BY DEF Produced
  <2>. QED
    BY <2>1
<1>2. b.parts = work.parts[1] /\ (b.bare <=> work.what = "bare")
  OBVIOUS
<1>3. PartsOf(b) = ToSet(work.parts[1])
  BY DEF PartsOf
<1> HIDE DEF b
<1>. QED
  BY <1>1, <1>2, <1>3

\* A new body or a copy.
LEMMA BodySettles ==
  ASSUME Sound, ~ Harvested.fault, work.what \in {"birth", "copy"}
  PROVE  Settles
<1>1. DOMAIN work.parts = {1} /\ New(work.parts[1]) /\ work.consumed = {}
  BY DEF Sound, Prepared, Births
<1>2. PICK b : /\ Produced = {b} /\ b.parts = work.parts[1] /\ ~ b.bare
               /\ PartsOf(b) = ToSet(work.parts[1])
  BY <1>1, OneProduced
<1>3. Bears(registry, Harvested, PartsOf(b))
  BY <1>2, BodyHarvested DEF Sound
<1>4. NextDatums = datums /\ Remaining = bodies
  BY <1>1 DEF NextDatums, Remaining
<1>5. /\ IsSeq(b.parts) /\ PartsOf(b) \subseteq 1 .. Len(shapes)
      /\ PartsOf(b) \cap (VisibleShapes(bodies) \cup datums) = {}
  BY <1>1, <1>2 DEF New
<1>6. VisibleShapes(bodies \cup {b}) = VisibleShapes(bodies) \cup PartsOf(b)
  BY DEF VisibleShapes
<1>7. \A c \in bodies : PartsOf(c) \subseteq VisibleShapes(bodies)
  BY DEF VisibleShapes
<1>8. ApartIn(bodies \cup {b}, datums)
  BY <1>5, <1>7 DEF Sound, Apart, ApartIn
<1>9. IndexedIn(Harvested, bodies \cup {b}, datums)
  BY <1>2, <1>3, <1>6 DEF Sound, Indexed, IndexedIn, Bears
<1>. QED
  BY <1>2, <1>3, <1>4, <1>8, <1>9 DEF Settles, Bears

\* A body that holds no record.
LEMMA BareSettles ==
  ASSUME Sound, ~ Harvested.fault, work.what = "bare"
  PROVE  Settles
<1>1. DOMAIN work.parts = {1} /\ New(work.parts[1]) /\ work.consumed = {}
  BY DEF Sound, Prepared, Births
<1>2. PICK b : /\ Produced = {b} /\ b.parts = work.parts[1] /\ b.bare
               /\ PartsOf(b) = ToSet(work.parts[1])
  BY <1>1, OneProduced
<1>3. /\ Registry(Harvested) /\ Harvested.answering = registry.answering
      /\ \A x : LiveAnswers(Harvested, x) = LiveAnswers(registry, x)
  BY BareHarvested DEF Sound
<1>4. NextDatums = datums /\ Remaining = bodies
  BY <1>1 DEF NextDatums, Remaining
<1>5. /\ IsSeq(b.parts) /\ PartsOf(b) \subseteq 1 .. Len(shapes)
      /\ PartsOf(b) \cap (VisibleShapes(bodies) \cup datums) = {}
  BY <1>1, <1>2 DEF New
<1>6. VisibleShapes(bodies \cup {b}) = VisibleShapes(bodies) \cup PartsOf(b)
  BY DEF VisibleShapes
<1>7. \A c \in bodies : PartsOf(c) \subseteq VisibleShapes(bodies)
  BY DEF VisibleShapes
<1>8. ApartIn(bodies \cup {b}, datums)
  BY <1>5, <1>7 DEF Sound, Apart, ApartIn
<1>9. IndexedIn(Harvested, bodies \cup {b}, datums)
  BY <1>2, <1>3, <1>6 DEF Sound, Indexed, IndexedIn
<1>. QED
  BY <1>2, <1>3, <1>4, <1>8, <1>9 DEF Settles

\* A datum.
LEMMA DatumSettles ==
  ASSUME Sound, ~ Harvested.fault, work.what = "datum"
  PROVE  Settles
<1> DEFINE parts == work.parts[1]
<1>1. New(parts) /\ work.consumed = {} /\ Produced = {}
  BY DEF Sound, Prepared, Births, Produced
<1>2. NextDatums = datums \cup ToSet(parts) /\ Remaining = bodies
  BY <1>1 DEF NextDatums, Remaining
<1>3. Bears(registry, Harvested, ToSet(parts))
  BY BodyHarvested DEF Sound
<1> HIDE DEF parts
<1>4. \A c \in bodies : PartsOf(c) \subseteq VisibleShapes(bodies)
  BY DEF VisibleShapes
<1>5. ApartIn(bodies, datums \cup ToSet(parts))
  BY <1>1, <1>4 DEF Sound, Apart, ApartIn, New
<1>6. IndexedIn(Harvested, bodies, datums \cup ToSet(parts))
  BY <1>3 DEF Sound, Indexed, IndexedIn, Bears
<1>. QED
  BY <1>1, <1>2, <1>3, <1>5, <1>6 DEF Settles, Bears

\* Two solids.
LEMMA ImportSettles ==
  ASSUME Sound, ~ Harvested.fault, work.what = "import"
  PROVE  Settles
<1> DEFINE one == [op |-> made, out |-> 1 - 1, parts |-> work.parts[1], bare |-> work.what = "bare"]
           two == [op |-> made, out |-> 2 - 1, parts |-> work.parts[2], bare |-> work.what = "bare"]
<1>1. /\ DOMAIN work.parts = {1, 2} /\ work.consumed = {} /\ New(work.parts[1]) /\ New(work.parts[2])
      /\ ToSet(work.parts[1]) \cap ToSet(work.parts[2]) = {}
  BY DEF Sound, Prepared
<1>2. Produced = {one, two}
  <2>1. Produced = {[op |-> made, out |-> i - 1, parts |-> work.parts[i], bare |-> work.what = "bare"] :
                  i \in DOMAIN work.parts}
    BY DEF Produced
  <2>. QED
    BY <1>1, <2>1
<1>3. /\ one.parts = work.parts[1] /\ two.parts = work.parts[2] /\ ~ one.bare /\ ~ two.bare
      /\ PartsOf(one) = ToSet(work.parts[1]) /\ PartsOf(two) = ToSet(work.parts[2])
  BY DEF PartsOf
<1> HIDE DEF one, two
<1>4. Bears(registry, Harvested, PartsOf(one) \cup PartsOf(two))
  BY <1>3, ImportHarvested DEF Sound
<1>5. NextDatums = datums /\ Remaining = bodies
  BY <1>1 DEF NextDatums, Remaining
<1>6. /\ IsSeq(one.parts) /\ PartsOf(one) \subseteq 1 .. Len(shapes)
      /\ PartsOf(one) \cap (VisibleShapes(bodies) \cup datums) = {}
      /\ IsSeq(two.parts) /\ PartsOf(two) \subseteq 1 .. Len(shapes)
      /\ PartsOf(two) \cap (VisibleShapes(bodies) \cup datums) = {}
      /\ PartsOf(one) \cap PartsOf(two) = {}
  BY <1>1, <1>3 DEF New
<1> DEFINE all == bodies \cup {one, two}
<1>7. VisibleShapes(all) = VisibleShapes(bodies) \cup PartsOf(one) \cup PartsOf(two)
  BY DEF VisibleShapes
<1>8. \A c \in bodies : PartsOf(c) \subseteq VisibleShapes(bodies)
  BY DEF VisibleShapes
<1>9. ApartIn(all, datums)
  BY <1>6, <1>8 DEF Sound, Apart, ApartIn
<1>10. IndexedIn(Harvested, all, datums)
  BY <1>3, <1>4, <1>7 DEF Sound, Indexed, IndexedIn, Bears
<1>. QED
  BY <1>2, <1>4, <1>5, <1>9, <1>10 DEF Settles, Bears

\* An operation: the bodies it consumed go, its result comes.
LEMMA OperationSettles ==
  ASSUME Sound, ~ Harvested.fault, work.what = "operation"
  PROVE  Settles
<1> DEFINE b == [op |-> made, out |-> 0, parts |-> work.result, bare |-> FALSE]
           result == ToSet(work.result)
           old == bodies \ work.consumed
           kept == VisibleShapes(old)
<1>1. Produced = {b} /\ NextDatums = datums /\ Remaining = old
  BY DEF Produced, NextDatums, Remaining
<1>2. b.parts = work.result /\ PartsOf(b) = result /\ b.bare = FALSE
  BY DEF PartsOf
<1> HIDE DEF b
<1>3. /\ IsSeq(work.result) /\ result \subseteq 1 .. Len(shapes)
      /\ VisibleShapes(work.consumed) \subseteq WorkSources
      /\ (WorkSources \cup result) \cap (kept \cup datums) = {}
  BY DEF Sound, Prepared, Working, Fits
<1>4. Attributes(registry, Harvested, WorkSources, result)
  BY OperationHarvested DEF Sound, Prepared
<1>5. VisibleShapes(bodies) \subseteq VisibleShapes(work.consumed) \cup kept
  BY DEF VisibleShapes
<1>6. VisibleShapes(old \cup {b}) = kept \cup result
  BY <1>2 DEF VisibleShapes
<1>7. \A c \in old : PartsOf(c) \subseteq kept /\ c \in bodies
  BY DEF VisibleShapes
<1> HIDE DEF kept, old, result
<1>8. ApartIn(old \cup {b}, datums)
  BY <1>2, <1>3, <1>7 DEF Sound, Apart, ApartIn
<1>9. IndexedIn(Harvested, old \cup {b}, datums)
  <2>1. DOMAIN Harvested.answering \subseteq VisibleShapes(old \cup {b}) \cup datums
    BY <1>3, <1>4, <1>5, <1>6 DEF Sound, Indexed, IndexedIn, Attributes
  <2>2. ASSUME NEW c \in old, ~ c.bare, NEW x \in PartsOf(c)
        PROVE  LiveAnswers(Harvested, x) # {}
    BY <1>3, <1>4, <1>7, <2>2 DEF Sound, Indexed, IndexedIn, Attributes
  <2>3. \A x \in PartsOf(b) : LiveAnswers(Harvested, x) # {}
    BY <1>2, <1>4 DEF Attributes
  <2>. QED
    BY <2>1, <2>2, <2>3 DEF IndexedIn
<1>. QED
  BY <1>1, <1>4, <1>8, <1>9 DEF Settles, Attributes

\* Whatever was built.
LEMMA HarvestSettles ==
  ASSUME Sound, work # Idle, ~ Harvested.fault
  PROVE  Settles
  BY BodySettles, BareSettles, DatumSettles, ImportSettles, OperationSettles
     DEF Sound, Prepared, Births

\* The sub-shapes that were there stay as they are.
Grows == /\ IsSeq(shapes') /\ Len(shapes) <= Len(shapes')
         /\ \A x \in 1 .. Len(shapes) : shapes'[x] = shapes[x]

\* A sound registry stays sound while sub-shapes are only added.
LEMMA RegistryStays ==
  ASSUME Numbered, Numbered', Grows, NEW STATE st, Registry(st), registry' = st
  PROVE  Registry(registry)'
<1>0. \A i \in 1 .. Len(st.records) : st.records[i].live => Speaks(st, i)
  BY DEF Registry
<1>1. 1 .. Len(shapes) \subseteq 1 .. Len(shapes')
  <2>1. Len(shapes) \in Nat /\ Len(shapes') \in Nat
    BY DEF Numbered, IsSeq
  <2>. QED
    BY <2>1 DEF Grows
<1>2. /\ DOMAIN registry' = States
      /\ Names(registry'.book)
      /\ IsSeq(registry'.records) /\ \A i \in 1 .. Len(registry'.records) : DOMAIN registry'.records[i] = Fields
  BY DEF Registry
<1>3. Chains(registry')
  BY DEF Registry, Chains
<1>4. ASSUME NEW i \in 1 .. Len(registry'.records), registry'.records[i].live
      PROVE  Speaks(registry, i)'
  BY <1>0, <1>1, <1>4 DEF Speaks, Grows
<1>. QED
  BY <1>2, <1>3, <1>4 DEF Registry, Names, Chains

\* A step that begins a piece of work keeps what there is.
Adds(new) ==
  /\ IsSeq(new) /\ shapes' = shapes \o new
  /\ \A i \in 1 .. Len(new) : Len(shapes) + i \in new[i].continues

\* New sub-shapes under their numbers.
LEMMA AddingGrows ==
  ASSUME Numbered, NEW STATE new, Adds(new)
  PROVE  Grows /\ Numbered' /\ Len(shapes') = Len(shapes) + Len(new)
<1>1. IsSeq(shapes) /\ IsSeq(new)
  BY DEF Numbered, Adds
<1>2. /\ IsSeq(shapes') /\ Len(shapes') = Len(shapes) + Len(new)
      /\ \A x \in 1 .. Len(shapes) : shapes'[x] = shapes[x]
      /\ \A i \in 1 .. Len(new) : shapes'[Len(shapes) + i] = new[i]
  BY <1>1, PutTogether DEF Adds
<1>3. Len(shapes) \in Nat /\ Len(new) \in Nat
  BY <1>1 DEF IsSeq
<1>4. Numbered'
  <2>1. ASSUME NEW x \in 1 .. Len(shapes') PROVE x \in shapes'[x].continues
    <3>1. CASE x \in 1 .. Len(shapes)
      BY <1>2, <3>1 DEF Numbered
    <3>2. CASE x \notin 1 .. Len(shapes)
      <4> DEFINE i == x - Len(shapes)
      <4>1. i \in 1 .. Len(new) /\ x = Len(shapes) + i
        BY <1>2, <1>3, <2>1, <3>2
      <4> HIDE DEF i
      <4>. QED
        BY <1>2, <4>1 DEF Adds
    <3>. QED
      BY <3>1, <3>2
  <2>. QED
    BY <1>2, <2>1 DEF Numbered
<1>. QED
  BY <1>2, <1>3, <1>4 DEF Grows

\* Bodies stay apart.
LEMMA ApartStays ==
  ASSUME Apart, Len(shapes) \in Nat, Len(shapes') \in Nat, Len(shapes) <= Len(shapes'),
         UNCHANGED <<bodies, datums>>
  PROVE  Apart'
<1>1. 1 .. Len(shapes) \subseteq 1 .. Len(shapes')
  OBVIOUS
<1>. QED
  BY <1>1 DEF Apart, ApartIn, PartsOf

\* What is indexed stays indexed.
LEMMA IndexStays ==
  ASSUME Indexed, UNCHANGED <<registry, bodies, datums>>
  PROVE  Indexed'
  BY DEF Indexed, IndexedIn, PartsOf, VisibleShapes, LiveAnswers, Answering

\* The first half of every operation.
LEMMA StartKeeps ==
  ASSUME Sound, NEW STATE new, NEW STATE job, IsSeq(new),
         \A i \in 1 .. Len(new) : Len(shapes) + i \in new[i].continues, Start(new, job), Prepared'
  PROVE  Sound'
<1>1. Adds(new) /\ UNCHANGED <<document, registry, bodies, datums>> /\ made' = made + 1
  BY DEF Start, Adds
<1>2. Grows /\ Numbered' /\ Len(shapes') = Len(shapes) + Len(new)
  BY <1>1, AddingGrows DEF Sound
<1>3. Registry(registry)'
  BY <1>1, <1>2, RegistryStays DEF Sound
<1>4. Apart'
  BY <1>1, <1>2, ApartStays DEF Sound, Numbered, Grows, IsSeq
<1>5. Indexed'
  BY <1>1, IndexStays DEF Sound
<1>6. Counted'
  BY <1>1 DEF Sound, Counted
<1>. QED
  BY <1>2, <1>3, <1>4, <1>5, <1>6 DEF Sound

\* Ids past those there are.
Past(parts, new) ==
  IsSeq(parts) /\ ToSet(parts) \subseteq Len(shapes) + 1 .. Len(shapes) + Len(new)

\* Ids past those there were are of no body and no datum.
LEMMA PastIsNew ==
  ASSUME Sound, NEW STATE new, NEW STATE job, IsSeq(new), Start(new, job), NEW STATE parts, Past(parts, new)
  PROVE  /\ IsSeq(parts) /\ ToSet(parts) \subseteq 1 .. Len(shapes')
         /\ ToSet(parts) \cap (VisibleShapes(bodies') \cup datums') = {}
<1>1. IsSeq(shapes) /\ shapes' = shapes \o new /\ UNCHANGED <<bodies, datums>>
  BY DEF Start, Sound, Numbered
<1>2. Len(shapes') = Len(shapes) + Len(new) /\ Len(shapes) \in Nat /\ Len(new) \in Nat
  BY <1>1, PutTogether DEF IsSeq
<1>3. VisibleShapes(bodies) \cup datums \subseteq 1 .. Len(shapes)
  BY DEF Sound, Apart, ApartIn, VisibleShapes
<1>. QED
  BY <1>1, <1>2, <1>3 DEF Past

\* A birth begins.
LEMMA BirthStarts ==
  ASSUME Sound, NEW STATE new, NEW STATE job, IsSeq(new),
         \A i \in 1 .. Len(new) : Len(shapes) + i \in new[i].continues, Start(new, job),
         job.what \in Births, DOMAIN job.parts = {1}, job.consumed = {}, Past(job.parts[1], new),
         job.what = "datum" => job.parts[1] = <<job.parts[1][1]>>
  PROVE  Sound'
<1>1. work' = job
  BY DEF Start
<1>2. New(work.parts[1])'
  <2> DEFINE parts == job.parts[1]
  <2>1. Past(parts, new)
    OBVIOUS
  <2> HIDE DEF parts
  <2>2. /\ IsSeq(parts) /\ ToSet(parts) \subseteq 1 .. Len(shapes')
        /\ ToSet(parts) \cap (VisibleShapes(bodies') \cup datums') = {}
    BY <2>1, PastIsNew
  <2>. QED
    BY <1>1, <2>2 DEF New, parts, VisibleShapes, PartsOf
<1>3. Prepared'
  <2>1. /\ work'.what \in Births /\ DOMAIN work'.parts = {1} /\ work'.consumed = {}
        /\ work'.what = "datum" => work'.parts[1] = <<work'.parts[1][1]>>
    BY <1>1
  <2>. QED
    BY <1>2, <2>1 DEF Prepared, Births
<1>. QED
  BY <1>3, StartKeeps

\* An import begins.
LEMMA ImportStarts ==
  ASSUME Sound, NEW STATE new, NEW STATE job, IsSeq(new),
         \A i \in 1 .. Len(new) : Len(shapes) + i \in new[i].continues, Start(new, job),
         job.what = "import", DOMAIN job.parts = {1, 2}, job.consumed = {},
         Past(job.parts[1], new), Past(job.parts[2], new),
         ToSet(job.parts[1]) \cap ToSet(job.parts[2]) = {}
  PROVE  Sound'
<1>1. work' = job
  BY DEF Start
<1>2. New(work.parts[1])'
  <2> DEFINE parts == job.parts[1]
  <2>1. Past(parts, new)
    OBVIOUS
  <2> HIDE DEF parts
  <2>2. /\ IsSeq(parts) /\ ToSet(parts) \subseteq 1 .. Len(shapes')
        /\ ToSet(parts) \cap (VisibleShapes(bodies') \cup datums') = {}
    BY <2>1, PastIsNew
  <2>. QED
    BY <1>1, <2>2 DEF New, parts, VisibleShapes, PartsOf
<1>3. New(work.parts[2])'
  <2> DEFINE parts == job.parts[2]
  <2>1. Past(parts, new)
    OBVIOUS
  <2> HIDE DEF parts
  <2>2. /\ IsSeq(parts) /\ ToSet(parts) \subseteq 1 .. Len(shapes')
        /\ ToSet(parts) \cap (VisibleShapes(bodies') \cup datums') = {}
    BY <2>1, PastIsNew
  <2>. QED
    BY <1>1, <2>2 DEF New, parts, VisibleShapes, PartsOf
<1>4. Prepared'
  <2>1. /\ work'.what = "import" /\ DOMAIN work'.parts = {1, 2} /\ work'.consumed = {}
        /\ ToSet(work'.parts[1]) \cap ToSet(work'.parts[2]) = {}
    BY <1>1
  <2>. QED
    BY <1>2, <1>3, <2>1 DEF Prepared, Births
<1>. QED
  BY <1>4, StartKeeps

\* What a template gives.
LEMMA TemplatesPlaced ==
  ASSUME NEW template, IsTemplate(template), NEW base \in Nat
  PROVE  /\ IsSeq(Placed(template, base)) /\ Len(Placed(template, base)) = Len(template)
         /\ \A i \in 1 .. Len(template) : base + i \in Placed(template, base)[i].continues
         /\ IsSeq(Ids(template, base)) /\ Len(Ids(template, base)) = Len(template)
         /\ ToSet(Ids(template, base)) = base + 1 .. base + Len(template)
<1> DEFINE n == Len(template)
           each(i) == Fresh(<< >>, template[i].kind, {base + j : j \in template[i].below}, template[i].looks,
                            base + i, {}, {})
           placed == Placed(template, base)
           ids == Ids(template, base)
<1>1. n \in Nat /\ DOMAIN template = 1 .. n
  BY DEF IsTemplate
<1>2. \A i : base + i \in each(i).continues
  BY DEF Fresh
<1> HIDE DEF each, n
<1>3. placed = [i \in 1 .. n |-> each(i)]
  BY <1>1 DEF Placed, each
<1>4. \A i \in 1 .. n : placed[i] = each(i)
  BY <1>3
<1>5. ids = [i \in 1 .. n |-> base + i]
  BY <1>1 DEF Ids
<1> HIDE DEF placed, ids
<1>6. placed = [i \in 1 .. n |-> placed[i]] /\ ids = [i \in 1 .. n |-> ids[i]]
  BY <1>3, <1>5
<1>7. IsSeq(placed) /\ Len(placed) = n /\ IsSeq(ids) /\ Len(ids) = n
  BY <1>1, <1>6, FunctionIsSeq
<1>8. ToSet(ids) = base + 1 .. base + n
  <2>1. ToSet(ids) = {base + i : i \in 1 .. n}
    BY <1>5 DEF ToSet
  <2>2. ASSUME NEW x \in base + 1 .. base + n PROVE x - base \in 1 .. n /\ x = base + (x - base)
    BY <1>1
  <2>. QED
    BY <1>1, <2>1, <2>2
<1>. QED
  BY <1>2, <1>4, <1>7, <1>8 DEF placed, ids, n

\* The numbers of sub-shapes are naturals.
LEMMA NumbersCount ==
  ASSUME Sound
  PROVE  IsSeq(shapes) /\ Len(shapes) \in Nat /\ Len(shapes) + 1 \in Nat
  BY DEF Sound, Numbered, IsSeq

\* wire_route.
LEMMA WireRouteKeeps ==
  ASSUME Sound, WireRoute
  PROVE  Sound'
<1> DEFINE base == Len(shapes)
           new == Placed(Solid, base)
           ids == Ids(Solid, base)
           job == [Idle EXCEPT !.what = "bare", !.parts = <<ids>>]
<1>1. base \in Nat /\ IsTemplate(Solid)
  BY NumbersCount, DocumentsAssumption
<1>2. Start(new, job)
  BY DEF WireRoute
<1>3. job.what = "bare" /\ DOMAIN job.parts = {1} /\ job.parts[1] = ids /\ job.consumed = {}
  BY DEF Idle
<1> HIDE DEF job
<1>4. /\ IsSeq(new) /\ Len(new) = Len(Solid)
      /\ \A i \in 1 .. Len(Solid) : base + i \in new[i].continues
      /\ IsSeq(ids) /\ ToSet(ids) = base + 1 .. base + Len(Solid)
  BY <1>1, TemplatesPlaced
<1> HIDE DEF new, ids
<1>5. Past(job.parts[1], new)
  BY <1>3, <1>4 DEF Past
<1>. QED
  BY <1>2, <1>3, <1>4, <1>5, BirthStarts DEF Births

\* create_*, extrude, revolve.
LEMMA BearKeeps ==
  ASSUME Sound, Bear
  PROVE  Sound'
<1> DEFINE birth == document.births[made + 1]
           template == birth.template
           base == Len(shapes)
           new == Placed(template, base)
           ids == Ids(template, base)
           job == [Idle EXCEPT !.what = "birth", !.class = birth.class, !.ends = birth.ends,
                           !.parts = <<ids>>,
                           !.side = [x \in {base + i : i \in DOMAIN template} |-> template[x - base].side]]
<1>1. base \in Nat
  BY NumbersCount
<1>2. IsTemplate(template)
  <2>1. document \in Documents /\ made \in Nat /\ made < Len(document.births)
    BY DEF Sound, Counted, Bear
  <2>2. Len(document.births) \in Nat
        /\ \A i \in 1 .. Len(document.births) : IsTemplate(document.births[i].template)
    BY <2>1, DocumentsAssumption
  <2>3. made + 1 \in 1 .. Len(document.births)
    BY <2>1, <2>2
  <2>. QED
    BY <2>2, <2>3
<1>3. Start(new, job)
  BY DEF Bear
<1>4. job.what = "birth" /\ DOMAIN job.parts = {1} /\ job.parts[1] = ids /\ job.consumed = {}
  BY DEF Idle
<1> HIDE DEF job, template
<1>5. /\ IsSeq(new) /\ Len(new) = Len(template)
      /\ \A i \in 1 .. Len(template) : base + i \in new[i].continues
      /\ IsSeq(ids) /\ ToSet(ids) = base + 1 .. base + Len(template)
  BY <1>1, <1>2, TemplatesPlaced
<1> HIDE DEF new, ids
<1>6. Past(job.parts[1], new)
  BY <1>4, <1>5 DEF Past
<1>. QED
  BY <1>3, <1>4, <1>5, <1>6, BirthStarts DEF Births

\* datum_plane.
LEMMA DatumPlaneKeeps ==
  ASSUME Sound, DatumPlane
  PROVE  Sound'
<1> DEFINE base == Len(shapes)
           plane == Fresh(<< >>, "f", {}, <<"plane", 0, Frame(9, 0, 0)>>, base + 1, {}, {})
           new == <<plane>>
           ids == <<base + 1>>
           job == [Idle EXCEPT !.what = "datum", !.parts = <<ids>>]
<1>1. base \in Nat
  BY NumbersCount
<1>2. Start(new, job)
  BY DEF DatumPlane
<1>3. /\ job.what = "datum" /\ DOMAIN job.parts = {1} /\ job.parts[1] = ids /\ job.consumed = {}
      /\ ids[1] = base + 1
  BY DEF Idle
<1>4. base + 1 \in plane.continues
  BY DEF Fresh
<1> HIDE DEF job, plane
<1>5. IsSeq(new) /\ Len(new) = 1 /\ new[1] = plane
  BY SingleIsSeq
<1>6. IsSeq(ids) /\ ToSet(ids) = {base + 1}
  BY SingleIsSeq
<1>7. job.parts[1] = <<job.parts[1][1]>>
  BY <1>3
<1> HIDE DEF new, ids
<1>8. Past(job.parts[1], new)
  BY <1>1, <1>3, <1>5, <1>6 DEF Past
<1>9. \A i \in 1 .. Len(new) : base + i \in new[i].continues
  BY <1>4, <1>5
<1>. QED
  BY <1>2, <1>3, <1>5, <1>7, <1>8, <1>9, BirthStarts DEF Births

\* import_step.
LEMMA ImportKeeps ==
  ASSUME Sound, Import
  PROVE  Sound'
<1> DEFINE base == Len(shapes)
           n == Len(Solid)
           second == base + n
           one == Placed(Solid, base)
           two == Placed(Solid, second)
           new == one \o two
           first == Ids(Solid, base)
           last == Ids(Solid, second)
           job == [Idle EXCEPT !.what = "import", !.parts = <<first, last>>]
<1>1. base \in Nat /\ IsTemplate(Solid) /\ n \in Nat
  BY NumbersCount, DocumentsAssumption DEF IsTemplate
<1>2. Start(new, job)
  BY DEF Import
<1>3. /\ job.what = "import" /\ DOMAIN job.parts = {1, 2} /\ job.consumed = {}
      /\ job.parts[1] = first /\ job.parts[2] = last
  BY DEF Idle
<1> HIDE DEF job
<1>4. /\ IsSeq(one) /\ Len(one) = n
      /\ \A i \in 1 .. n : base + i \in one[i].continues
      /\ IsSeq(first) /\ ToSet(first) = base + 1 .. base + n
  BY <1>1, TemplatesPlaced
<1>5. second \in Nat
  BY <1>1
<1> HIDE DEF second
<1>6. /\ IsSeq(two) /\ Len(two) = n
      /\ \A i \in 1 .. n : second + i \in two[i].continues
      /\ IsSeq(last) /\ ToSet(last) = second + 1 .. second + n
  BY <1>1, <1>5, TemplatesPlaced
<1> HIDE DEF one, two, first, last
<1>7. /\ IsSeq(new) /\ Len(new) = n + n
      /\ \A i \in 1 .. n : new[i] = one[i]
      /\ \A i \in 1 .. n : new[n + i] = two[i]
  <2>1. IsSeq(one) /\ IsSeq(two)
    BY <1>4, <1>6
  <2>2. /\ IsSeq(new) /\ Len(new) = Len(one) + Len(two)
        /\ \A i \in 1 .. Len(one) : new[i] = one[i]
        /\ \A i \in 1 .. Len(two) : new[Len(one) + i] = two[i]
    BY <2>1, PutTogether
  <2>3. Len(one) = n /\ Len(two) = n
    BY <1>4, <1>6
  <2>. QED
    BY <2>2, <2>3
<1> HIDE DEF new
<1>8. ASSUME NEW i \in 1 .. Len(new) PROVE base + i \in new[i].continues
  <2>1. CASE i \in 1 .. n
    BY <1>4, <1>7, <2>1
  <2>2. CASE i \notin 1 .. n
    <3> DEFINE j == i - n
    <3>1. j \in 1 .. n /\ i = n + j /\ base + i = second + j
      BY <1>1, <1>7, <1>8, <2>2 DEF second
    <3> HIDE DEF j
    <3>. QED
      BY <1>6, <1>7, <3>1
  <2>. QED
    BY <2>1, <2>2
<1>9. Past(job.parts[1], new) /\ Past(job.parts[2], new)
      /\ ToSet(job.parts[1]) \cap ToSet(job.parts[2]) = {}
  BY <1>1, <1>3, <1>4, <1>6, <1>7 DEF Past, second
<1>. QED
  BY <1>2, <1>3, <1>7, <1>8, <1>9, ImportStarts

\* mirror without merge.
LEMMA MirrorCopyKeeps ==
  ASSUME Sound, MirrorCopy
  PROVE  Sound'
<1>1. PICK b \in bodies :
        LET source == b.parts
            base == Len(shapes)
            at(x) == base + CHOOSE i \in DOMAIN source : source[i] = x
        IN Start([i \in DOMAIN source |->
                   Fresh(shapes, Kind(source[i]), {at(y) : y \in Below(source[i])},
                         Elsewhere(shapes[source[i]].looks), base + i, {source[i]}, {})],
                [Idle EXCEPT !.what = "copy", !.parts = <<[i \in DOMAIN source |-> base + i]>>,
                             !.from = [x \in {base + i : i \in DOMAIN source} |-> source[x - base]]])
  BY Zenon DEF MirrorCopy
<1> DEFINE source == b.parts
           base == Len(shapes)
           n == Len(source)
           at(x) == base + CHOOSE i \in DOMAIN source : source[i] = x
           each(i) == Fresh(shapes, Kind(source[i]), {at(y) : y \in Below(source[i])},
                         Elsewhere(shapes[source[i]].looks), base + i, {source[i]}, {})
           new == [i \in DOMAIN source |-> each(i)]
           ids == [i \in DOMAIN source |-> base + i]
           job == [Idle EXCEPT !.what = "copy", !.parts = <<ids>>,
                             !.from = [x \in {base + i : i \in DOMAIN source} |-> source[x - base]]]
<1>2. Start(new, job)
  BY <1>1, Zenon
<1>3. job.what = "copy" /\ DOMAIN job.parts = {1} /\ job.parts[1] = ids /\ job.consumed = {}
  BY DEF Idle
<1>4. \A i : base + i \in each(i).continues
  BY DEF Fresh
<1> HIDE DEF job, each
<1>5. base \in Nat /\ n \in Nat /\ DOMAIN source = 1 .. n
  <2>1. IsSeq(source)
    BY DEF Sound, Apart, ApartIn
  <2> HIDE DEF source
  <2>. QED
    BY <2>1, NumbersCount, IsSeqIn
<1>6. new = [i \in 1 .. n |-> new[i]] /\ ids = [i \in 1 .. n |-> ids[i]]
      /\ \A i \in 1 .. n : new[i] = each(i)
  BY <1>5
<1>7. ToSet(ids) = base + 1 .. base + n
  <2>1. ToSet(ids) = {base + i : i \in 1 .. n}
    BY <1>5 DEF ToSet
  <2>2. ASSUME NEW x \in base + 1 .. base + n PROVE x - base \in 1 .. n /\ x = base + (x - base)
    BY <1>5
  <2> HIDE DEF ids, n, base
  <2>. QED
    BY <1>5, <2>1, <2>2
<1> HIDE DEF new, ids, n
<1>8. IsSeq(new) /\ Len(new) = n /\ IsSeq(ids) /\ Len(ids) = n
  BY <1>5, <1>6, FunctionIsSeq
<1>9. \A i \in 1 .. Len(new) : base + i \in new[i].continues
  BY <1>4, <1>6, <1>8
<1>10. Past(job.parts[1], new)
  BY <1>3, <1>7, <1>8 DEF Past
<1>. QED
  BY <1>2, <1>3, <1>8, <1>9, <1>10, BirthStarts DEF Births

(***************************************************************************)
(* Operations.                                                             *)
(***************************************************************************)
\* The numbers after b.
LEMMA Shifted ==
  ASSUME NEW b \in Nat, NEW n \in Nat
  PROVE  {b + i : i \in 1 .. n} = b + 1 .. b + n
<1>1. ASSUME NEW x \in b + 1 .. b + n PROVE x - b \in 1 .. n /\ x = b + (x - b)
  OBVIOUS
<1>. QED
  BY <1>1

\* The number of a new sub-shape is the one of its place.
LEMMA NumberIn ==
  ASSUME NEW refs, IsSeq(refs), NEW base, NEW ref \in ToSet(refs), ref.what # "old"
  PROVE  \E i \in 1 .. Len(refs) : Number(refs, base, ref) = base + i /\ refs[i] = ref
<1> DEFINE i == CHOOSE j \in DOMAIN refs : refs[j] = ref
<1>1. DOMAIN refs = 1 .. Len(refs) /\ \E j \in 1 .. Len(refs) : refs[j] = ref
  BY IsSeqIn
<1>2. i \in 1 .. Len(refs) /\ refs[i] = ref
  BY <1>1
<1>3. Number(refs, base, ref) = base + i
  BY DEF Number
<1> HIDE DEF i
<1>. QED
  BY <1>2, <1>3

\* The only image of a source continues what the source continues.
ContinuesIn(built, known, refs, modified) ==
  /\ IsSeq(built) /\ Len(built) = Len(refs)
  /\ \A i \in 1 .. Len(refs) :
       /\ Len(known) + i \in built[i].continues
       /\ \A p \in modified : (p[2] = refs[i] /\ ImagesOf(modified, p[1]) = {refs[i]})
            => known[p[1]].continues \subseteq built[i].continues

\* What Built makes of the modifications.
LEMMA BuiltContinues ==
  ASSUME NEW known, NEW refs, IsSeq(refs), NEW below, NEW looks, NEW modified, NEW generated
  PROVE  ContinuesIn(Built(known, refs, below, looks, modified, generated), known, refs, modified)
<1> DEFINE base == Len(known)
           n == Len(refs)
           into(pairs, i) == {pair[1] : pair \in {p \in pairs : p[2] = refs[i]}}
           alone(i) == {s \in into(modified, i) : Cardinality(ImagesOf(modified, s)) = 1}
           each(i) == Fresh(known, Kinds[refs[i].what], {Number(refs, base, ref) : ref \in below[refs[i]]},
                            looks[refs[i]], base + i, into(modified, i) \cup into(generated, i), alone(i))
           built == Built(known, refs, below, looks, modified, generated)
<1>1. n \in Nat /\ DOMAIN refs = 1 .. n
  BY IsSeqIn
<1>2. built = [i \in DOMAIN refs |-> each(i)]
  BY Zenon DEF Built
<1>3. \A i : each(i).continues = {base + i} \cup UNION {known[s].continues : s \in alone(i)}
  BY DEF Fresh
<1> HIDE DEF each, built
<1>4. built = [i \in 1 .. n |-> built[i]] /\ \A i \in 1 .. n : built[i] = each(i)
  BY <1>1, <1>2
<1>5. IsSeq(built) /\ Len(built) = n
  BY <1>1, <1>4, FunctionIsSeq
<1>6. ASSUME NEW i \in 1 .. n, NEW p \in modified, p[2] = refs[i], ImagesOf(modified, p[1]) = {refs[i]}
      PROVE  known[p[1]].continues \subseteq built[i].continues
  <2> DEFINE s == p[1]
  <2>1. s \in into(modified, i)
    BY <1>6
  <2>2. Cardinality(ImagesOf(modified, s)) = 1
    BY <1>6, FS_Singleton
  <2>3. s \in alone(i)
    BY <2>1, <2>2
  <2> HIDE DEF alone, s
  <2>4. known[s].continues \subseteq built[i].continues
    BY <1>3, <1>4, <2>3
  <2>. QED
    BY <2>4 DEF s
<1>7. \A i \in 1 .. n : base + i \in built[i].continues
  BY <1>3, <1>4
<1> HIDE DEF alone, into
<1>. QED
  BY <1>5, <1>6, <1>7 DEF built, base, n, ContinuesIn

\* What an operation is given, and what it takes and leaves.
Given(inputs, tool, consumed, placed, set, kept, modified) ==
  LET sources == ToSet(Sources(PartsIn(inputs)))
  IN /\ IsSeq(placed) /\ \A i \in 1 .. Len(placed) : Len(shapes) + i \in placed[i].continues
     /\ InputsFit(inputs)
     /\ kept \subseteq sources
     /\ \A p \in modified : p[2] \in set /\ p[2].what # "old"
     /\ consumed \subseteq bodies /\ VisibleShapes(consumed) \subseteq sources
     /\ sources \subseteq VisibleShapes(consumed) \cup Len(shapes) + 1 .. Len(shapes) + Len(placed)
     /\ IsSeq(tool) /\ ToSet(tool) \subseteq sources

\* The images of a source are new, and an only image is told by one pair.
Reports(history, modified, refs, base, s) ==
  LET images == ImagesIn(history, "modified", s)
  IN /\ \A x \in images : x \in base + 1 .. base + Len(refs)
     /\ \A x : images = {x} =>
          \E i \in 1 .. Len(refs) : /\ x = base + i /\ ImagesOf(modified, s) = {refs[i]}
                                    /\ \E p \in modified : p[1] = s /\ p[2] = refs[i]

\* What History tells of the modifications.
LEMMA ImagesReported ==
  ASSUME NEW refs, IsSeq(refs), NEW base \in Nat, NEW modified,
         \A p \in modified : p[2] \in ToSet(refs) /\ p[2].what # "old", NEW s,
         NEW history, history.modified = History(refs, base, modified)
  PROVE  Reports(history, modified, refs, base, s)
<1> DEFINE images == ImagesIn(history, "modified", s)
           of == ImagesOf(modified, s)
           number(ref) == Number(refs, base, ref)
<1>1. of = {p[2] : p \in {q \in modified : q[1] = s}}
  BY DEF ImagesOf
<1>2. \A ref \in of : ref \in ToSet(refs) /\ ref.what # "old" /\ \E p \in modified : p[1] = s /\ p[2] = ref
  BY <1>1
<1>3. images = IF s \in {pair[1] : pair \in modified} THEN {number(ref) : ref \in of} ELSE {}
  BY DEF ImagesIn, History
<1>4. \A ref \in of : \E i \in 1 .. Len(refs) : number(ref) = base + i /\ refs[i] = ref
  BY <1>2, NumberIn
<1> HIDE DEF of, number, images
<1>5. Len(refs) \in Nat
  BY DEF IsSeq
<1>6. \A x \in images : x \in base + 1 .. base + Len(refs)
  BY <1>3, <1>4, <1>5
<1>7. ASSUME NEW x, images = {x}
      PROVE  \E i \in 1 .. Len(refs) : /\ x = base + i /\ of = {refs[i]}
                                       /\ \E p \in modified : p[1] = s /\ p[2] = refs[i]
  <2>1. PICK ref \in of : x = number(ref)
    BY <1>3, <1>7
  <2>2. PICK i \in 1 .. Len(refs) : number(ref) = base + i /\ refs[i] = ref
    BY <1>4, <2>1
  <2>3. ASSUME NEW other \in of PROVE other = ref
    <3>1. number(other) = x
      BY <1>3, <1>7
    <3>2. PICK j \in 1 .. Len(refs) : number(other) = base + j /\ refs[j] = other
      BY <1>4
    <3>3. i = j
      BY <1>5, <2>1, <2>2, <3>1, <3>2
    <3>. QED
      BY <2>2, <3>2, <3>3
  <2>. QED
    BY <1>2, <2>1, <2>2, <2>3
<1>. QED
  BY <1>6, <1>7 DEF images, of, Reports

\* What the sub-shapes after an operation have of its result.
ResultIs(all, base, sources, refs, kept, result, history) ==
  /\ IsSeq(refs) /\ IsSeq(result)
  /\ ToSet(result) = kept \cup base + 1 .. base + Len(refs)
  /\ \A s \in sources :
       /\ ImagesIn(history, "modified", s) \subseteq ToSet(result) \ sources
       /\ \A x \in ToSet(result) : ImagesIn(history, "modified", s) = {x} =>
            all[s].continues \subseteq all[x].continues

\* The result of an operation and its history fit what it is given.
LEMMA ResultFits ==
  ASSUME NEW known, IsSeq(known), NEW base, base = Len(known), NEW all, NEW inputs, InputsFit(inputs),
         NEW sources, sources = ToSet(Sources(PartsIn(inputs))), sources \subseteq 1 .. base,
         NEW set, IsFiniteSet(set), NEW refs, refs = InSomeOrder(set),
         NEW kept, kept \subseteq sources,
         NEW below, NEW looks, NEW modified, NEW generated,
         \A p \in modified : p[2] \in set /\ p[2].what # "old",
         all = known \o Built(known, refs, below, looks, modified, generated),
         NEW result, result = InSomeOrder(kept \cup {base + i : i \in DOMAIN refs}),
         NEW history, history.modified = History(refs, base, modified)
  PROVE  ResultIs(all, base, sources, refs, kept, result, history)
<1> DEFINE built == Built(known, refs, below, looks, modified, generated)
           new == {base + i : i \in DOMAIN refs}
<1>1. IsSeq(refs) /\ ToSet(refs) = set
  BY LaidOut
<1>2. base \in Nat /\ Len(refs) \in Nat /\ DOMAIN refs = 1 .. Len(refs)
  BY <1>1, IsSeqIn DEF IsSeq
<1>3. new = base + 1 .. base + Len(refs)
  <2>1. new = {base + i : i \in 1 .. Len(refs)}
    BY <1>2
  <2> HIDE DEF new
  <2>. QED
    BY <1>2, <2>1, Shifted
<1>4. IsSeq(result) /\ ToSet(result) = kept \cup new
  <2>1. IsFiniteSet(sources)
    <3>1. IsSeq(Sources(PartsIn(inputs)))
      BY SourcesSplit DEF InputsFit, Split
    <3>. QED
      BY <3>1, ToSetFinite
  <2>2. IsFiniteSet(new)
    <3>1. IsFiniteSet(base + 1 .. base + Len(refs))
      BY <1>2, FS_Interval
    <3> HIDE DEF new
    <3>. QED
      BY <1>3, <3>1
  <2>3. IsFiniteSet(kept)
    BY <2>1, FS_Subset
  <2>4. IsFiniteSet(kept \cup new)
    BY <2>2, <2>3, FS_Union
  <2> HIDE DEF new
  <2>5. result = InSomeOrder(kept \cup new)
    BY DEF new
  <2>. QED
    BY <2>4, <2>5, LaidOut
<1> HIDE DEF new
<1>5. /\ IsSeq(built) /\ Len(built) = Len(refs)
      /\ \A i \in 1 .. Len(refs) :
           \A p \in modified : (p[2] = refs[i] /\ ImagesOf(modified, p[1]) = {refs[i]})
                  => known[p[1]].continues \subseteq built[i].continues
  <2>1. ContinuesIn(built, known, refs, modified)
    BY <1>1, BuiltContinues
  <2> HIDE DEF built
  <2>. QED
    BY <2>1, Zenon DEF ContinuesIn
<1> HIDE DEF built
<1>6. /\ \A x \in 1 .. base : all[x] = known[x]
      /\ \A i \in 1 .. Len(refs) : all[base + i] = built[i]
  BY <1>5, PutTogether DEF built
<1>7. ASSUME NEW s \in sources
      PROVE  /\ ImagesIn(history, "modified", s) \subseteq ToSet(result) \ sources
             /\ \A x \in ToSet(result) : ImagesIn(history, "modified", s) = {x} =>
                  all[s].continues \subseteq all[x].continues
  <2> DEFINE images == ImagesIn(history, "modified", s)
  <2>0. \A p \in modified : p[2] \in ToSet(refs) /\ p[2].what # "old"
    BY <1>1
  <2>1. /\ \A x \in images : x \in base + 1 .. base + Len(refs)
        /\ \A x : images = {x} =>
              \E i \in 1 .. Len(refs) : /\ x = base + i /\ ImagesOf(modified, s) = {refs[i]}
                                        /\ \E p \in modified : p[1] = s /\ p[2] = refs[i]
    <3>1. Reports(history, modified, refs, base, s)
      BY <1>1, <1>2, <2>0, ImagesReported
    <3>. QED
      BY <3>1, Zenon DEF Reports
  <2> HIDE DEF images
  <2>2. images \subseteq ToSet(result) \ sources
    <3>1. \A x \in images : x \in new /\ x \notin 1 .. base
      BY <1>2, <1>3, <2>1
    <3>2. sources \subseteq 1 .. base
      OBVIOUS
    <3>. QED
      BY <1>4, <3>1, <3>2
  <2>3. ASSUME NEW x, images = {x} PROVE all[s].continues \subseteq all[x].continues
    <3>1. PICK i \in 1 .. Len(refs) : /\ x = base + i /\ ImagesOf(modified, s) = {refs[i]}
                                      /\ \E p \in modified : p[1] = s /\ p[2] = refs[i]
      BY <2>1, <2>3
    <3>2. PICK p \in modified : p[1] = s /\ p[2] = refs[i]
      BY <3>1
    <3>3. known[s].continues \subseteq built[i].continues
      BY <1>5, <3>1, <3>2
    <3>. QED
      BY <1>6, <3>1, <3>3
  <2>. QED
    BY <2>2, <2>3 DEF images
<1>. QED
  BY <1>1, <1>3, <1>4, <1>7 DEF ResultIs

\* Sequences put together, in either order.
LEMMA Associates ==
  ASSUME NEW r, NEW s, NEW t, IsSeq(r), IsSeq(s), IsSeq(t)
  PROVE  r \o (s \o t) = (r \o s) \o t
<1> DEFINE one == r \o (s \o t)
           two == (r \o s) \o t
           m == Len(r)
           n == Len(s)
           k == Len(t)
<1>0. m \in Nat /\ n \in Nat /\ k \in Nat
  BY DEF IsSeq
<1>1. /\ IsSeq(s \o t) /\ Len(s \o t) = n + k
      /\ \A i \in 1 .. n : (s \o t)[i] = s[i]
      /\ \A i \in 1 .. k : (s \o t)[n + i] = t[i]
  BY PutTogether
<1>2. /\ IsSeq(r \o s) /\ Len(r \o s) = m + n
      /\ \A i \in 1 .. m : (r \o s)[i] = r[i]
      /\ \A i \in 1 .. n : (r \o s)[m + i] = s[i]
  BY PutTogether
<1> DEFINE st == s \o t
           rs == r \o s
<1> HIDE DEF st, rs
<1>3. /\ IsSeq(one) /\ Len(one) = m + (n + k)
      /\ \A i \in 1 .. m : one[i] = r[i]
      /\ \A i \in 1 .. n + k : one[m + i] = st[i]
  BY <1>1, PutTogether DEF st
<1>4. /\ IsSeq(two) /\ Len(two) = (m + n) + k
      /\ \A i \in 1 .. m + n : two[i] = rs[i]
      /\ \A i \in 1 .. k : two[(m + n) + i] = t[i]
  BY <1>2, PutTogether DEF rs
<1>5. /\ \A i \in 1 .. n : st[i] = s[i]
      /\ \A i \in 1 .. k : st[n + i] = t[i]
      /\ \A i \in 1 .. m : rs[i] = r[i]
      /\ \A i \in 1 .. n : rs[m + i] = s[i]
  BY <1>1, <1>2 DEF st, rs
<1> HIDE DEF one, two, m, n, k
<1>6. ASSUME NEW i \in 1 .. m + (n + k) PROVE one[i] = two[i]
  <2>1. CASE i \in 1 .. m
    <3>1. one[i] = r[i]
      BY <1>3, <2>1
    <3>2. i \in 1 .. m + n
      BY <1>0, <2>1
    <3>. QED
      BY <1>4, <1>5, <2>1, <3>1, <3>2
  <2>2. CASE i \in m + 1 .. m + n
    <3> DEFINE j == i - m
    <3>1. j \in 1 .. n /\ j \in 1 .. n + k /\ i = m + j /\ i \in 1 .. m + n
      BY <1>0, <2>2
    <3> HIDE DEF j
    <3>. QED
      BY <1>3, <1>4, <1>5, <3>1
  <2>3. CASE i \in m + n + 1 .. m + (n + k)
    <3> DEFINE j == i - m
               l == i - (m + n)
    <3>1. j \in 1 .. n + k /\ i = m + j /\ l \in 1 .. k /\ i = (m + n) + l /\ j = n + l
      BY <1>0, <2>3
    <3> HIDE DEF j, l
    <3>2. one[i] = t[l]
      BY <1>3, <1>5, <3>1
    <3>3. two[i] = t[l]
      BY <1>4, <3>1
    <3>. QED
      BY <3>2, <3>3
  <2>. QED
    BY <1>0, <2>1, <2>2, <2>3
<1>7. Len(one) = Len(two) /\ Len(one) = m + (n + k)
  BY <1>0, <1>3, <1>4
<1>8. one = [i \in 1 .. Len(one) |-> one[i]] /\ two = [i \in 1 .. Len(two) |-> two[i]]
  BY <1>3, <1>4 DEF IsSeq
<1>9. one = two
  BY <1>6, <1>7, <1>8
<1>. QED
  BY <1>9 DEF one, two

\* Every operation with a history begins so.
LEMMA OperateKeeps ==
  ASSUME Sound, NEW STATE class, NEW STATE inputs, NEW STATE tool, NEW STATE consumed, NEW STATE placed,
         NEW STATE set, NEW STATE below, NEW STATE looks, NEW STATE kept, NEW STATE modified,
         NEW STATE generated, Given(inputs, tool, consumed, placed, set, kept, modified),
         Operate(class, inputs, tool, consumed, placed, set, below, looks, kept, modified, generated)
  PROVE  Sound'
<1> DEFINE known == shapes \o placed
           base == Len(shapes) + Len(placed)
           refs == InSomeOrder(set)
           built == Built(known, refs, below, looks, modified, generated)
           new == placed \o built
           result == InSomeOrder(kept \cup {base + i : i \in DOMAIN refs})
           job == [Idle EXCEPT !.what = "operation", !.class = class, !.inputs = inputs, !.tool = tool,
                           !.consumed = consumed,
                           !.result = result,
                           !.modified = History(refs, base, modified),
                           !.generated = History(refs, base, generated)]
           history == [modified |-> job.modified, generated |-> job.generated]
           sources == ToSet(Sources(PartsIn(inputs)))
           all == known \o built
           old == VisibleShapes(bodies \ consumed)
<1>1. IsFiniteSet(set) /\ Start(new, job)
  BY Zenon DEF Operate
<1>2. /\ job.what = "operation" /\ job.inputs = inputs /\ job.tool = tool /\ job.consumed = consumed
      /\ job.result = result
      /\ history.modified = History(refs, base, modified)
  BY DEF Idle
<1>3. /\ IsSeq(placed) /\ \A i \in 1 .. Len(placed) : Len(shapes) + i \in placed[i].continues
      /\ InputsFit(inputs)
      /\ kept \subseteq sources
      /\ \A p \in modified : p[2] \in set /\ p[2].what # "old"
      /\ consumed \subseteq bodies /\ VisibleShapes(consumed) \subseteq sources
      /\ sources \subseteq VisibleShapes(consumed) \cup Len(shapes) + 1 .. Len(shapes) + Len(placed)
      /\ IsSeq(tool) /\ ToSet(tool) \subseteq sources
  BY DEF Given
<1>4. IsSeq(shapes) /\ Len(shapes) \in Nat /\ Len(placed) \in Nat
  BY <1>3, NumbersCount DEF IsSeq
<1>5. IsSeq(known) /\ Len(known) = base
  BY <1>3, <1>4, PutTogether
<1>6. work' = job /\ UNCHANGED <<bodies, datums>>
  BY <1>1 DEF Start
<1> HIDE DEF job, history
<1>7. VisibleShapes(bodies) \subseteq 1 .. Len(shapes) /\ datums \subseteq 1 .. Len(shapes)
  BY DEF Sound, Apart, ApartIn, VisibleShapes
<1>8. VisibleShapes(consumed) \subseteq VisibleShapes(bodies) /\ old \subseteq VisibleShapes(bodies)
      /\ VisibleShapes(consumed) \cap (old \cup datums) = {}
  BY <1>3 DEF Sound, Apart, ApartIn, VisibleShapes
<1>9. sources \subseteq 1 .. base /\ sources \cap (old \cup datums) = {}
  <2> HIDE DEF sources, old
  <2>. QED
    BY <1>3, <1>4, <1>7, <1>8
<1> HIDE DEF known, refs, built, result, sources, old
<1>10. /\ IsSeq(refs) /\ IsSeq(result)
       /\ ToSet(result) = kept \cup base + 1 .. base + Len(refs)
       /\ \A s \in sources :
            /\ ImagesIn(history, "modified", s) \subseteq ToSet(result) \ sources
            /\ \A x \in ToSet(result) : ImagesIn(history, "modified", s) = {x} =>
                 all[s].continues \subseteq all[x].continues
  <2> HIDE DEF base, all
  <2>1. refs = InSomeOrder(set) /\ result = InSomeOrder(kept \cup {base + i : i \in DOMAIN refs})
    BY DEF refs, result
  <2>2. all = known \o Built(known, refs, below, looks, modified, generated)
    BY DEF all, built
  <2>3. sources = ToSet(Sources(PartsIn(inputs)))
    BY DEF sources
  <2>4. ResultIs(all, base, sources, refs, kept, result, history)
    BY <1>1, <1>2, <1>3, <1>5, <1>9, <2>1, <2>2, <2>3, ResultFits
  <2>. QED
    BY <2>4 DEF ResultIs
<1>11. IsSeq(built) /\ Len(built) = Len(refs)
       /\ \A i \in 1 .. Len(refs) : base + i \in built[i].continues
  <2>1. ContinuesIn(built, known, refs, modified)
    BY <1>10, BuiltContinues DEF built
  <2>. QED
    BY <1>5, <2>1 DEF ContinuesIn
<1>12. /\ IsSeq(new) /\ Len(new) = Len(placed) + Len(refs)
       /\ \A i \in 1 .. Len(placed) : new[i] = placed[i]
       /\ \A i \in 1 .. Len(refs) : new[Len(placed) + i] = built[i]
  <2> HIDE DEF base, all
  <2>1. IsSeq(placed) /\ IsSeq(built) /\ Len(built) = Len(refs)
    BY <1>3, <1>11
  <2>. QED
    BY <2>1, PutTogether
<1>13. Len(refs) \in Nat
  BY <1>10 DEF IsSeq
<1> HIDE DEF new
<1>14. ASSUME NEW i \in 1 .. Len(new) PROVE Len(shapes) + i \in new[i].continues
  <2>1. CASE i \in 1 .. Len(placed)
    BY <1>3, <1>12, <2>1
  <2>2. CASE i \notin 1 .. Len(placed)
    <3> DEFINE j == i - Len(placed)
    <3>1. j \in 1 .. Len(refs) /\ i = Len(placed) + j /\ Len(shapes) + i = base + j
      BY <1>4, <1>12, <1>13, <1>14, <2>2
    <3> HIDE DEF j, base
    <3>. QED
      BY <1>11, <1>12, <3>1
  <2>. QED
    BY <2>1, <2>2
<1>15. Numbered' /\ Len(shapes') = base + Len(refs)
  <2>1. Adds(new)
    BY <1>1, <1>12, <1>14 DEF Start, Adds
  <2>. QED
    BY <1>4, <1>12, <1>13, <2>1, AddingGrows DEF Sound
<1>16. shapes' = all
  <2>1. shapes' = shapes \o new
    BY <1>1 DEF Start
  <2>2. new = placed \o built /\ all = (shapes \o placed) \o built
    BY DEF new, all, known
  <2> HIDE DEF new, all, built, base
  <2>3. shapes \o (placed \o built) = (shapes \o placed) \o built
    BY <1>3, <1>4, <1>11, Associates
  <2>. QED
    BY <2>1, <2>2, <2>3
<1>17. Fits(work.inputs, work.result, WorkHistory)'
  <2>1. work'.inputs = inputs /\ work'.result = result /\ WorkHistory' = history
    BY <1>2, <1>6 DEF WorkHistory, history
  <2>2. ToSet(result) \subseteq 1 .. Len(shapes')
    <3>1. base \in Nat
      BY <1>4
    <3> HIDE DEF base
    <3>2. kept \subseteq 1 .. base + Len(refs)
      BY <1>3, <1>9, <1>13, <3>1
    <3>3. base + 1 .. base + Len(refs) \subseteq 1 .. base + Len(refs)
      BY <1>13, <3>1
    <3>. QED
      BY <1>10, <1>15, <3>2, <3>3
  <2>3. \A x \in ToSet(result) : x \in shapes'[x].continues
    BY <1>15, <2>2 DEF Numbered
  <2> HIDE DEF all
  <2>. QED
    BY <1>3, <1>10, <1>16, <2>1, <2>2, <2>3 DEF Fits, sources
<1>18. WorkSources' = sources
  BY <1>2, <1>6 DEF WorkSources, sources
<1>19. /\ work'.consumed = consumed /\ work'.tool = tool /\ work'.result = result
       /\ work'.what = "operation"
  BY <1>2, <1>6
<1>20. (sources \cup ToSet(result)) \cap (old \cup datums) = {}
  <2>1. old \cup datums \subseteq 1 .. Len(shapes)
    BY <1>7, <1>8
  <2>2. (base + 1 .. base + Len(refs)) \cap 1 .. Len(shapes) = {}
    BY <1>4, <1>13
  <2> HIDE DEF base
  <2>. QED
    BY <1>3, <1>9, <1>10, <2>1, <2>2
<1>21. Working'
  <2>1. /\ work'.consumed \subseteq bodies' /\ VisibleShapes(work.consumed)' \subseteq WorkSources'
    BY <1>3, <1>6, <1>18, <1>19 DEF VisibleShapes, PartsOf
  <2>2. old = VisibleShapes(bodies \ work.consumed)'
    BY <1>6, <1>19 DEF old, VisibleShapes, PartsOf
  <2>3. WorkSources' \subseteq 1 .. Len(shapes')
    BY <1>4, <1>9, <1>13, <1>15, <1>18
  <2>. QED
    BY <1>3, <1>6, <1>17, <1>18, <1>19, <1>20, <2>1, <2>2, <2>3 DEF Working
<1>22. Prepared'
  BY <1>19, <1>21 DEF Prepared, Births
<1>. QED
  BY <1>1, <1>12, <1>14, <1>22, StartKeeps

\* The parts of a body.
LEMMA PartsAreThere ==
  ASSUME Sound, NEW b \in bodies
  PROVE  IsSeq(b.parts) /\ PartsOf(b) = ToSet(b.parts) /\ IsFiniteSet(PartsOf(b))
  BY ToSetFinite DEF Sound, Apart, ApartIn, PartsOf

\* A target alone.
LEMMA OneInput ==
  ASSUME NEW parts, IsSeq(parts)
  PROVE  /\ InputsFit(<<Target(parts)>>)
         /\ ToSet(Sources(PartsIn(<<Target(parts)>>))) = ToSet(parts)
<1> DEFINE input == Target(parts)
           inputs == <<input>>
           all == PartsIn(inputs)
<1>1. input.parts = parts /\ ~ input.tool /\ ~ input.synthetic
  BY DEF Target
<1> HIDE DEF input
<1>2. DOMAIN inputs = 1 .. 1 /\ Len(inputs) = 1 /\ inputs[1] = input
  OBVIOUS
<1> HIDE DEF inputs
<1>3. all = [k \in 1 .. 1 |-> inputs[k].parts]
  BY <1>2 DEF PartsIn
<1>4. DOMAIN all = 1 .. 1 /\ all[1] = parts /\ Len(all) = 1
  <2>1. \A k \in 1 .. 1 : all[k] = inputs[k].parts
    BY <1>3
  <2>2. all = [k \in 1 .. 1 |-> all[k]]
    BY <1>3
  <2> HIDE DEF all
  <2>3. Len(all) = 1
    BY <2>2, FunctionIsSeq
  <2>. QED
    BY <1>1, <1>2, <2>1, <2>2, <2>3
<1> HIDE DEF all
<1>5. Inputs(all)
  BY <1>4 DEF Inputs
<1>6. InputsFit(inputs)
  BY <1>1, <1>2, <1>4, <1>5 DEF InputsFit, all
<1>7. ToSet(Sources(all)) = UNION {ToSet(all[k]) : k \in 1 .. 1}
  BY <1>4, <1>5, SourcesSplit
<1>8. ToSet(Sources(all)) = ToSet(parts)
  BY <1>4, <1>7
<1>. QED
  BY <1>6, <1>8 DEF inputs, input, all

\* A target and a tool.
LEMMA TwoInputs ==
  ASSUME NEW parts, IsSeq(parts), NEW input, IsSeq(input.parts), input.tool
  PROVE  /\ InputsFit(<<Target(parts), input>>)
         /\ ToSet(Sources(PartsIn(<<Target(parts), input>>))) = ToSet(parts) \cup ToSet(input.parts)
<1> DEFINE target == Target(parts)
           inputs == <<target, input>>
           all == PartsIn(inputs)
<1>1. target.parts = parts /\ ~ target.tool /\ ~ target.synthetic
  BY DEF Target
<1> HIDE DEF target
<1>2. DOMAIN inputs = 1 .. 2 /\ Len(inputs) = 2 /\ inputs[1] = target /\ inputs[2] = input
  OBVIOUS
<1> HIDE DEF inputs
<1>3. all = [k \in 1 .. 2 |-> inputs[k].parts]
  BY <1>2 DEF PartsIn
<1>4. DOMAIN all = 1 .. 2 /\ all[1] = parts /\ all[2] = input.parts /\ Len(all) = 2
  <2>1. \A k \in 1 .. 2 : all[k] = inputs[k].parts
    BY <1>3
  <2>2. all = [k \in 1 .. 2 |-> all[k]]
    BY <1>3
  <2> HIDE DEF all
  <2>3. Len(all) = 2
    BY <2>2, FunctionIsSeq
  <2>. QED
    BY <1>1, <1>2, <2>1, <2>2, <2>3
<1> HIDE DEF all
<1>5. Inputs(all)
  BY <1>4 DEF Inputs
<1>6. InputsFit(inputs)
  BY <1>1, <1>2, <1>4, <1>5 DEF InputsFit, all
<1>7. ToSet(Sources(all)) = UNION {ToSet(all[k]) : k \in 1 .. 2}
  BY <1>4, <1>5, SourcesSplit
<1>8. ToSet(Sources(all)) = ToSet(parts) \cup ToSet(input.parts)
  BY <1>4, <1>7
<1>. QED
  BY <1>6, <1>8 DEF inputs, target, all

\* One body, and no tool.
LEMMA OneGiven ==
  ASSUME Sound, NEW b \in bodies, NEW set, NEW kept, kept \subseteq PartsOf(b), NEW modified,
         \A p \in modified : p[2] \in set /\ p[2].what # "old"
  PROVE  Given(<<Target(b.parts)>>, << >>, {b}, << >>, set, kept, modified)
<1> DEFINE inputs == <<Target(b.parts)>>
<1>1. InputsFit(inputs) /\ ToSet(Sources(PartsIn(inputs))) = PartsOf(b)
  BY PartsAreThere, OneInput
<1> HIDE DEF inputs
<1>2. VisibleShapes({b}) = PartsOf(b)
  BY DEF VisibleShapes
<1> DEFINE none == << >>
<1>3. IsSeq(none) /\ Len(none) = 0 /\ ToSet(none) = {}
  BY EmptyIsSeq
<1> HIDE DEF none
<1>4. \A i \in 1 .. Len(none) : Len(shapes) + i \in none[i].continues
  BY <1>3
<1>5. Given(inputs, none, {b}, none, set, kept, modified)
  BY <1>1, <1>2, <1>3, <1>4 DEF Given
<1>. QED
  BY <1>5 DEF inputs, none

\* A body, and a tool that is another body or was made for it.
Tooled(b, input, tool, consumed, placed) ==
  /\ IsSeq(input.parts) /\ input.tool
  /\ IsSeq(tool) /\ ToSet(tool) \subseteq ToSet(input.parts)
  /\ consumed \subseteq bodies /\ b \in consumed
  /\ VisibleShapes(consumed) \subseteq PartsOf(b) \cup ToSet(input.parts)
  /\ IsSeq(placed) /\ \A i \in 1 .. Len(placed) : Len(shapes) + i \in placed[i].continues
  /\ ToSet(input.parts) \subseteq
       VisibleShapes(consumed) \cup Len(shapes) + 1 .. Len(shapes) + Len(placed)

\* One body, and a tool.
LEMMA TwoGiven ==
  ASSUME Sound, NEW b \in bodies, NEW input, NEW tool, NEW consumed, NEW placed,
         Tooled(b, input, tool, consumed, placed),
         NEW set, NEW kept, kept \subseteq PartsOf(b) \cup ToSet(input.parts), NEW modified,
         \A p \in modified : p[2] \in set /\ p[2].what # "old"
  PROVE  Given(<<Target(b.parts), input>>, tool, consumed, placed, set, kept, modified)
<1> DEFINE inputs == <<Target(b.parts), input>>
<1>1. InputsFit(inputs) /\ ToSet(Sources(PartsIn(inputs))) = PartsOf(b) \cup ToSet(input.parts)
  BY PartsAreThere, TwoInputs DEF Tooled
<1> HIDE DEF inputs
<1>2. PartsOf(b) \subseteq VisibleShapes(consumed)
  BY DEF VisibleShapes, Tooled
<1>. QED
  BY <1>1, <1>2 DEF Given, Tooled, inputs

\* transform.
LEMMA TransformKeeps ==
  ASSUME Sound, Transform
  PROVE  Sound'
<1> DEFINE what(x) == IF Kind(x) = "f" THEN "face" ELSE IF Kind(x) = "e" THEN "edge" ELSE "vertex"
           moved(x) == Ref(what(x), x, 0)
           all(b) == {moved(x) : x \in PartsOf(b)}
           pairs(b) == {<<x, moved(x)>> : x \in PartsOf(b)}
           below(b) == [ref \in all(b) |-> {moved(y) : y \in Below(ref.of)}]
           looks(b) == [ref \in all(b) |-> Elsewhere(shapes[ref.of].looks)]
<1>1. PICK b \in bodies : Operate("Transform", <<Target(b.parts)>>, << >>, {b}, << >>, all(b),
                                  below(b), looks(b), {}, pairs(b), {})
  BY Zenon DEF Transform
<1>2. \A p \in pairs(b) : p[2] \in all(b) /\ p[2].what # "old"
  BY DEF Ref
<1> HIDE DEF all, pairs, below, looks
<1>3. Given(<<Target(b.parts)>>, << >>, {b}, << >>, all(b), {}, pairs(b))
  BY <1>2, OneGiven
<1>. QED
  BY <1>1, <1>3, OperateKeeps

\* fillet.
LEMMA FilletKeeps ==
  ASSUME Sound, Fillet
  PROVE  Sound'
<1>0. PICK b \in bodies : \E a \in Edges(PartsOf(b)) : FilletOf(b, a)
  BY Zenon DEF Fillet
<1>1. PICK a \in Edges(PartsOf(b)) : FilletOf(b, a)
  BY <1>0
<1> DEFINE
      parts == PartsOf(b)
      ends == Below(a)
      sides == Around(parts, a)
      cut == UNION {AtVertex(parts, v) : v \in ends} \ {a}
      caps(v) == {f \in Faces(parts) \ sides : Below(f) \cap AtVertex(parts, v) # {}}
      faces == sides \cup UNION {caps(v) : v \in ends}
      blend == Ref("blend", a, 0)
      corner(e, v) == Ref("vertex", e, v)
      corners(set, at) == {corner(p[1], p[2]) : p \in {q \in set \X at : q[2] \in Below(q[1])}}
      side(f) == Ref("rim", f, 0)
      end(v) == Ref("seam", v, 0)
      new == {blend} \cup {Ref("face", f, 0) : f \in faces} \cup {Ref("edge", e, 0) : e \in cut}
             \cup {side(f) : f \in sides} \cup {end(v) : v \in ends} \cup corners(cut, ends)
      kept == parts \ ({a} \cup ends \cup cut \cup faces)
      pairs == {<<f, Ref("face", f, 0)>> : f \in faces}
<1>2. \E below, looks, generated :
        Operate("Fillet", <<Target(b.parts)>>, << >>, {b}, << >>, new, below, looks, kept, pairs, generated)
  BY <1>1, Zenon DEF FilletOf
<1>3. \A p \in pairs : p[2] \in new /\ p[2].what # "old"
  BY DEF Ref
<1>4. kept \subseteq PartsOf(b)
  OBVIOUS
<1> HIDE DEF new, kept, pairs
<1>5. Given(<<Target(b.parts)>>, << >>, {b}, << >>, new, kept, pairs)
  BY <1>3, <1>4, OneGiven
<1>. QED
  BY <1>2, <1>5, OperateKeeps

\* The tool of a hole, and a tool that is a body.
LEMMA MadeForIt ==
  ASSUME Sound, NEW b \in bodies, NEW template, IsTemplate(template)
  PROVE  Tooled(b, Synthetic(Ids(template, Len(shapes))), Ids(template, Len(shapes)), {b},
                Placed(template, Len(shapes)))
<1> DEFINE base == Len(shapes)
           ids == Ids(template, base)
           placed == Placed(template, base)
           input == Synthetic(ids)
<1>1. base \in Nat
  BY NumbersCount
<1>2. /\ IsSeq(placed) /\ Len(placed) = Len(template)
      /\ \A i \in 1 .. Len(template) : base + i \in placed[i].continues
      /\ IsSeq(ids) /\ ToSet(ids) = base + 1 .. base + Len(template)
  BY <1>1, TemplatesPlaced
<1>3. input.parts = ids /\ input.tool
  BY DEF Synthetic
<1> HIDE DEF ids, placed, input
<1>4. VisibleShapes({b}) = PartsOf(b)
  BY DEF VisibleShapes
<1>5. Tooled(b, input, ids, {b}, placed)
  BY <1>2, <1>3, <1>4 DEF Tooled
<1>. QED
  BY <1>5 DEF ids, placed, input

\* A body that is the tool of another.
LEMMA AnotherBody ==
  ASSUME Sound, NEW b \in bodies, NEW c \in bodies
  PROVE  Tooled(b, Real(c.parts), << >>, {b, c}, << >>)
<1> DEFINE input == Real(c.parts)
           none == << >>
<1>1. input.parts = c.parts /\ input.tool
  BY DEF Real
<1>2. IsSeq(c.parts) /\ PartsOf(c) = ToSet(c.parts)
  BY PartsAreThere
<1>3. IsSeq(none) /\ Len(none) = 0 /\ ToSet(none) = {}
  BY EmptyIsSeq
<1>4. VisibleShapes({b, c}) = PartsOf(b) \cup PartsOf(c)
  BY DEF VisibleShapes
<1> HIDE DEF input, none
<1>5. \A i \in 1 .. Len(none) : Len(shapes) + i \in none[i].continues
  BY <1>3
<1>6. Tooled(b, input, none, {b, c}, none)
  BY <1>1, <1>2, <1>3, <1>4, <1>5 DEF Tooled
<1>. QED
  BY <1>6 DEF input, none

\* A tool that bites.
LEMMA BiteKeeps ==
  ASSUME Sound, NEW class, NEW b \in bodies, NEW bite, NEW wall, NEW STATE tool, NEW STATE placed,
         NEW STATE consumed, NEW STATE input, Tooled(b, input, tool, consumed, placed),
         BiteOf(class, b, bite, wall, tool, placed, consumed, input)
  PROVE  Sound'
<1> DEFINE
      parts == PartsOf(b)
      met == ({e \in Edges(parts) : Below(e) \cap bite.gone # {}} \ bite.gone) \cup bite.halved
      faces == {f \in Faces(parts) : Below(f) \cap (met \cup bite.gone) # {}}
      places(e) == IF e \in bite.halved THEN Below(e) ELSE Below(e) \cap bite.gone
      point(e, v) == Ref("vertex", e, v)
      points(e) == {point(e, v) : v \in places(e)}
      pieces(e) == IF e \in bite.halved THEN {Ref("edge", e, v) : v \in Below(e)}
                   ELSE {Ref("edge", e, 0)}
      rim(f) == Ref("rim", f, 0)
      trimmed(f) == Ref("face", f, 0)
      inside == Ref("wall", wall, 0)
      new == {inside} \cup {trimmed(f) : f \in faces} \cup {rim(f) : f \in faces}
             \cup UNION {pieces(e) \cup points(e) : e \in met}
      splits == UNION {{<<e, piece>> : piece \in pieces(e)} : e \in met}
      kept == parts \ (bite.gone \cup met \cup faces)
      pairs == splits \cup {<<f, trimmed(f)>> : f \in faces} \cup {<<wall, inside>>}
      inputs == <<Target(b.parts), input>>
<1>1. \E below, looks, generated :
        Operate(class, inputs, tool, consumed, placed, new, below, looks, kept, pairs, generated)
  BY Zenon DEF BiteOf
<1>2. \A p \in pairs : p[2] \in new /\ p[2].what # "old"
  <2>1. \A p \in splits : p[2] \in new /\ p[2].what # "old"
    <3>1. \A e : \A r \in pieces(e) : r.what = "edge"
      BY DEF Ref
    <3> HIDE DEF pieces
    <3>. QED
      BY <3>1
  <2>2. \A f : trimmed(f).what = "face"
    BY DEF Ref
  <2>3. inside.what = "wall"
    BY DEF Ref
  <2> HIDE DEF splits, trimmed, inside
  <2>. QED
    BY <2>1, <2>2, <2>3
<1>3. kept \subseteq PartsOf(b)
  OBVIOUS
<1> HIDE DEF new, kept, pairs
<1>4. Given(inputs, tool, consumed, placed, new, kept, pairs)
  BY <1>2, <1>3, TwoGiven
<1> HIDE DEF inputs
<1>. QED
  BY <1>1, <1>4, OperateKeeps

\* hole, through a corner or an edge.
LEMMA HoleKeeps ==
  ASSUME Sound, Hole
  PROVE  Sound'
<1> DEFINE base == Len(shapes)
           ids == Ids(Cylinder, base)
           placed == Placed(Cylinder, base)
           input == Synthetic(ids)
<1>1. PICK b \in bodies : \E bite \in Bites(PartsOf(b)) :
        BiteOf("Hole", b, bite, base + 1, ids, placed, {b}, input)
  BY Zenon DEF Hole
<1>2. PICK bite \in Bites(PartsOf(b)) : BiteOf("Hole", b, bite, base + 1, ids, placed, {b}, input)
  BY <1>1
<1>3. Tooled(b, input, ids, {b}, placed)
  BY MadeForIt, DocumentsAssumption
<1> HIDE DEF ids, placed, input
<1>. QED
  BY <1>2, <1>3, BiteKeeps

\* boolean_combine, subtract.
LEMMA SubtractKeeps ==
  ASSUME Sound, Subtract
  PROVE  Sound'
<1>1. PICK b \in bodies, c \in bodies : \E bite \in Bites(PartsOf(b)) : \E wall \in Faces(PartsOf(c)) :
        BiteOf("Boolean", b, bite, wall, << >>, << >>, {b, c}, Real(c.parts))
  BY Zenon DEF Subtract
<1> DEFINE input == Real(c.parts)
           none == << >>
<1>2. PICK bite, wall : BiteOf("Boolean", b, bite, wall, none, none, {b, c}, input)
  BY <1>1
<1>3. Tooled(b, input, none, {b, c}, none)
  BY AnotherBody
<1> HIDE DEF input, none
<1>. QED
  BY <1>2, <1>3, BiteKeeps

\* A tool that sinks in.
LEMMA SinkKeeps ==
  ASSUME Sound, NEW class, NEW b \in bodies, NEW f, NEW wall, NEW seam, NEW inner, NEW STATE tool,
         NEW STATE placed, NEW STATE consumed, NEW STATE input, Tooled(b, input, tool, consumed, placed),
         inner \in ToSet(input.parts),
         SinkOf(class, b, f, wall, seam, inner, tool, placed, consumed, input)
  PROVE  Sound'
<1> DEFINE
      known == shapes \o placed
      toolParts == ToSet(input.parts)
      keptEdges == {e \in toolParts \ {seam} : known[e].kind = "e" /\ known[e].below = {inner}}
      keptFaces == {g \in toolParts \ {wall} : known[g].kind = "f" /\ known[g].below \subseteq keptEdges}
      face == Ref("face", f, 0)
      inside == Ref("wall", wall, 0)
      rim == Ref("rim", f, 0)
      cut == Ref("seam", seam, 0)
      point == Ref("vertex", seam, 0)
      new == {face, inside, rim, cut, point}
      kept == (PartsOf(b) \ {f}) \cup {inner} \cup keptEdges \cup keptFaces
      pairs == {<<f, face>>, <<wall, inside>>, <<seam, cut>>}
      inputs == <<Target(b.parts), input>>
<1>1. \E below, looks, generated :
        Operate(class, inputs, tool, consumed, placed, new, below, looks, kept, pairs, generated)
  BY Zenon DEF SinkOf
<1>2. \A p \in pairs : p[2] \in new /\ p[2].what # "old"
  BY DEF Ref
<1>3. kept \subseteq PartsOf(b) \cup ToSet(input.parts)
  OBVIOUS
<1> HIDE DEF new, kept, pairs
<1>4. Given(inputs, tool, consumed, placed, new, kept, pairs)
  BY <1>2, <1>3, TwoGiven
<1> HIDE DEF inputs
<1>. QED
  BY <1>1, <1>4, OperateKeeps

\* hole, blind.
LEMMA BlindHoleKeeps ==
  ASSUME Sound, BlindHole
  PROVE  Sound'
<1> DEFINE base == Len(shapes)
           ids == Ids(Cylinder, base)
           placed == Placed(Cylinder, base)
           seam == CHOOSE x \in ToSet(ids) :
                     placed[x - base].kind = "e" /\ Cardinality(placed[x - base].below) = 2
           input == Synthetic(ids)
<1>1. PICK b \in bodies : \E f \in Faces(PartsOf(b)) : \E inner \in ToSet(ids) :
        SinkOf("Hole", b, f, base + 1, seam, inner, ids, placed, {b}, input)
  BY Zenon DEF BlindHole
<1>2. PICK f, inner : inner \in ToSet(ids)
                       /\ SinkOf("Hole", b, f, base + 1, seam, inner, ids, placed, {b}, input)
  BY <1>1
<1>3. Tooled(b, input, ids, {b}, placed)
  BY MadeForIt, DocumentsAssumption
<1>4. input.parts = ids
  BY DEF Synthetic
<1> HIDE DEF ids, placed, input, seam
<1>. QED
  BY <1>2, <1>3, <1>4, SinkKeeps

\* boolean_combine with a body half sunk in.
LEMMA CombineKeeps ==
  ASSUME Sound, Combine
  PROVE  Sound'
<1>1. PICK b \in bodies, c \in bodies : \E f \in Faces(PartsOf(b)) :
        \E wall \in Faces(PartsOf(c)), seam \in Edges(PartsOf(c)), inner \in PartsOf(c) :
          SinkOf("Boolean", b, f, wall, seam, inner, << >>, << >>, {b, c}, Real(c.parts))
  BY Zenon DEF Combine
<1> DEFINE input == Real(c.parts)
           none == << >>
<1>2. PICK f, wall, seam, inner :
        inner \in PartsOf(c) /\ SinkOf("Boolean", b, f, wall, seam, inner, none, none, {b, c}, input)
  BY <1>1
<1>3. Tooled(b, input, none, {b, c}, none)
  BY AnotherBody
<1>4. ToSet(input.parts) = PartsOf(c)
  BY DEF Real, PartsOf
<1> HIDE DEF input, none
<1>. QED
  BY <1>2, <1>3, <1>4, SinkKeeps

\* Finitely many sources, finitely many new sub-shapes of a sort.
LEMMA RefsFinite ==
  ASSUME NEW S, IsFiniteSet(S), NEW what, NEW nth
  PROVE  IsFiniteSet({Ref(what, x, nth) : x \in S})
<1> DEFINE g == [x \in S |-> Ref(what, x, nth)]
<1>1. DOMAIN g = S /\ \A x \in S : g[x] = Ref(what, x, nth)
  OBVIOUS
<1> HIDE DEF g
<1>2. IsFiniteSet({g[x] : x \in S})
  BY <1>1, ImageFinite
<1>3. {g[x] : x \in S} = {Ref(what, x, nth) : x \in S}
  BY <1>1
<1>. QED
  BY <1>2, <1>3

\* A local offset unites a body with a prism swept from one of its faces.
LEMMA OffsetKeeps ==
  ASSUME Sound, NEW b \in bodies, NEW f \in Faces(PartsOf(b)), OffsetOf(b, f)
  PROVE  Sound'
<1> DEFINE
      parts == PartsOf(b)
      rims == Edges(parts) \cap Below(f)
      corners == {v \in parts : \E e \in rims : v \in Below(e)}
      leading(v) == AtVertex(parts, v) \ rims
      caps == {Ref("face", f, 0)}
      walled == {Ref("wall", e, 0) : e \in rims}
      edged == {Ref("edge", e, 0) : e \in rims}
      seamed == {Ref("seam", v, 0) : v \in corners}
      ended == {Ref("vertex", v, 0) : v \in corners}
      set == caps \cup walled \cup edged \cup seamed \cup ended
      sweep == InSomeOrder(set)
      ref(r) == Number(sweep, Len(shapes), r)
      below == [r \in ToSet(sweep) |->
        CASE r.what = "face" -> {Ref("edge", e, 0) : e \in rims}
          [] r.what = "wall" -> {Old(r.of), Ref("edge", r.of, 0)} \cup {Ref("seam", v, 0) : v \in Below(r.of)}
          [] r.what = "edge" -> {Ref("vertex", v, 0) : v \in Below(r.of)}
          [] r.what = "seam" -> {Old(r.of), Ref("vertex", r.of, 0)}
          [] r.what = "vertex" -> {}]
      looks == [r \in ToSet(sweep) |->
        LET of == shapes[r.of].looks
            round == of[1] = "circle"
        IN CASE r.what = "face" \/ (r.what = "edge" /\ round) -> of
             [] r.what = "edge" /\ ~ round -> <<of[1], of[2], [of[3] EXCEPT !.line = 0 - r.of]>>
             [] r.what = "wall" -> IF round THEN <<"cylinder", 9, of[3]>>
                                   ELSE <<"plane", 9, Frame(20 + r.of, 0, 0)>>
             [] r.what = "seam" -> <<"line", 9, Frame(shapes[f].looks[3].dir, 0 - r.of, 0)>>
             [] r.what = "vertex" -> of]
      placed == Built(shapes, sweep, below, looks, {}, {})
      own == {f} \cup rims \cup corners
      ids == [i \in DOMAIN sweep |-> Len(shapes) + i]
      prism == InSomeOrder(own) \o ids
      swept == {Len(shapes) + i : i \in DOMAIN sweep}
      next(e) == CHOOSE g \in Around(parts, e) : g # f
      lead(v) == CHOOSE e \in leading(v) : TRUE
      merged == {Ref("face", next(e), 1) : e \in rims} \cup {Ref("edge", lead(v), 1) : v \in corners}
      input == Synthetic(prism)
      inputs == <<Target(b.parts), input>>
      apart == (parts \ {f}) \cup swept
      kept == (parts \ ({f} \cup rims \cup corners \cup {next(e) : e \in rims}
                             \cup {lead(v) : v \in corners}))
              \cup {ref(r) : r \in {q \in ToSet(sweep) : q.what \in {"face", "edge", "vertex"}}}
      pairs == {<<next(e), Ref("face", next(e), 1)>> : e \in rims}
                   \cup {<<ref(Ref("wall", e, 0)), Ref("face", next(e), 1)>> : e \in rims}
                   \cup {<<lead(v), Ref("edge", lead(v), 1)>> : v \in corners}
                   \cup {<<ref(Ref("seam", v, 0)), Ref("edge", lead(v), 1)>> : v \in corners}
<1>1. \/ \E ins, at, look, generated :
           Operate("Offset", inputs, prism, {b}, placed, ins, at, look, apart, {}, generated)
      \/ \E at, look, generated :
           Operate("Offset", inputs, prism, {b}, placed, merged, at, look, kept, pairs, generated)
  BY Zenon DEF OffsetOf
<1> HIDE DEF below, looks
<1>2. IsSeq(b.parts) /\ parts = ToSet(b.parts) /\ IsFiniteSet(parts)
  BY PartsAreThere
<1>3. IsFiniteSet(rims) /\ IsFiniteSet(corners) /\ own \subseteq parts /\ IsFiniteSet(own)
  <2>1. rims \subseteq parts /\ corners \subseteq parts /\ f \in parts
    BY DEF Edges, Faces
  <2> HIDE DEF rims, corners
  <2>2. IsFiniteSet(rims) /\ IsFiniteSet(corners) /\ own \subseteq parts
    BY <1>2, <2>1, FS_Subset
  <2> HIDE DEF own
  <2>. QED
    BY <1>2, <2>2, FS_Subset
<1>4. IsFiniteSet(set) /\ \A r \in set : r.what # "old"
  <2>1. IsFiniteSet(caps)
    BY FS_Singleton
  <2>2. IsFiniteSet(walled) /\ IsFiniteSet(edged)
    <3> HIDE DEF rims
    <3>. QED
      BY <1>3, RefsFinite
  <2>3. IsFiniteSet(seamed) /\ IsFiniteSet(ended)
    <3> HIDE DEF corners
    <3>. QED
      BY <1>3, RefsFinite
  <2>4. \A r \in set : r.what # "old"
    <3> HIDE DEF rims, corners
    <3>. QED
      BY DEF Ref
  <2> HIDE DEF caps, walled, edged, seamed, ended
  <2>5. IsFiniteSet(set)
    <3>1. IsFiniteSet(caps \cup walled)
      BY <2>1, <2>2, FS_Union
    <3>2. IsFiniteSet(caps \cup walled \cup edged)
      BY <3>1, <2>2, FS_Union
    <3>3. IsFiniteSet(caps \cup walled \cup edged \cup seamed)
      BY <3>2, <2>3, FS_Union
    <3>. QED
      BY <3>3, <2>3, FS_Union
  <2>. QED
    BY <2>4, <2>5
<1>5. /\ \A e \in rims : Ref("wall", e, 0) \in set
      /\ \A v \in corners : Ref("seam", v, 0) \in set
  OBVIOUS
<1> HIDE DEF set
<1>6. IsSeq(sweep) /\ ToSet(sweep) = set /\ DOMAIN sweep = 1 .. Len(sweep) /\ Len(sweep) \in Nat
  <2>1. IsSeq(sweep) /\ ToSet(sweep) = set
    BY <1>4, LaidOut
  <2> HIDE DEF sweep
  <2>. QED
    BY <2>1, IsSeqIn
<1> HIDE DEF sweep
<1>7. Len(shapes) \in Nat
  BY NumbersCount
<1>8. IsSeq(placed) /\ Len(placed) = Len(sweep)
      /\ \A i \in 1 .. Len(sweep) : Len(shapes) + i \in placed[i].continues
  <2>1. ContinuesIn(placed, shapes, sweep, {})
    BY <1>6, BuiltContinues
  <2> HIDE DEF placed
  <2>. QED
    BY <2>1 DEF ContinuesIn
<1>9. swept = Len(shapes) + 1 .. Len(shapes) + Len(sweep)
  <2>1. swept = {Len(shapes) + i : i \in 1 .. Len(sweep)}
    BY <1>6
  <2> HIDE DEF swept
  <2>. QED
    BY <1>6, <1>7, <2>1, Shifted
<1>10. IsSeq(ids) /\ ToSet(ids) = swept
  <2>1. DOMAIN ids = DOMAIN sweep /\ \A i \in DOMAIN sweep : ids[i] = Len(shapes) + i
    OBVIOUS
  <2>2. ToSet(ids) = swept
    BY DEF ToSet
  <2>3. ids = [i \in 1 .. Len(sweep) |-> ids[i]]
    BY <1>6
  <2> HIDE DEF ids
  <2>. QED
    BY <1>6, <2>2, <2>3, FunctionIsSeq
<1> HIDE DEF placed, swept, ids
<1>11. IsSeq(prism) /\ ToSet(prism) = own \cup swept
  <2>1. IsSeq(InSomeOrder(own)) /\ ToSet(InSomeOrder(own)) = own
    <3> HIDE DEF own
    <3>. QED
      BY <1>3, LaidOut
  <2> DEFINE front == InSomeOrder(own)
  <2> HIDE DEF own
  <2>2. IsSeq(front) /\ ToSet(front) = own
    BY <2>1
  <2> HIDE DEF front
  <2>3. IsSeq(front \o ids) /\ ToSet(front \o ids) = ToSet(front) \cup ToSet(ids)
    BY <1>10, <2>2, PutTogether
  <2>. QED
    BY <1>10, <2>2, <2>3 DEF front
<1> HIDE DEF own, prism
<1>12. input.parts = prism /\ input.tool
  BY DEF Synthetic
<1> HIDE DEF input
<1>13. VisibleShapes({b}) = parts
  BY DEF VisibleShapes
<1>14. Tooled(b, input, prism, {b}, placed)
  <2> HIDE DEF parts
  <2>1. PartsOf(b) = parts
    BY DEF parts
  <2>. QED
    BY <1>3, <1>8, <1>9, <1>11, <1>12, <1>13, <2>1 DEF Tooled
<1>15. CASE \E ins, at, look, generated :
           Operate("Offset", inputs, prism, {b}, placed, ins, at, look, apart, {}, generated)
  <2>1. PICK ins, at, look, generated :
           Operate("Offset", inputs, prism, {b}, placed, ins, at, look, apart, {}, generated)
    BY <1>15
  <2> DEFINE none == {}
  <2>2. apart \subseteq PartsOf(b) \cup ToSet(input.parts)
    BY <1>11, <1>12
  <2>3. \A p \in none : p[2] \in ins /\ p[2].what # "old"
    OBVIOUS
  <2> HIDE DEF none, apart
  <2>4. Given(inputs, prism, {b}, placed, ins, apart, none)
    BY <1>14, <2>2, <2>3, TwoGiven
  <2>5. Operate("Offset", inputs, prism, {b}, placed, ins, at, look, apart, none, generated)
    BY <2>1 DEF none
  <2> HIDE DEF inputs
  <2>. QED
    BY <2>4, <2>5, OperateKeeps
<1>16. CASE \E at, look, generated :
           Operate("Offset", inputs, prism, {b}, placed, merged, at, look, kept, pairs, generated)
  <2>1. PICK at, look, generated :
           Operate("Offset", inputs, prism, {b}, placed, merged, at, look, kept, pairs, generated)
    BY <1>16
  <2>2. \A r \in set : ref(r) \in swept
    <3>1. \A r \in set : \E i \in 1 .. Len(sweep) : ref(r) = Len(shapes) + i
      BY <1>4, <1>6, NumberIn
    <3> HIDE DEF ref
    <3>. QED
      BY <1>6, <1>7, <1>9, <3>1
  <2> HIDE DEF ref
  <2>3. kept \subseteq PartsOf(b) \cup ToSet(input.parts)
    BY <1>6, <1>11, <1>12, <2>2
  <2> HIDE DEF next, lead, rims, corners
  <2>4. \A p \in pairs : p[2] \in merged /\ p[2].what # "old"
    <3>1. \A e : Ref("face", next(e), 1).what # "old"
      BY DEF Ref
    <3>2. \A v : Ref("edge", lead(v), 1).what # "old"
      BY DEF Ref
    <3>. QED
      BY <3>1, <3>2
  <2> HIDE DEF merged, kept, pairs
  <2>5. Given(inputs, prism, {b}, placed, merged, kept, pairs)
    BY <1>14, <2>3, <2>4, TwoGiven
  <2> HIDE DEF inputs
  <2>. QED
    BY <2>1, <2>5, OperateKeeps
<1>. QED
  BY <1>1, <1>15, <1>16

\* offset of a face.
LEMMA LocalOffsetKeeps ==
  ASSUME Sound, LocalOffset
  PROVE  Sound'
<1>1. PICK b \in bodies : \E f \in Faces(PartsOf(b)) : OffsetOf(b, f)
  BY Zenon DEF LocalOffset
<1>2. PICK f \in Faces(PartsOf(b)) : OffsetOf(b, f)
  BY <1>1
<1>. QED
  BY <1>2, OffsetKeeps

(***************************************************************************)
(* Every state is sound.                                                   *)
(***************************************************************************)
Blank == /\ shapes = << >> /\ made = 0 /\ registry = EmptyRegistry /\ bodies = {}
         /\ datums = {} /\ work = Idle

\* An evaluation begins, and is discarded, with nothing.
LEMMA BlankIsSound ==
  document \in Documents /\ Blank => Sound
<1> SUFFICES ASSUME document \in Documents, Blank PROVE Sound
  OBVIOUS
<1> DEFINE none == << >>
           book == [x \in {} |-> << >>]
<1>0. IsSeq(none) /\ Len(none) = 0 /\ ToSet(none) = {} /\ DOMAIN none = {} /\ shapes = none
  BY EmptyIsSeq DEF Blank
<1>1. /\ DOMAIN registry = States /\ registry.book = book /\ registry.records = none
      /\ registry.answering = book /\ DOMAIN book = {}
  BY DEF Blank, EmptyRegistry, States
<1>2. bodies = {} /\ datums = {} /\ work = Idle /\ made = 0 /\ VisibleShapes(bodies) = {}
  BY DEF Blank, VisibleShapes
<1> HIDE DEF none, book
<1>3. Counted /\ Numbered /\ Apart /\ Indexed
  BY <1>0, <1>1, <1>2 DEF Counted, Numbered, Apart, ApartIn, Indexed, IndexedIn
<1>4. Registry(registry)
  BY <1>0, <1>1 DEF Registry, Names, Chains
<1>5. Prepared
  BY <1>2 DEF Prepared, Idle, Births
<1>. QED
  BY <1>3, <1>4, <1>5 DEF Sound

\* The second half of every operation.
LEMMA HarvestKeeps ==
  ASSUME Sound, Harvest
  PROVE  Sound'
<1>1. /\ work # Idle /\ ~ Harvested.fault /\ registry' = Harvested /\ work' = Idle
      /\ bodies' = Remaining \cup Produced /\ datums' = NextDatums
      /\ UNCHANGED <<shapes, document, made>>
  BY DEF Harvest, Remaining, NextDatums
<1>2. Settles
  BY <1>1, HarvestSettles
<1>3. Registry(Harvested) /\ ApartIn(Remaining \cup Produced, NextDatums)
      /\ IndexedIn(Harvested, Remaining \cup Produced, NextDatums)
  BY <1>2 DEF Settles
<1>4. Numbered' /\ Counted' /\ Grows
  BY <1>1 DEF Sound, Numbered, Counted, Grows, IsSeq
<1>5. Registry(registry)'
  <2> DEFINE st == Harvested
  <2> HIDE DEF st
  <2>1. Registry(st) /\ registry' = st
    BY <1>1, <1>3 DEF st
  <2>. QED
    BY <1>4, <2>1, RegistryStays DEF Sound
<1>6. Apart'
  <2>1. ApartIn(bodies, datums)'
    BY <1>1, <1>3 DEF ApartIn, PartsOf
  <2>. QED
    BY <2>1 DEF Apart
<1>7. Indexed'
  <2>1. IndexedIn(registry, bodies, datums)'
    BY <1>1, <1>3 DEF IndexedIn, PartsOf, VisibleShapes, LiveAnswers, Answering
  <2>. QED
    BY <2>1 DEF Indexed
<1>8. Prepared'
  BY <1>1 DEF Prepared, Idle, Births
<1>. QED
  BY <1>4, <1>5, <1>6, <1>7, <1>8 DEF Sound

\* The same of the next state.
LEMMA BlankNext ==
  (document \in Documents /\ Blank)' => Sound'
  BY BlankIsSound, PTL

\* A refused harvest.
LEMMA RefusalKeeps ==
  ASSUME Sound, HarvestRefuses
  PROVE  Sound'
<1>1. document' \in Documents /\ Blank'
  BY DEF HarvestRefuses, Blank, Sound, Counted
<1>. QED
  BY <1>1, BlankNext

\* A step of nothing that is counted here.
LEMMA UnchangedKeeps ==
  ASSUME Sound, UNCHANGED <<shapes, document, made, registry, bodies, datums, work>>
  PROVE  Sound'
<1>1. Numbered' /\ Counted' /\ Grows
  BY DEF Sound, Numbered, Counted, Grows, IsSeq
<1>2. Registry(registry)'
  BY <1>1, RegistryStays DEF Sound
<1>3. Apart'
  BY DEF Sound, Apart, ApartIn, PartsOf
<1>4. Indexed'
  BY IndexStays DEF Sound
<1>5. ASSUME NEW parts, New(parts) PROVE New(parts)'
  BY <1>5 DEF New, VisibleShapes, PartsOf
<1>6. Working => Working'
  <2>1. Fits(work.inputs, work.result, WorkHistory) => Fits(work.inputs, work.result, WorkHistory)'
    BY DEF Fits, WorkHistory
  <2>. QED
    BY <2>1 DEF Working, WorkSources, VisibleShapes, PartsOf
<1>7. Prepared'
  BY <1>6 DEF Sound, Prepared, Births, New, VisibleShapes, PartsOf
<1>. QED
  BY <1>1, <1>2, <1>3, <1>4, <1>7 DEF Sound

\* A reference is recorded.
LEMMA PickKeeps ==
  ASSUME Sound, Pick
  PROVE  Sound'
  BY UnchangedKeeps DEF Pick

\* Every step.
LEMMA SoundNext ==
  ASSUME Sound, [Next]_vars
  PROVE  Sound'
<1>1. CASE UNCHANGED vars
  BY <1>1, UnchangedKeeps DEF vars
<1>2. CASE Next
  BY <1>2, BearKeeps, ImportKeeps, DatumPlaneKeeps, WireRouteKeeps, MirrorCopyKeeps, TransformKeeps,
     FilletKeeps, HoleKeeps, SubtractKeeps, BlindHoleKeeps, CombineKeeps, LocalOffsetKeeps,
     HarvestKeeps, RefusalKeeps, PickKeeps DEF Next
<1>. QED
  BY <1>1, <1>2

\* Every state of every evaluation is sound: the invariant the theorems below
\* follow from, for all documents, templates, slots and queries.
THEOREM StatesAreSound ==
  Spec => []Sound
<1>1. Init => Sound
  BY BlankIsSound DEF Init, Blank
<1>2. Sound /\ [Next]_vars => Sound'
  BY SoundNext
<1>. QED
  BY <1>1, <1>2, PTL DEF Spec

(***************************************************************************)
(* What follows.                                                           *)
(***************************************************************************)
\* A live record of a sound state.
LEMMA RecordsSpeak ==
  ASSUME Sound, NEW i \in LiveRecords
  PROVE  Speaks(registry, i) /\ i \in 1 .. Len(registry.records)
<1>1. DOMAIN registry.records = 1 .. Len(registry.records)
  BY IsSeqIn DEF Sound, Registry
<1>. QED
  BY <1>1 DEF Sound, Registry, LiveRecords

\* The registry's index and its records agree whenever no operation is under
\* way (NamingRegistry::HarvestOperation, its sweep and its totality rule).
THEOREM IndexIsSound ==
  Spec => []IndexSound
<1>1. Sound => IndexSound
  <2> SUFFICES ASSUME Sound PROVE IndexSound
    OBVIOUS
  <2>1. \A b \in {body \in bodies : ~ body.bare} : \A x \in PartsOf(b) : LiveAnswers(registry, x) # {}
    BY DEF Sound, Indexed, IndexedIn
  <2>2. ASSUME NEW i \in LiveRecords
        PROVE  /\ registry.records[i].shape \in VisibleShapes(bodies) \cup datums
               /\ i \in ToSet(Answering(registry, registry.records[i].shape))
    BY RecordsSpeak DEF Speaks, Sound, Indexed, IndexedIn, Answering
  <2>. QED
    BY <2>1, <2>2 DEF IndexSound
<1>. QED
  BY <1>1, StatesAreSound, PTL

\* A live token follows only images of its entity, never one half of a split
\* (the 1:1 rule of naming_registry.hpp).
THEOREM TokensFollow ==
  Spec => []TokenFollowsItsEntity
<1>1. Sound => TokenFollowsItsEntity
  BY RecordsSpeak DEF Speaks, TokenFollowsItsEntity
<1>. QED
  BY <1>1, StatesAreSound, PTL

\* A live record has the name its shape has now, plain modifications erased
\* (what MakeEntity reads).
THEOREM RecordsAreNamed ==
  Spec => []RecordNamesItsShape
<1>1. Sound => RecordNamesItsShape
  BY RecordsSpeak DEF Speaks, RecordNamesItsShape
<1>. QED
  BY <1>1, StatesAreSound, PTL

\* A bounded set of naturals has its greatest element.
LEMMA MostIn ==
  ASSUME NEW n \in Nat, NEW T, T \subseteq 1 .. n, T # {}
  PROVE  Max(T) \in T
<1> DEFINE R == {n - k : k \in T}
<1>1. R \subseteq Nat /\ R # {}
  OBVIOUS
<1> HIDE DEF R
<1>2. PICK m \in R : \A k \in R : m <= k
  BY <1>1, LeastNumber
<1>3. PICK t \in T : m = n - t
  BY DEF R
<1>4. ASSUME NEW k \in T PROVE t >= k
  <2>1. n - k \in R
    BY DEF R
  <2>2. m <= n - k
    BY <1>2, <2>1
  <2>. QED
    BY <1>3, <2>2
<1>. QED
  BY <1>3, <1>4 DEF Max

\* An entity answers under the name of any of its live records.
LEMMA AnswersToItsName ==
  ASSUME Sound, NEW i \in LiveRecords
  PROVE  NameOf(registry, registry.records[i].shape) = registry.records[i].name
<1> DEFINE x == registry.records[i].shape
           chain == Answering(registry, x)
           alive == {k \in DOMAIN chain : registry.records[chain[k]].live}
<1>1. /\ x \in DOMAIN registry.answering /\ i \in ToSet(chain) /\ registry.records[i].live
      /\ registry.records[i].name = NormalizeName(registry.book[x])
  BY RecordsSpeak DEF Speaks, Answering, LiveRecords
<1>2. IsSeq(chain) /\ \A j \in ToSet(chain) : j \in 1 .. Len(registry.records) /\ registry.records[j].shape = x
  BY <1>1 DEF Sound, Registry, Chains, Answering
<1> HIDE DEF x, chain
<1>3. /\ DOMAIN chain = 1 .. Len(chain) /\ Len(chain) \in Nat
      /\ \A k \in 1 .. Len(chain) : chain[k] \in ToSet(chain)
      /\ \E k \in 1 .. Len(chain) : chain[k] = i
  BY <1>1, <1>2, IsSeqIn
<1>4. alive \subseteq 1 .. Len(chain) /\ alive # {}
  BY <1>1, <1>3
<1>5. Max(alive) \in alive
  BY <1>3, <1>4, MostIn
<1> DEFINE j == chain[Max(alive)]
<1>6. j \in ToSet(chain) /\ registry.records[j].live
  BY <1>3, <1>5
<1>7. NameOf(registry, x) = registry.records[j].name
  BY DEF NameOf, Newest, chain
<1> HIDE DEF j, alive
<1>8. j \in LiveRecords /\ registry.records[j].shape = x
  <2>1. DOMAIN registry.records = 1 .. Len(registry.records)
    BY IsSeqIn DEF Sound, Registry
  <2>. QED
    BY <1>2, <1>6, <2>1 DEF LiveRecords
<1>9. registry.records[j].name = NormalizeName(registry.book[x])
  BY <1>8, RecordsSpeak DEF Speaks
<1>. QED
  BY <1>1, <1>7, <1>9 DEF x

\* The history of an anchor tells of no other entity than the one of its token.
LEMMA HistoryTells ==
  ASSUME Sound, NEW i \in LiveRecords, NEW set, registry.records[i].shape \in set, NEW anchor,
         registry.records[i].token = anchor.token
  PROVE  HistoryChannel(registry, set, anchor) \subseteq {registry.records[i].shape}
<1> DEFINE x == registry.records[i].shape
           same == {y \in set : \E k \in FindByToken(registry, anchor.token) :
                                  NameOf(registry, y) = registry.records[k].name}
<1>1. x \in same
  BY AnswersToItsName DEF FindByToken, LiveRecords
<1>2. HistoryChannel(registry, set, anchor) = OnlyOne(same)
  BY DEF HistoryChannel
<1> HIDE DEF same, x
<1>3. OnlyOne(same) \subseteq {x}
  BY <1>1 DEF OnlyOne
<1>. QED
  BY <1>2, <1>3 DEF x

\* ResolveRef, for one anchor whose entity is alive and a candidate: a
\* recovery, by the lattice or enriched, gives that entity.
LEMMA RecoversToIts ==
  ASSUME Sound, NEW i \in LiveRecords, NEW anchor, registry.records[i].token = anchor.token, NEW slot,
         registry.records[i].shape \in EvaluateToSet(registry, bodies, slot.query),
         ResolveRef(registry, bodies, slot, {anchor}).drift
  PROVE  ResolveRef(registry, bodies, slot, {anchor}).entities = {registry.records[i].shape}
<1> DEFINE x == registry.records[i].shape
           set == EvaluateToSet(registry, bodies, slot.query)
           history == HistoryChannel(registry, set, anchor)
           signature == SignatureChannel(registry, set, anchor)
           enriched == UniqueEnrichedCandidate(registry, bodies, set, anchor)
           agreed == UNION {Corroborate(HistoryChannel(registry, set, a), SignatureChannel(registry, set, a)) :
                              a \in {anchor}}
           recovered == UNION {Corroborate(HistoryChannel(registry, set, a),
                                           UniqueEnrichedCandidate(registry, bodies, set, a)) :
                                 a \in {anchor}}
           core == ResolveRefCore(registry, slot, set, {anchor})
           answer == ResolveRef(registry, bodies, slot, {anchor})
<1>1. history \subseteq {x}
  BY HistoryTells
<1>2. agreed = history \cap signature /\ recovered = history \cap enriched
  BY DEF Corroborate
<1>3. \/ answer = Answer("internal", {}, FALSE)
      \/ recovered # {} /\ answer = Answer("resolved", recovered, TRUE)
      \/ answer = core
  BY Zenon DEF ResolveRef
<1>4. x \in set
  OBVIOUS
<1> HIDE DEF set, history, signature, enriched
<1>5. \/ agreed # {} /\ core = Answer("resolved", agreed, TRUE)
      \/ \E how, entities : core = Answer(how, entities, FALSE)
  <2> DEFINE count == Cardinality(set)
             found == Answer("resolved", agreed, TRUE)
             unclear == Answer("ambiguous", {}, FALSE)
             empty == Answer("empty", {}, FALSE)
             all == Answer("resolved", set, FALSE)
  <2>1. core = CASE set = {} /\ slot.arity # "any" -> ApplyEmptyPolicy(slot)
                 [] count > 1 /\ slot.arity = "one" -> IF agreed # {} THEN found ELSE unclear
                 [] count > 0 /\ slot.arity = "range" /\ count < slot.min -> empty
                 [] slot.arity = "range" /\ slot.max # 0 /\ count > slot.max -> unclear
                 [] OTHER -> all
    BY Zenon DEF ResolveRefCore
  <2> HIDE DEF agreed, core, found, unclear, empty, all, count
  <2>2. set # {}
    BY <1>4
  <2>3. (agreed # {} /\ core = found) \/ core = unclear \/ core = empty \/ core = all
    BY <2>1, <2>2
  <2>. QED
    BY <2>3 DEF found, unclear, empty, all
<1> HIDE DEF agreed, recovered, core, answer, x
<1>6. answer.drift
  BY DEF answer
<1>7. \/ recovered # {} /\ answer.entities = recovered
      \/ agreed # {} /\ answer.entities = agreed
  BY <1>3, <1>5, <1>6 DEF Answer
<1>8. answer.entities = {x}
  BY <1>1, <1>2, <1>7
<1>. QED
  BY <1>8 DEF answer, x

\* An anchor whose token lives is never recovered to another entity
\* (ResolveRef, ResolveRefCore, UniqueHistoryCandidate).
THEOREM AnchorsAreFound ==
  Spec => []AnchoredIsFound
<1>1. Sound => AnchoredIsFound
  <2> SUFFICES ASSUME Sound, NEW r \in Resolutions, NEW i \in FindByToken(registry, r.anchor.token),
                      r.answer.drift, registry.records[i].live, registry.records[i].shape \in r.candidates
               PROVE  r.answer.entities = {registry.records[i].shape}
    BY Zenon DEF AnchoredIsFound
  <2>1. PICK anchor, slot, evidence : r = Resolved(anchor, slot, evidence)
    BY DEF Resolutions
  <2> DEFINE told == [token |-> anchor.token, shape |-> anchor.shape, looks |-> anchor.looks,
                      hash |-> anchor.hash, evidence |-> evidence]
             answer == ResolveRef(registry, bodies, slot, {told})
             set == EvaluateToSet(registry, bodies, slot.query)
  <2>2. r.anchor = anchor /\ r.answer = answer /\ r.candidates = set
    BY <2>1 DEF Resolved
  <2>3. told.token = anchor.token
    OBVIOUS
  <2> HIDE DEF told
  <2>4. /\ i \in LiveRecords /\ registry.records[i].token = told.token
        /\ registry.records[i].shape \in set /\ answer.drift
    BY <2>2, <2>3 DEF FindByToken, LiveRecords
  <2>5. answer.entities = {registry.records[i].shape}
    BY <2>4, RecoversToIts
  <2>. QED
    BY <2>2, <2>5
<1>. QED
  BY <1>1, StatesAreSound, PTL
==============================================================================
